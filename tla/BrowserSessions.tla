---------------------------- MODULE BrowserSessions ----------------------------
(***************************************************************************)
(* A supervised browser session (BrowserSessionService, its REST handlers, *)
(* PlaywrightBrowserRuntime): its row, the session the runtime keeps in    *)
(* the API process, the thread that drives the browser, the log of actions *)
(* and the confirmations of those with side effects.                       *)
(*                                                                         *)
(* Handlers run on one event loop: a call into the runtime blocks it, and  *)
(* only the thread goes on.  The thread never looks at the row, a handler  *)
(* copies the runtime's state into it.                                     *)
(***************************************************************************)
EXTENDS Requests, Naturals, FiniteSets

CONSTANTS
    Confirmations,  \* ids of confirmations
    MaxActions,     \* max_actions_per_session
    MaxLog          \* bound of the model: entries of the action log

ASSUME SessionAssumption == MaxActions \in Nat \ {0} /\ MaxLog \in Nat

VARIABLES
    \* browser_sessions
    state,       \* status, "absent" where there is no committed row
    stopAsked,   \* stop_requested
    \* _LiveSession
    live,        \* state, "gone" where the runtime has no such session
    liveStop,    \* stop_requested
    page,        \* the browser it owns: none, open, or closed under it
    thread,      \* where _run_session is
    \* browser_action_confirmations and browser_session_actions
    conf,        \* state, "none" where there is no row
    lapsed,      \* expires_at is past
    logged,      \* rows of the action log
    \* history
    ran,         \* read-only actions the thread has run
    performed,   \* by confirmation: how often its action was performed
    outran,      \* the thread wrote its state over a stop
    unlogged,    \* a request was lost after its action
    surpassed    \* a stale request has written

rowVars == <<state, stopAsked>>
liveVars == <<live, liveStop, page, thread>>
logVars == <<conf, lapsed, logged>>
sessionHistory == <<ran, performed, outran, unlogged, surpassed>>
sessionVars == <<rowVars, liveVars, logVars, sessionHistory, requestVars>>

Terminal == {"stopped", "failed"}
Actionable == {"running", "needs_user_action"}
Stoppable == {"queued", "starting"} \cup Actionable
SessionStates == Stoppable \cup {"stopping"} \cup Terminal

SessionInit ==
    /\ state = "absent"
    /\ stopAsked = FALSE
    /\ live = "gone"
    /\ liveStop = FALSE
    /\ page = "none"
    /\ thread = "new"
    /\ conf = [c \in Confirmations |-> "none"]
    /\ lapsed = [c \in Confirmations |-> FALSE]
    /\ logged = 0
    /\ ran = 0
    /\ performed = [c \in Confirmations |-> 0]
    /\ outran = FALSE
    /\ unlogged = FALSE
    /\ surpassed = FALSE
    /\ NoRequests

-----------------------------------------------------------------------------
(* The row and the runtime. *)

\* A handler that has flushed a change holds the database's lock.
LockFree(h) == \A x \in Handlers \ {h} : req[x] # Idle => ~req[x].holds

\* read_runtime, and the row where the runtime knows nothing.
Seen == IF live = "gone" THEN [state |-> state, stop |-> stopAsked]
                         ELSE [state |-> live, stop |-> liveStop]

Outdated == Seen # [state |-> state, stop |-> stopAsked]

\* The row is loaded and _sync_runtime called, which flushes if that changes it.
BeginSynced(h, what, c) ==
    /\ state # "absent"
    /\ Outdated => LockFree(h)
    /\ Begin(h, [op |-> what, conf |-> c, loaded |-> state, loadedStop |-> stopAsked,
                 view |-> Seen, used |-> logged, holds |-> Outdated])

\* It commits what that call flushed ...
KeepView(h) ==
    /\ state' = IF req[h].holds THEN req[h].view.state ELSE state
    /\ stopAsked' = IF req[h].holds THEN req[h].view.stop ELSE stopAsked

\* ... or what a later one did: a column is written if it was loaded differently.
FollowRuntime(h) ==
    /\ state' = IF live' \in {"gone", req[h].loaded} THEN state ELSE live'
    /\ stopAsked' = IF live' = "gone" \/ liveStop = req[h].loadedStop
                    THEN stopAsked ELSE liveStop

\* A commit that others under way may have read too early.
CommitDecision(h) ==
    /\ surpassed' = (surpassed \/ stale[h])
    /\ EndAndOvertake(h)

-----------------------------------------------------------------------------
(* POST /browser-sessions and GET /browser-sessions/{id} *)

\* The row is added and the runtime's session scheduled ...
CreateRead(h) ==
    /\ thread = "new"
    /\ LockFree(h)
    /\ live' = "queued"
    /\ thread' = "scheduled"
    /\ Begin(h, [op |-> "open", holds |-> TRUE])
    /\ UNCHANGED <<rowVars, liveStop, page, logVars, sessionHistory>>

\* ... before the row is committed.
CreateCommit(h) ==
    /\ Busy(h, "open")
    /\ state' = "queued"
    /\ End(h)
    /\ UNCHANGED <<stopAsked, liveVars, logVars, sessionHistory>>

OpenSession(h) == CreateRead(h) \/ CreateCommit(h)

\* get_status of a session that has moved.
GetStatus(h) ==
    \/ /\ Outdated
       /\ BeginSynced(h, "status", {})
       /\ UNCHANGED <<rowVars, liveVars, logVars, sessionHistory>>
    \/ /\ Busy(h, "status")
       /\ KeepView(h)
       /\ End(h)
       /\ UNCHANGED <<liveVars, logVars, sessionHistory>>

-----------------------------------------------------------------------------
(* POST /browser-sessions/{id}/stop *)

\* Seeded fault: a session that has ended can be stopped.
StopRead_Ended(h) ==
    /\ state \in Stoppable \cup Terminal
    /\ Begin(h, [op |-> "stop", holds |-> FALSE])
    /\ UNCHANGED <<rowVars, liveVars, logVars, sessionHistory>>

\* can_request_stop, asked of the row as it is.
StopRead(h) ==
    /\ state \in Stoppable
    /\ Begin(h, [op |-> "stop", holds |-> FALSE])
    /\ UNCHANGED <<rowVars, liveVars, logVars, sessionHistory>>

\* mark_stop_requested, and request_stop of a session the runtime has lost.
StopUnknown(h) ==
    /\ Busy(h, "stop")
    /\ LockFree(h)
    /\ live = "gone"
    /\ state' = "stopping"
    /\ stopAsked' = TRUE
    /\ End(h)
    /\ UNCHANGED <<liveVars, logVars, sessionHistory>>

\* request_stop of one that has ended.
StopEnded(h) ==
    /\ Busy(h, "stop")
    /\ LockFree(h)
    /\ live \in Terminal
    /\ liveStop' = TRUE
    /\ state' = live
    /\ stopAsked' = TRUE
    /\ End(h)
    /\ UNCHANGED <<live, page, thread, logVars, sessionHistory>>

\* request_stop: it is stopping, ...
StopMark(h) ==
    /\ Busy(h, "stop")
    /\ LockFree(h)
    /\ live \in Stoppable \cup {"stopping"}
    /\ liveStop' = TRUE
    /\ live' = "stopping"
    /\ req' = [req EXCEPT ![h] = [op |-> "close", holds |-> TRUE]]
    /\ UNCHANGED <<rowVars, page, thread, logVars, sessionHistory, stale>>

\* Seeded fault: the browser is left to the thread.
StopClose_Left(h) ==
    /\ Busy(h, "close")
    /\ req' = [req EXCEPT ![h].op = "stopped"]
    /\ UNCHANGED <<rowVars, liveVars, logVars, sessionHistory, stale>>

\* ... _close_live_handles, ...
StopClose(h) ==
    /\ Busy(h, "close")
    /\ page' = "none"
    /\ req' = [req EXCEPT ![h].op = "stopped"]
    /\ UNCHANGED <<rowVars, live, liveStop, thread, logVars, sessionHistory, stale>>

\* ... and stopped, unless the thread has made something else of it.
StopDone(h) ==
    /\ Busy(h, "stopped")
    /\ live' = IF live = "stopping" THEN "stopped" ELSE live
    /\ state' = live'
    /\ stopAsked' = TRUE
    /\ End(h)
    /\ UNCHANGED <<liveStop, page, thread, logVars, sessionHistory>>

StopSession(h) ==
    \/ StopRead(h)
    \/ StopUnknown(h)
    \/ StopEnded(h)
    \/ StopMark(h)
    \/ StopClose(h)
    \/ StopDone(h)

\* The loop is blocked while a handler is inside request_stop.
LoopFree(h) == \A x \in Handlers \ {h} : req[x].op \notin {"close", "stopped"}

-----------------------------------------------------------------------------
(* _run_session *)

\* What the thread makes of the session, whoever has asked it to stop.
Becomes(s) ==
    /\ live' = s
    /\ outran' = (outran \/ liveStop)
    /\ UNCHANGED <<rowVars, liveStop, logVars, ran, performed, unlogged, surpassed, requestVars>>

ThreadStarts ==
    /\ thread = "scheduled"
    /\ ~liveStop
    /\ thread' = "launching"
    /\ Becomes("starting")
    /\ UNCHANGED page

\* It looks for a stop before it starts, and while it serves actions.
ThreadStops ==
    /\ liveStop
    /\ thread \in {"scheduled", "acting"}
    /\ thread' = "ended"
    /\ UNCHANGED <<rowVars, live, liveStop, page, logVars, sessionHistory, requestVars>>

Launched ==
    /\ thread = "launching"
    /\ ~liveStop
    /\ thread' = "navigating"
    /\ UNCHANGED <<rowVars, live, liveStop, page, logVars, sessionHistory, requestVars>>

\* No browser, or a stop before navigation; a timeout asks for the user.
LaunchFails ==
    /\ thread = "launching"
    /\ thread' = "ended"
    /\ UNCHANGED page
    /\ Becomes("failed") \/ Becomes("needs_user_action")

\* page.goto answers: the browser becomes the session's.
Navigated ==
    /\ thread = "navigating"
    /\ thread' = "acting"
    /\ page' = "open"
    /\ Becomes("running") \/ Becomes("needs_user_action")

\* It fails, and the browser is closed; a timeout leaves its page.
NavigationFails ==
    /\ thread = "navigating"
    /\ \/ thread' = "ended" /\ UNCHANGED page /\ Becomes("failed")
       \/ thread' = "acting" /\ page' = "closed" /\ Becomes("needs_user_action")

RunSession ==
    \/ ThreadStarts
    \/ ThreadStops
    \/ Launched
    \/ LaunchFails
    \/ Navigated
    \/ NavigationFails

-----------------------------------------------------------------------------
(* POST /browser-sessions/{id}/actions *)

\* execute_action up to the policy's decision.
ActRead(h) ==
    /\ BeginSynced(h, "act", {})
    /\ UNCHANGED <<rowVars, liveVars, logVars, sessionHistory>>

\* Seeded fault: the budget is not looked at.
WithinPolicy_NoBudget(h) == req[h].view.state \in Actionable

\* evaluate_action_policy_with_json, of what was read.
WithinPolicy(h) ==
    /\ req[h].view.state \in Actionable
    /\ req[h].used < MaxActions

LogAction == logged < MaxLog /\ logged' = logged + 1

\* Refused, by this or by the allowlist and the parameters: logged all the same.
ActRefused(h) ==
    /\ Busy(h, "act")
    /\ LockFree(h)
    /\ LogAction
    /\ KeepView(h)
    /\ CommitDecision(h)
    /\ UNCHANGED <<liveVars, conf, lapsed, ran, performed, outran, unlogged>>

\* execute_read_only_action: the thread is given the action and waited for, if
\* there is a page; it may find that the user is needed.
ExecuteAction ==
    \/ /\ live \in Actionable
       /\ page = "open"
       /\ thread = "acting"
       /\ ran' = ran + 1
       /\ live' \in {live, "needs_user_action"}
    \/ /\ ~(live \in Actionable /\ page = "open" /\ thread = "acting")
       /\ UNCHANGED <<ran, live>>

ActRun(h) ==
    /\ Busy(h, "act")
    /\ LockFree(h)
    /\ WithinPolicy(h)
    /\ LogAction
    /\ ExecuteAction
    /\ FollowRuntime(h)
    /\ CommitDecision(h)
    /\ UNCHANGED <<liveStop, page, thread, conf, lapsed, performed, outran, unlogged>>

\* The log's lock cannot be had: the action was run, the request is rolled back.
ActLost(h) ==
    /\ Busy(h, "act")
    /\ WithinPolicy(h)
    /\ ExecuteAction
    /\ unlogged' = TRUE
    /\ End(h)
    /\ UNCHANGED <<rowVars, liveStop, page, thread, logVars, performed, outran, surpassed>>

ExecuteReadOnly(h) == ActRead(h) \/ ActRefused(h) \/ ActRun(h) \/ ActLost(h)

-----------------------------------------------------------------------------
(* Confirmations. *)

Pending == {c \in Confirmations : conf[c] = "pending"}

\* Seeded fault: a pending confirmation is not looked for.
AskRead_NoLook(h) ==
    /\ Seen.state \in Actionable
    /\ BeginSynced(h, "ask", {})
    /\ UNCHANGED <<rowVars, liveVars, logVars, sessionHistory>>

\* request_confirmation_gated_action up to get_pending_for_session: one that is
\* pending is the answer, unless its time is over.
AskRead(h) ==
    /\ Seen.state \in Actionable
    /\ \A c \in Pending : lapsed[c]
    /\ BeginSynced(h, "ask", Pending)
    /\ UNCHANGED <<rowVars, liveVars, logVars, sessionHistory>>

AskWrite(h, c) ==
    /\ Busy(h, "ask")
    /\ LockFree(h)
    /\ conf[c] = "none"
    /\ LogAction
    /\ conf' = [x \in Confirmations |-> IF x = c THEN "pending"
                                        ELSE IF x \in req[h].conf THEN "expired"
                                        ELSE conf[x]]
    /\ KeepView(h)
    /\ CommitDecision(h)
    /\ UNCHANGED <<liveVars, lapsed, ran, performed, outran, unlogged>>

RequestConfirmation(h) == AskRead(h) \/ \E c \in Confirmations : AskWrite(h, c)

\* Seeded fault: what was decided before is decided again.
ConfirmRead_Decided(h, c) ==
    /\ conf[c] # "none"
    /\ BeginSynced(h, IF lapsed[c] THEN "expire" ELSE "confirm", {c})
    /\ UNCHANGED <<rowVars, liveVars, logVars, sessionHistory>>

\* can_confirm: only what is pending, and what is late becomes expired.
ConfirmRead(h, c) ==
    /\ conf[c] = "pending"
    /\ BeginSynced(h, IF lapsed[c] THEN "expire" ELSE "confirm", {c})
    /\ UNCHANGED <<rowVars, liveVars, logVars, sessionHistory>>

\* can_cancel, the same; a cancellation does not look at the runtime.
CancelRead(h, c) ==
    /\ conf[c] = "pending"
    /\ Begin(h, [op |-> IF lapsed[c] THEN "expire" ELSE "cancel", conf |-> {c}, holds |-> FALSE])
    /\ UNCHANGED <<rowVars, liveVars, logVars, sessionHistory>>

Settle(h, st) == conf' = [c \in Confirmations |-> IF c \in req[h].conf THEN st ELSE conf[c]]

ExpireWrite(h) ==
    /\ Busy(h, "expire")
    /\ LockFree(h)
    /\ Settle(h, "expired")
    /\ KeepView(h)
    /\ CommitDecision(h)
    /\ UNCHANGED <<liveVars, lapsed, logged, ran, performed, outran, unlogged>>

CancelWrite(h) ==
    /\ Busy(h, "cancel")
    /\ LockFree(h)
    /\ Settle(h, "cancelled")
    /\ LogAction
    /\ CommitDecision(h)
    /\ UNCHANGED <<rowVars, liveVars, lapsed, ran, performed, outran, unlogged>>

\* execute_confirmation_gated_action
Perform(h) ==
    performed' = [c \in Confirmations |->
                     performed[c] + IF c \in req[h].conf /\ live \in Actionable THEN 1 ELSE 0]

\* The runtime has no such session, so nothing is done.
ConfirmBlocked(h) ==
    /\ Busy(h, "confirm")
    /\ LockFree(h)
    /\ req[h].view.state \in Actionable
    /\ live = "gone"
    /\ Settle(h, "blocked")
    /\ KeepView(h)
    /\ CommitDecision(h)
    /\ UNCHANGED <<liveVars, lapsed, logged, ran, performed, outran, unlogged>>

\* The action is performed, then the confirmation is executed.
ConfirmWrite(h) ==
    /\ Busy(h, "confirm")
    /\ LockFree(h)
    /\ req[h].view.state \in Actionable
    /\ live # "gone"
    /\ Perform(h)
    /\ Settle(h, "executed")
    /\ LogAction
    /\ UNCHANGED liveVars
    /\ FollowRuntime(h)
    /\ CommitDecision(h)
    /\ UNCHANGED <<lapsed, ran, outran, unlogged>>

\* The action is performed and the request then rolled back.
ConfirmLost(h) ==
    /\ Busy(h, "confirm")
    /\ LockFree(h)
    /\ req[h].view.state \in Actionable
    /\ Perform(h)
    /\ unlogged' = TRUE
    /\ End(h)
    /\ UNCHANGED <<rowVars, liveVars, logVars, ran, outran, surpassed>>

\* POST .../confirm and .../cancel
DecideConfirmation(h) ==
    \/ \E c \in Confirmations : ConfirmRead(h, c) \/ CancelRead(h, c)
    \/ ExpireWrite(h)
    \/ CancelWrite(h)
    \/ ConfirmBlocked(h)
    \/ ConfirmWrite(h)
    \/ ConfirmLost(h)

\* The fifteen minutes of a confirmation are over.
ConfirmationLapses(c) ==
    /\ conf[c] = "pending"
    /\ ~lapsed[c]
    /\ lapsed' = [lapsed EXCEPT ![c] = TRUE]
    /\ UNCHANGED <<rowVars, liveVars, conf, logged, sessionHistory, requestVars>>

-----------------------------------------------------------------------------
\* The API process dies: the runtime, its threads and the requests are gone.
Restart ==
    /\ thread # "new"
    /\ live # "gone"
    /\ live' = "gone"
    /\ liveStop' = FALSE
    /\ page' = "none"
    /\ thread' = "ended"
    /\ req' = [h \in Handlers |-> Idle]
    /\ stale' = [h \in Handlers |-> FALSE]
    /\ UNCHANGED <<rowVars, logVars, sessionHistory>>

\* A request that is not inside the runtime is lost.
SessionRequestLost(h) ==
    /\ Lost(h)
    /\ UNCHANGED <<rowVars, liveVars, logVars, sessionHistory>>

SessionNext ==
    \/ RunSession
    \/ Restart
    \/ \E c \in Confirmations : ConfirmationLapses(c)
    \/ \E h \in Handlers :
          /\ LoopFree(h)
          /\ \/ OpenSession(h)
             \/ GetStatus(h)
             \/ StopSession(h)
             \/ ExecuteReadOnly(h)
             \/ RequestConfirmation(h)
             \/ DecideConfirmation(h)
             \/ req[h].op \notin {"close", "stopped"} /\ SessionRequestLost(h)

SessionSpec == SessionInit /\ [][SessionNext]_sessionVars

-----------------------------------------------------------------------------
(* Properties. *)

\* The values each variable takes.
SessionTypeOK ==
    /\ state \in SessionStates \cup {"absent"}
    /\ stopAsked \in BOOLEAN
    /\ live \in SessionStates \cup {"gone"}
    /\ liveStop \in BOOLEAN
    /\ page \in {"none", "open", "closed"}
    /\ thread \in {"new", "scheduled", "launching", "navigating", "acting", "ended"}
    /\ conf \in [Confirmations -> {"none", "pending", "executed", "blocked", "cancelled", "expired"}]
    /\ lapsed \in [Confirmations -> BOOLEAN]
    /\ logged \in 0 .. MaxLog
    /\ ran \in Nat
    /\ performed \in [Confirmations -> Nat]

\* Once its row says that a session has ended it says so for good, and the
\* runtime agrees or knows nothing, unless the thread was navigating when it was
\* stopped: then it writes running or failed over the stop.
EndedIsEnded ==
    [][(state \in Terminal) => \/ outran'
                               \/ state' = state /\ live' \in {state, "gone"}]_sessionVars

\* A stop releases the browser: one that is still open has its thread, unless a
\* stop came while it was navigating, or is closing it now.
BrowserIsReleased ==
    page = "open" =>
        \/ thread = "acting"
        \/ outran
        \/ \E h \in Handlers : Busy(h, "close")

\* A confirmed action is performed once, and one that was cancelled, has expired
\* or is undecided is not, unless a decision overtook another or was rolled back
\* after the action.
PerformedOnce ==
    \/ surpassed
    \/ unlogged
    \/ \A c \in Confirmations : performed[c] <= IF conf[c] = "executed" THEN 1 ELSE 0

\* One confirmation is pending at a time, unless two were asked for at once.
OnePending == surpassed \/ Cardinality({c \in Pending : ~lapsed[c]}) <= 1

\* The thread runs no more actions than the budget allows and each is in the log,
\* unless two were asked for at once or one's entry was rolled back.
ActionsAreBudgeted ==
    surpassed \/ unlogged \/ (ran <= MaxActions /\ ran <= logged)

\* A session does what it was allowed to, once, and when it has ended leaves nothing
\* running (BrowserSessionService, PlaywrightBrowserRuntime).
SessionsAreSupervised ==
    /\ [](BrowserIsReleased /\ PerformedOnce /\ OnePending /\ ActionsAreBudgeted)
    /\ EndedIsEnded

=============================================================================
