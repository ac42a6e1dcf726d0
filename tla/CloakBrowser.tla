----------------------------- MODULE CloakBrowser -----------------------------
(***************************************************************************)
(* The policy under which a source may be read with the CloakBrowser       *)
(* engine (CloakBrowserPolicyService and its admin API): a purpose is      *)
(* requested, an owner or admin and a compliance reviewer approve it, it   *)
(* may be revoked, and a switch in the API process blocks every launch.    *)
(*                                                                         *)
(* Handlers hold the row they loaded: a column is written if its new value *)
(* is not the one loaded.                                                  *)
(***************************************************************************)
EXTENDS Requests, Naturals

CONSTANT MaxPurposes   \* bound of the model: requests for enablement

ASSUME PurposesAssumption == MaxPurposes \in Nat

VARIABLES
    purpose,      \* purpose_rationale and pin, numbered as they are requested; 0: no row
    revoked,      \* revoked_at is set
    ownerOk,      \* owner_admin_approved
    complianceOk, \* compliance_approved
    twoRows,      \* two requests have each added a row
    pinMatches,   \* by purpose: its pinned version and checksum are the runtime's
    killSwitch,   \* settings.cloakbrowser_kill_switch of the API process
    \* history
    ownerSaw,     \* the purpose in the row the owner's approval has loaded
    complianceSaw,
    withdrawn,    \* the purpose that was revoked last
    overruled     \* a stale request has written

policyRow == <<purpose, revoked, ownerOk, complianceOk, twoRows>>
policyHistory == <<ownerSaw, complianceSaw, withdrawn, overruled>>
policyVars == <<policyRow, pinMatches, killSwitch, policyHistory, requestVars>>

PolicyInit ==
    /\ purpose = 0
    /\ revoked = FALSE
    /\ ownerOk = FALSE
    /\ complianceOk = FALSE
    /\ twoRows = FALSE
    /\ pinMatches \in [1 .. MaxPurposes -> BOOLEAN]
    /\ killSwitch \in BOOLEAN
    /\ ownerSaw = 0
    /\ complianceSaw = 0
    /\ withdrawn = 0
    /\ overruled = FALSE
    /\ NoRequests

\* evaluate_runtime_policy: the switch, then the version and checksum.
RuntimeStatus ==
    IF killSwitch THEN "kill_switch"
    ELSE IF pinMatches[purpose] THEN "ok" ELSE "version_mismatch"

\* derive_policy_state
PolicyState ==
    IF revoked THEN "revoked"
    ELSE IF purpose = 0 THEN "disabled"
    ELSE IF RuntimeStatus # "ok" THEN "runtime_failed"
    ELSE IF ownerOk /\ complianceOk THEN "approved"
    ELSE "pending"

\* evaluate_cloakbrowser_launch for a source with this engine
CloakLaunchAllowed == ~twoRows /\ PolicyState = "approved"

-----------------------------------------------------------------------------
\* The row, if there is one, is loaded; two are an error.
LoadPolicy(h, op) ==
    /\ ~twoRows
    /\ Begin(h, [op |-> op, purpose |-> purpose, revoked |-> revoked,
                 owner |-> ownerOk, compliance |-> complianceOk])

\* A flag of the row after a request that loaded it as old made it new.
Flag(now, old, new) == IF old = new THEN now ELSE new

CommitPolicy(h) ==
    /\ overruled' = (overruled \/ stale[h])
    /\ EndAndOvertake(h)

\* Seeded fault: a new purpose keeps the approvals of the old one.
UpsertRequest_KeepsApprovals(h) ==
    /\ Busy(h, "request")
    /\ purpose < MaxPurposes
    /\ purpose' = purpose + 1
    /\ revoked' = Flag(revoked, req[h].revoked, FALSE)
    /\ twoRows' = (req[h].purpose = 0 /\ purpose # 0)
    /\ CommitPolicy(h)
    /\ UNCHANGED <<ownerOk, complianceOk, pinMatches, killSwitch, ownerSaw, complianceSaw, withdrawn>>

\* upsert_request: the purpose is replaced, the decisions on it are cleared.  Two
\* requests that found no row both add one: source_id is not unique.
UpsertRequest(h) ==
    /\ Busy(h, "request")
    /\ purpose < MaxPurposes
    /\ purpose' = purpose + 1
    /\ revoked' = Flag(revoked, req[h].revoked, FALSE)
    /\ ownerOk' = Flag(ownerOk, req[h].owner, FALSE)
    /\ complianceOk' = Flag(complianceOk, req[h].compliance, FALSE)
    /\ twoRows' = (req[h].purpose = 0 /\ purpose # 0)
    /\ CommitPolicy(h)
    /\ UNCHANGED <<pinMatches, killSwitch, ownerSaw, complianceSaw, withdrawn>>

RequestEnablement(h) ==
    \/ LoadPolicy(h, "request") /\ UNCHANGED <<policyRow, pinMatches, killSwitch, policyHistory>>
    \/ UpsertRequest(h)

\* _require_policy_row: it must be there; a revoked one may be approved.
RequirePolicy(h, op) ==
    /\ purpose # 0
    /\ LoadPolicy(h, op)
    /\ UNCHANGED <<policyRow, pinMatches, killSwitch, policyHistory>>

OwnerApproval(h) ==
    /\ Busy(h, "owner")
    /\ ownerOk' = Flag(ownerOk, req[h].owner, TRUE)
    /\ ownerSaw' = req[h].purpose
    /\ CommitPolicy(h)
    /\ UNCHANGED <<purpose, revoked, complianceOk, twoRows, pinMatches, killSwitch,
                   complianceSaw, withdrawn>>

ComplianceApproval(h) ==
    /\ Busy(h, "compliance")
    /\ complianceOk' = Flag(complianceOk, req[h].compliance, TRUE)
    /\ complianceSaw' = req[h].purpose
    /\ CommitPolicy(h)
    /\ UNCHANGED <<purpose, revoked, ownerOk, twoRows, pinMatches, killSwitch, ownerSaw, withdrawn>>

ApproveOwnerAdmin(h) == RequirePolicy(h, "owner") \/ OwnerApproval(h)

ApproveCompliance(h) == RequirePolicy(h, "compliance") \/ ComplianceApproval(h)

\* Seeded fault: the approvals go, but the row is not marked.
RevokeWrite_Unmarked(h) ==
    /\ Busy(h, "withdraw")
    /\ ownerOk' = Flag(ownerOk, req[h].owner, FALSE)
    /\ complianceOk' = Flag(complianceOk, req[h].compliance, FALSE)
    /\ withdrawn' = purpose
    /\ CommitPolicy(h)
    /\ UNCHANGED <<purpose, revoked, twoRows, pinMatches, killSwitch, ownerSaw, complianceSaw>>

RevokeWrite(h) ==
    /\ Busy(h, "withdraw")
    /\ revoked' = TRUE
    /\ ownerOk' = Flag(ownerOk, req[h].owner, FALSE)
    /\ complianceOk' = Flag(complianceOk, req[h].compliance, FALSE)
    /\ withdrawn' = purpose
    /\ CommitPolicy(h)
    /\ UNCHANGED <<purpose, twoRows, pinMatches, killSwitch, ownerSaw, complianceSaw>>

RevokePolicy(h) == RequirePolicy(h, "withdraw") \/ RevokeWrite(h)

\* POST /kill-switch sets it in this process; a restart brings the configured one.
SetKillSwitch ==
    /\ killSwitch' = ~killSwitch
    /\ UNCHANGED <<policyRow, pinMatches, policyHistory, requestVars>>

PolicyNext ==
    \/ SetKillSwitch
    \/ \E h \in Handlers :
          \/ RequestEnablement(h)
          \/ ApproveOwnerAdmin(h)
          \/ ApproveCompliance(h)
          \/ RevokePolicy(h)
          \/ Lost(h) /\ UNCHANGED <<policyRow, pinMatches, killSwitch, policyHistory>>

PolicySpec == PolicyInit /\ [][PolicyNext]_policyVars

-----------------------------------------------------------------------------
\* The values each variable takes.
PolicyTypeOK ==
    /\ purpose \in 0 .. MaxPurposes
    /\ revoked \in BOOLEAN
    /\ ownerOk \in BOOLEAN
    /\ complianceOk \in BOOLEAN
    /\ killSwitch \in BOOLEAN
    /\ twoRows \in BOOLEAN
    /\ ownerSaw \in 0 .. MaxPurposes
    /\ complianceSaw \in 0 .. MaxPurposes
    /\ withdrawn \in 0 .. MaxPurposes

\* The engine may be launched only for a purpose both approvers have seen, unless
\* a request had loaded the row before another one wrote it.
LaunchesAreApproved ==
    CloakLaunchAllowed => overruled \/ (ownerSaw = purpose /\ complianceSaw = purpose)

\* What was revoked is launched again only for a purpose requested since, with
\* the same exception: an approval of the revoked request is not enough.
WithdrawnStaysOff == CloakLaunchAllowed => overruled \/ purpose # withdrawn

=============================================================================
