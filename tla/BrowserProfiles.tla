---------------------------- MODULE BrowserProfiles ----------------------------
(***************************************************************************)
(* A governed browser profile (BrowserProfileService and its admin API):   *)
(* its lifecycle, the consent to keep a login, and the login itself, which *)
(* is stored encrypted and must go when consent or the profile does.       *)
(*                                                                         *)
(* A handler loads the row, checks it and commits; a column is written if  *)
(* its new value is not the one loaded, whatever it is by then.            *)
(***************************************************************************)
EXTENDS Requests, Naturals

VARIABLES
    lifecycle,   \* lifecycle_state, "absent" where there is no row
    elapsed,     \* expires_at is past
    consent,     \* consent_status
    material,    \* state_material_ciphertext is set
    lastUsed,    \* last_used_at is set
    outdone      \* a stale request has written

profileRow == <<lifecycle, elapsed, consent, material, lastUsed>>
profileVars == <<profileRow, outdone, requestVars>>

Lifecycles == {"active", "locked", "expired", "pending_renewal", "deleting", "deleted"}
TerminalProfile == {"deleted", "deleting"}

ProfileInit ==
    /\ lifecycle = "absent"
    /\ elapsed = FALSE
    /\ consent = "none"
    /\ material = FALSE
    /\ lastUsed = FALSE
    /\ outdone = FALSE
    /\ NoRequests

\* effective_lifecycle of a row with lifecycle l
EffectiveLifecycle(l, e) == IF l = "active" /\ e THEN "expired" ELSE l

\* evaluate_profile_launch
LaunchEligible ==
    /\ EffectiveLifecycle(lifecycle, elapsed) = "active"
    /\ material => consent = "granted"

-----------------------------------------------------------------------------
\* create: it is active and has no consent.
CreateProfile ==
    /\ lifecycle = "absent"
    /\ lifecycle' = "active"
    /\ UNCHANGED <<elapsed, consent, material, lastUsed, outdone, requestVars>>

\* The row is loaded.
LoadProfile(h, op) ==
    /\ lifecycle # "absent"
    /\ Begin(h, [op |-> op, lifecycle |-> lifecycle, consent |-> consent, material |-> material])
    /\ UNCHANGED <<profileRow, outdone>>

\* The columns that differ from what was loaded.
WriteLifecycle(h, l) == lifecycle' = IF req[h].lifecycle = l THEN lifecycle ELSE l
WriteConsent(h, c) == consent' = IF req[h].consent = c THEN consent ELSE c
ClearMaterial(h) == material' = (material /\ ~req[h].material)

CommitProfile(h) ==
    /\ outdone' = (outdone \/ stale[h])
    /\ EndAndOvertake(h)

\* _require_mutable
RequireMutable == lifecycle \notin TerminalProfile

CanLock == lifecycle = "active"
CanExpire == lifecycle \in {"active", "pending_renewal"}
CanDelete == lifecycle \notin TerminalProfile

LockWrite(h) ==
    /\ Busy(h, "lock")
    /\ WriteLifecycle(h, "locked")
    /\ CommitProfile(h)
    /\ UNCHANGED <<elapsed, consent, material, lastUsed>>

LockProfile(h) == (CanLock /\ LoadProfile(h, "lock")) \/ LockWrite(h)

\* Seeded fault: the row is not required to be mutable.
RenewRead_Any(h) == LoadProfile(h, "renew")

RenewRead(h) ==
    /\ RequireMutable
    /\ lifecycle \in {"active", "expired", "pending_renewal", "locked"}
    /\ LoadProfile(h, "renew")

RenewWrite(h) ==
    /\ Busy(h, "renew")
    /\ WriteLifecycle(h, "active")
    /\ elapsed' = FALSE
    /\ CommitProfile(h)
    /\ UNCHANGED <<consent, material, lastUsed>>

RenewProfile(h) == RenewRead(h) \/ RenewWrite(h)

ExpireProfileWrite(h) ==
    /\ Busy(h, "expire")
    /\ WriteLifecycle(h, "expired")
    /\ elapsed' = TRUE
    /\ CommitProfile(h)
    /\ UNCHANGED <<consent, material, lastUsed>>

ExpireProfile(h) == (CanExpire /\ LoadProfile(h, "expire")) \/ ExpireProfileWrite(h)

\* The login and the consent go with the profile.
DeleteWrite(h) ==
    /\ Busy(h, "delete")
    /\ WriteLifecycle(h, "deleted")
    /\ WriteConsent(h, "revoked")
    /\ ClearMaterial(h)
    /\ CommitProfile(h)
    /\ UNCHANGED <<elapsed, lastUsed>>

DeleteProfile(h) == (CanDelete /\ LoadProfile(h, "delete")) \/ DeleteWrite(h)

GrantConsentWrite(h) ==
    /\ Busy(h, "grant")
    /\ WriteConsent(h, "granted")
    /\ CommitProfile(h)
    /\ UNCHANGED <<lifecycle, elapsed, material, lastUsed>>

\* Seeded fault: the login is kept when consent goes.
RevokeConsentWrite_KeepsMaterial(h) ==
    /\ Busy(h, "revoke")
    /\ WriteConsent(h, "revoked")
    /\ CommitProfile(h)
    /\ UNCHANGED <<lifecycle, elapsed, material, lastUsed>>

RevokeConsentWrite(h) ==
    /\ Busy(h, "revoke")
    /\ WriteConsent(h, "revoked")
    /\ ClearMaterial(h)
    /\ CommitProfile(h)
    /\ UNCHANGED <<lifecycle, elapsed, lastUsed>>

RecordConsent(h) ==
    \/ RequireMutable /\ LoadProfile(h, "grant")
    \/ RequireMutable /\ LoadProfile(h, "revoke")
    \/ GrantConsentWrite(h)
    \/ RevokeConsentWrite(h)

\* can_store_state_material
CanStoreMaterial ==
    /\ lifecycle \notin TerminalProfile \cup {"locked"}
    /\ consent = "granted"

StoreMaterialWrite(h) ==
    /\ Busy(h, "store")
    /\ material' = TRUE
    /\ CommitProfile(h)
    /\ UNCHANGED <<lifecycle, elapsed, consent, lastUsed>>

StoreMaterial(h) ==
    \/ RequireMutable /\ CanStoreMaterial /\ LoadProfile(h, "store")
    \/ StoreMaterialWrite(h)

\* A session is opened with the profile: touch_last_used.
LaunchWithProfile ==
    /\ lifecycle # "absent"
    /\ LaunchEligible
    /\ lastUsed' = TRUE
    /\ UNCHANGED <<lifecycle, elapsed, consent, material, outdone, requestVars>>

\* expires_at passes.
ProfileElapses ==
    /\ lifecycle # "absent"
    /\ ~elapsed
    /\ elapsed' = TRUE
    /\ UNCHANGED <<lifecycle, consent, material, lastUsed, outdone, requestVars>>

ProfileNext ==
    \/ CreateProfile
    \/ LaunchWithProfile
    \/ ProfileElapses
    \/ \E h \in Handlers :
          \/ LockProfile(h)
          \/ RenewProfile(h)
          \/ ExpireProfile(h)
          \/ DeleteProfile(h)
          \/ RecordConsent(h)
          \/ StoreMaterial(h)
          \/ Lost(h) /\ UNCHANGED <<profileRow, outdone>>

ProfileSpec == ProfileInit /\ [][ProfileNext]_profileVars

-----------------------------------------------------------------------------
\* The values each column takes.
ProfileTypeOK ==
    /\ lifecycle \in Lifecycles \cup {"absent"}
    /\ elapsed \in BOOLEAN
    /\ consent \in {"none", "granted", "revoked"}
    /\ material \in BOOLEAN
    /\ lastUsed \in BOOLEAN

\* A login is kept only with consent and in a profile that is there: revoking the
\* one or deleting the other removes it, unless a request that had read the row
\* before wrote after it.
MaterialHasConsent ==
    material => outdone \/ (consent = "granted" /\ lifecycle \notin TerminalProfile)

\* A deleted profile is not brought back, unless by a request that had read it
\* before it was deleted.
DeletedIsFinal == [][(lifecycle = "deleted") => outdone' \/ lifecycle' = "deleted"]_profileVars

\* A login is kept as long as somebody consents to it (BrowserProfileService).
ProfilesAreConsented == []MaterialHasConsent /\ DeletedIsFinal

=============================================================================
