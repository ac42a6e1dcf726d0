------------------------------ MODULE Membership ------------------------------
(***************************************************************************)
(* Who may enter one organization: users, their memberships, the sessions  *)
(* they hold and the invitations that let them in (MemberManagementService,*)
(* AuthService and their REST handlers).  A user has one membership of the *)
(* organization, by the unique key of the migrated table.                  *)
(*                                                                         *)
(* A session carries the role it was issued with, so the sessions a user   *)
(* holds are told apart by their roles: live[u] is the set of roles of the *)
(* sessions of u that are neither revoked nor expired.                     *)
(***************************************************************************)
EXTENDS Requests

CONSTANTS
    Users,       \* e-mail addresses, each of one user
    Invites,     \* ids of invitations
    Roles,       \* roles that occur; "owner" and "admin" govern
    NoUser       \* the address of an invitation that does not exist

ASSUME MembershipAssumption ==
    /\ "owner" \in Roles
    /\ NoUser \notin Users

VARIABLES
    known,       \* users that have a row
    state,       \* organization_memberships.state, none where there is no row
    role,        \* organization_memberships.role
    live,        \* roles of the user's live sessions
    \* member_invitations
    invite,      \* InvitationState, unused before it is created
    invitee,     \* email
    offered,     \* role
    lapsed,      \* expires_at has passed
    \* history
    raced        \* a membership or invitation was written by a stale request

memberVars == <<known, state, role>>
inviteVars == <<invite, invitee, offered, lapsed>>
membershipVars == <<memberVars, live, inviteVars, raced, requestVars>>

-----------------------------------------------------------------------------
(* Policy. *)

Governing(r) == r \in {"owner", "admin"}

\* can_manage_member_governance
CanManage(r, target) == r = "owner" \/ (r = "admin" /\ target # "owner")

\* is_usable_membership
Usable(st, u) == st[u] = "active"

\* count_active_owners, as the set that is counted.
ActiveOwners(st, ro) == {u \in Users : Usable(st, u) /\ ro[u] = "owner"}

DemoteWouldLock(u, new) ==
    /\ role[u] = "owner"
    /\ new # "owner"
    /\ ActiveOwners(state, [role EXCEPT ![u] = new]) = {}

DisableWouldLock(u) ==
    role[u] = "owner" /\ ActiveOwners([state EXCEPT ![u] = "disabled"], role) = {}

RevokeWouldLock(u) ==
    role[u] = "owner" /\ ActiveOwners([state EXCEPT ![u] = "revoked"], role) = {}

\* Enabling is not guarded.
WouldLock(u, target) ==
    \/ target = "disabled" /\ DisableWouldLock(u)
    \/ target = "revoked" /\ RevokeWouldLock(u)

\* is_pending and invitation_is_redeemable
Redeemable(i) == invite[i] = "pending" /\ ~lapsed[i]

\* The actor of a governance request: the role is the session's.
Actor(r) == Governing(r) /\ \E a \in Users : r \in live[a]

-----------------------------------------------------------------------------
(* What the repositories write: each reads the row again and sets a column.*)

SetRole(u, new) == role' = [role EXCEPT ![u] = new]

SetState(u, new) == state' = [state EXCEPT ![u] = new]

AddMembership(u, r) ==
    /\ state[u] = "none"
    /\ state' = [state EXCEPT ![u] = "active"]
    /\ role' = [role EXCEPT ![u] = r]

\* The unique hash of the address refuses a second row.
AddUser(u) == u \notin known /\ known' = known \cup {u}

AddSession(u, r) == live' = [live EXCEPT ![u] = @ \cup {r}]

\* revoke_all_for_user_and_org
RevokeSessions(u) == live' = [live EXCEPT ![u] = {}]

SetInvitationState(i, st) == invite' = [invite EXCEPT ![i] = st]

-----------------------------------------------------------------------------
MembershipInit ==
    /\ known = {}
    /\ state = [u \in Users |-> "none"]
    /\ role = [u \in Users |-> "owner"]
    /\ live = [u \in Users |-> {}]
    /\ invite = [i \in Invites |-> "unused"]
    /\ invitee = [i \in Invites |-> NoUser]
    /\ offered = [i \in Invites |-> "owner"]
    /\ lapsed = [i \in Invites |-> FALSE]
    /\ raced = FALSE
    /\ NoRequests

\* ensure_default_owner, when the API starts.
EnsureDefaultOwner(u) ==
    /\ known = {}
    /\ AddUser(u)
    /\ AddMembership(u, "owner")
    /\ UNCHANGED <<live, inviteVars, raced, requestVars>>

-----------------------------------------------------------------------------
(* Members. *)

\* Seeded fault: the last owner is not protected against a change of role.
ChangeRoleRead_NoLock(h, r, u, new) ==
    /\ state[u] # "none"
    /\ CanManage(r, role[u])
    /\ Begin(h, [op |-> "role", on |-> u, new |-> new])
    /\ UNCHANGED <<memberVars, live, inviteVars, raced>>

\* change_member_role up to its check; the new role is not looked at.
ChangeRoleRead(h, r, u, new) ==
    /\ state[u] # "none"
    /\ CanManage(r, role[u])
    /\ ~DemoteWouldLock(u, new)
    /\ Begin(h, [op |-> "role", on |-> u, new |-> new])
    /\ UNCHANGED <<memberVars, live, inviteVars, raced>>

ChangeRoleWrite(h) ==
    /\ Busy(h, "role")
    /\ SetRole(req[h].on, req[h].new)
    /\ raced' = (raced \/ stale[h])
    /\ EndAndOvertake(h)
    /\ UNCHANGED <<known, state, live, inviteVars>>

\* PATCH /admin/members/{id}
ChangeMember(h) ==
    \/ \E r \in Roles, u \in Users, new \in Roles : Actor(r) /\ ChangeRoleRead(h, r, u, new)
    \/ ChangeRoleWrite(h)

\* _change_member_state up to its check.
ChangeStateRead(h, r, u, target) ==
    /\ state[u] # "none"
    /\ CanManage(r, role[u])
    /\ ~WouldLock(u, target)
    /\ Begin(h, [op |-> "state", on |-> u, new |-> target])
    /\ UNCHANGED <<memberVars, live, inviteVars, raced>>

\* Seeded fault: sessions outlive the membership.
ChangeStateWrite_KeepsSessions(h) ==
    /\ Busy(h, "state")
    /\ SetState(req[h].on, req[h].new)
    /\ raced' = (raced \/ stale[h])
    /\ EndAndOvertake(h)
    /\ UNCHANGED <<known, role, live, inviteVars>>

\* Its rest: the state, and the end of the member's sessions unless enabled.
ChangeStateWrite(h) ==
    /\ Busy(h, "state")
    /\ SetState(req[h].on, req[h].new)
    /\ IF req[h].new = "active" THEN UNCHANGED live ELSE RevokeSessions(req[h].on)
    /\ raced' = (raced \/ stale[h])
    /\ EndAndOvertake(h)
    /\ UNCHANGED <<known, role, inviteVars>>

ReadsState(h, target) ==
    \E r \in Roles, u \in Users : Actor(r) /\ ChangeStateRead(h, r, u, target)

\* The service's three callers, and the REST handlers that call them.
DisableMember(h) == ReadsState(h, "disabled")
EnableMember(h) == ReadsState(h, "active")
RevokeMember(h) == ReadsState(h, "revoked")

-----------------------------------------------------------------------------
(* Invitations. *)

\* invite_member up to its checks: not a member, no invitation outstanding.
InviteRead(h, r, u, ro) ==
    /\ CanManage(r, ro)
    /\ ~Usable(state, u)
    /\ \A i \in Invites : invitee[i] = u => ~Redeemable(i)
    /\ Begin(h, [op |-> "invite", on |-> u, new |-> ro])
    /\ UNCHANGED <<memberVars, live, inviteVars, raced>>

InviteWrite(h, i) ==
    /\ Busy(h, "invite")
    /\ invite[i] = "unused"
    /\ SetInvitationState(i, "pending")
    /\ invitee' = [invitee EXCEPT ![i] = req[h].on]
    /\ offered' = [offered EXCEPT ![i] = req[h].new]
    /\ raced' = (raced \/ stale[h])
    /\ EndAndOvertake(h)
    /\ UNCHANGED <<memberVars, live, lapsed>>

\* POST /admin/members/invitations
CreateInvitation(h) ==
    \/ \E r \in Roles, u \in Users, ro \in Roles : Actor(r) /\ InviteRead(h, r, u, ro)
    \/ \E i \in Invites : InviteWrite(h, i)

\* accept_invitation up to its checks.
AcceptRead(h, i) ==
    /\ Redeemable(i)
    /\ ~Usable(state, invitee[i])
    /\ Begin(h, [op |-> "accept", on |-> i,
                 user |-> invitee[i] \in known, member |-> state[invitee[i]] # "none"])
    /\ UNCHANGED <<memberVars, live, inviteVars, raced>>

\* Seeded fault: the user's row is forgotten.
AcceptUser_NoRow(h, u) == UNCHANGED known

\* The user's row, unless there is one.
AcceptUser(h, u) == IF req[h].user THEN UNCHANGED known ELSE AddUser(u)

\* A membership is added, or one that is not active gets the role and is active.
AcceptMembership(h, u, ro) ==
    IF req[h].member
    THEN SetRole(u, ro) /\ SetState(u, "active")
    ELSE AddMembership(u, ro)

\* The invitation is accepted, whatever it has become, and a session issued.
AcceptWrite(h) ==
    LET i == req[h].on
        u == invitee[i]
    IN  /\ Busy(h, "accept")
        /\ AcceptUser(h, u)
        /\ AcceptMembership(h, u, offered[i])
        /\ SetInvitationState(i, "accepted")
        /\ AddSession(u, offered[i])
        /\ raced' = (raced \/ stale[h])
        /\ EndAndOvertake(h)
        /\ UNCHANGED <<invitee, offered, lapsed>>

\* POST /auth/invitations/accept
AcceptInvitation(h) ==
    \/ \E i \in Invites : AcceptRead(h, i)
    \/ AcceptWrite(h)

\* Seeded fault: an invitation that was accepted can be revoked.
RevokeInvitationRead_Accepted(h, i) ==
    /\ invite[i] \in {"pending", "accepted"}
    /\ Begin(h, [op |-> "uninvite", on |-> i])
    /\ UNCHANGED <<memberVars, live, inviteVars, raced>>

\* revoke_invitation up to its check; a lapsed invitation can be revoked.
RevokeInvitationRead(h, i) ==
    /\ invite[i] = "pending"
    /\ Begin(h, [op |-> "uninvite", on |-> i])
    /\ UNCHANGED <<memberVars, live, inviteVars, raced>>

RevokeInvitationWrite(h) ==
    /\ Busy(h, "uninvite")
    /\ SetInvitationState(req[h].on, "revoked")
    /\ raced' = (raced \/ stale[h])
    /\ EndAndOvertake(h)
    /\ UNCHANGED <<memberVars, live, invitee, offered, lapsed>>

\* POST /admin/members/invitations/{id}/revoke
RevokeInvitation(h) ==
    \/ (\E r \in Roles : Actor(r)) /\ \E i \in Invites : RevokeInvitationRead(h, i)
    \/ RevokeInvitationWrite(h)

InvitationLapses(i) ==
    /\ Redeemable(i)
    /\ lapsed' = [lapsed EXCEPT ![i] = TRUE]
    /\ UNCHANGED <<memberVars, live, invite, invitee, offered, raced, requestVars>>

-----------------------------------------------------------------------------
(* Sessions. *)

\* login up to its last check: an active membership; the password is right.
LoginRead(h, u) ==
    /\ u \in known
    /\ Usable(state, u)
    /\ Begin(h, [op |-> "session", on |-> u, role |-> role[u]])
    /\ UNCHANGED <<memberVars, live, inviteVars, raced>>

\* refresh up to its check: the session is active; its role is kept.
RefreshRead(h, u, r) ==
    /\ r \in live[u]
    /\ Begin(h, [op |-> "session", on |-> u, role |-> r])
    /\ UNCHANGED <<memberVars, live, inviteVars, raced>>

\* The new session; refresh also ends the old one, which had the same role.
IssueSession(h) ==
    /\ Busy(h, "session")
    /\ AddSession(req[h].on, req[h].role)
    /\ raced' = (raced \/ stale[h])
    /\ End(h)
    /\ UNCHANGED <<memberVars, inviteVars>>

\* POST /auth/login and /auth/refresh
Login(h) == \E u \in Users : LoginRead(h, u)
Refresh(h) == \E u \in Users, r \in Roles : RefreshRead(h, u, r)

\* The last session of that role is revoked, or expires.
Logout(u, r) ==
    /\ r \in live[u]
    /\ live' = [live EXCEPT ![u] = @ \ {r}]
    /\ UNCHANGED <<memberVars, inviteVars, raced, requestVars>>

-----------------------------------------------------------------------------
MemberHandler(h) ==
    \/ ChangeMember(h)
    \/ DisableMember(h)
    \/ EnableMember(h)
    \/ RevokeMember(h)
    \/ ChangeStateWrite(h)
    \/ CreateInvitation(h)
    \/ AcceptInvitation(h)
    \/ RevokeInvitation(h)
    \/ Login(h)
    \/ Refresh(h)
    \/ IssueSession(h)
    \/ Lost(h) /\ UNCHANGED <<memberVars, live, inviteVars, raced>>

MembershipNext ==
    \/ \E u \in Users : EnsureDefaultOwner(u)
    \/ \E h \in Handlers : MemberHandler(h)
    \/ \E u \in Users, r \in Roles : Logout(u, r)
    \/ \E i \in Invites : InvitationLapses(i)

MembershipSpec == MembershipInit /\ [][MembershipNext]_membershipVars

-----------------------------------------------------------------------------
(* Properties. *)

MemberState == {"none", "active", "disabled", "revoked"}

Request ==
    {Idle}
    \cup [op : {"role"}, on : Users, new : Roles]
    \cup [op : {"state"}, on : Users, new : MemberState \ {"none"}]
    \cup [op : {"invite"}, on : Users, new : Roles]
    \cup [op : {"accept"}, on : Invites, user : BOOLEAN, member : BOOLEAN]
    \cup [op : {"uninvite"}, on : Invites]
    \cup [op : {"session"}, on : Users, role : Roles]

\* The values each variable takes; a membership is of a user that has a row.
MembershipTypeOK ==
    /\ known \in SUBSET Users
    /\ state \in [Users -> MemberState]
    /\ \A u \in Users : state[u] # "none" => u \in known
    /\ role \in [Users -> Roles]
    /\ live \in [Users -> SUBSET Roles]
    /\ invite \in [Invites -> {"unused", "pending", "accepted", "revoked"}]
    /\ invitee \in [Invites -> Users \cup {NoUser}]
    /\ offered \in [Invites -> Roles]
    /\ lapsed \in [Invites -> BOOLEAN]
    /\ raced \in BOOLEAN
    /\ req \in [Handlers -> Request]
    /\ stale \in [Handlers -> BOOLEAN]

\* An organization that has users has an active owner, unless a request wrote
\* after another had changed what it was decided on: each of the checks of
\* change_member_role and _change_member_state is right at the time it is made,
\* and together they are enough.
OwnerRemains == known # {} => raced \/ ActiveOwners(state, role) # {}

\* Who holds a live session is an active member, unless a request wrote after
\* another had changed what it was decided on: ending the sessions of a member
\* is enough where no login, refresh or acceptance is under way.
SessionsAreMembers == \A u \in Users : live[u] # {} => raced \/ Usable(state, u)

\* An invitation that was accepted or revoked stays so and lets nobody in again,
\* unless a request wrote after another had changed what it was decided on:
\* accept_invitation and revoke_invitation check the state they have read only.
EndsOnce ==
    [][\A i \in Invites :
            invite[i] \in {"accepted", "revoked"} => raced' \/ invite'[i] = invite[i]
      ]_membershipVars

\* The organization is always governed, who left it is out, and an invitation lets
\* in once: what MemberManagementService promises together.
MembersAreGoverned == [](OwnerRemains /\ SessionsAreMembers) /\ EndsOnce

=============================================================================
