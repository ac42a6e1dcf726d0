----------------------------- MODULE CalendarTokens -----------------------------
(***************************************************************************)
(* Calendar export tokens (CalendarExportService, its repositories and     *)
(* REST handlers): a link a calendar client polls without logging in, that *)
(* lives for a bounded time and can be revoked.                            *)
(*                                                                         *)
(* The handler of a link keeps the token's row from its first read: what   *)
(* it checks and counts with is what it found then.  A refusal's own audit *)
(* entry is rolled back with the request, so a refusal is no step.         *)
(***************************************************************************)
EXTENDS Requests, Naturals

CONSTANTS
    Tokens,      \* ids of tokens
    MaxTtl,      \* _max_ttl_days
    LastMoment   \* bound of the model: the moments are 1 .. LastMoment

ASSUME TokensAssumption == MaxTtl \in Nat \ {0} /\ LastMoment \in Nat \ {0}

VARIABLES
    minted,      \* created_at, 0 where there is no row
    expires,     \* expires_at
    revokedAt,   \* revoked_at, 0 for null
    uses,        \* use_count
    served,      \* calendars that were delivered for the token
    moment,      \* the clock
    miscounted   \* a request counted a use over one it had not seen

tokenVars == <<minted, expires, revokedAt, uses>>
calendarVars == <<tokenVars, served, moment, miscounted, requestVars>>

Moments == 1 .. LastMoment

CalendarInit ==
    /\ minted = [t \in Tokens |-> 0]
    /\ expires = [t \in Tokens |-> 0]
    /\ revokedAt = [t \in Tokens |-> 0]
    /\ uses = [t \in Tokens |-> 0]
    /\ served = [t \in Tokens |-> 0]
    /\ moment = 1
    /\ miscounted = FALSE
    /\ NoRequests

\* Seeded fault: what was asked for is not clipped.
NormalizeExpiresAt_Unclipped(requested) ==
    IF requested <= moment THEN moment + 1 ELSE requested

\* _normalize_expires_at: none is the longest, a past moment is five minutes.
NormalizeExpiresAt(requested) ==
    IF requested = 0 \/ requested > moment + MaxTtl THEN moment + MaxTtl
    ELSE IF requested <= moment THEN moment + 1
    ELSE requested

\* Requests about the token that are under way are stale.
CommitToken(h, t) ==
    /\ req' = [req EXCEPT ![h] = Idle]
    /\ stale' = [x \in Handlers |-> x # h /\ req[x] # Idle /\ (stale[x] \/ req[x].token = t)]

\* add: the row of a new token.
AddToken(t, e) ==
    /\ minted[t] = 0
    /\ minted' = [minted EXCEPT ![t] = moment]
    /\ expires' = [expires EXCEPT ![t] = e]
    /\ UNCHANGED <<revokedAt, uses>>

\* POST /calendar-export-tokens
MintToken(t, requested) ==
    /\ AddToken(t, NormalizeExpiresAt(requested))
    /\ UNCHANGED <<served, moment, miscounted, requestVars>>

-----------------------------------------------------------------------------
(* DELETE /calendar-export-tokens/{id} *)

\* get_for_org and the first half of revoke: the token is the user's.
RevokeTokenRead(h, t) ==
    /\ minted[t] # 0
    /\ Begin(h, [op |-> "revoke", token |-> t, revoked |-> revokedAt[t] # 0])
    /\ UNCHANGED <<tokenVars, served, moment, miscounted>>

\* Seeded fault: a second revocation moves the first.
RevokeTokenWrite_Again(h) ==
    LET t == req[h].token
    IN  /\ Busy(h, "revoke")
        /\ revokedAt' = [revokedAt EXCEPT ![t] = moment]
        /\ CommitToken(h, t)
        /\ UNCHANGED <<minted, expires, uses, served, moment, miscounted>>

\* Only a row that was not revoked is written.
RevokeTokenWrite(h) ==
    LET t == req[h].token
    IN  /\ Busy(h, "revoke")
        /\ revokedAt' = [revokedAt EXCEPT ![t] = IF req[h].revoked THEN @ ELSE moment]
        /\ CommitToken(h, t)
        /\ UNCHANGED <<minted, expires, uses, served, moment, miscounted>>

RevokeToken(h) == (\E t \in Tokens : RevokeTokenRead(h, t)) \/ RevokeTokenWrite(h)

-----------------------------------------------------------------------------
(* GET /calendar-export/{token}.ics *)

\* Seeded fault: a revoked token still opens the calendar.
ResolveToken_Revoked(h, t) ==
    /\ minted[t] # 0
    /\ expires[t] > moment
    /\ Begin(h, [op |-> "use", token |-> t, uses |-> uses[t]])
    /\ UNCHANGED <<tokenVars, served, moment, miscounted>>

\* resolve_token up to its checks.
ResolveToken(h, t) ==
    /\ minted[t] # 0
    /\ revokedAt[t] = 0
    /\ expires[t] > moment
    /\ Begin(h, [op |-> "use", token |-> t, uses |-> uses[t]])
    /\ UNCHANGED <<tokenVars, served, moment, miscounted>>

\* Seeded fault: the whole row that was read is written.
RecordUse_WholeRow(h, t) ==
    /\ uses' = [uses EXCEPT ![t] = req[h].uses + 1]
    /\ revokedAt' = [revokedAt EXCEPT ![t] = 0]
    /\ UNCHANGED <<minted, expires>>

\* Seeded fault: the counter is left alone.
RecordUse_Uncounted(h, t) == UNCHANGED tokenVars

\* record_use writes the use counter that was read, plus one.
RecordUse(h, t) ==
    /\ uses' = [uses EXCEPT ![t] = req[h].uses + 1]
    /\ UNCHANGED <<minted, expires, revokedAt>>

\* build_tokenized_ics: the calendar is built and delivered.
Deliver(h) ==
    LET t == req[h].token
    IN  /\ Busy(h, "use")
        /\ RecordUse(h, t)
        /\ served' = [served EXCEPT ![t] = @ + 1]
        /\ miscounted' = (miscounted \/ uses[t] # req[h].uses)
        /\ CommitToken(h, t)
        /\ UNCHANGED moment

\* get_tokenized_ics
TokenizedIcs(h) == (\E t \in Tokens : ResolveToken(h, t)) \/ Deliver(h)

MomentPasses ==
    /\ moment < LastMoment
    /\ moment' = moment + 1
    /\ UNCHANGED <<tokenVars, served, miscounted, requestVars>>

-----------------------------------------------------------------------------
CalendarNext ==
    \/ MomentPasses
    \/ \E t \in Tokens, e \in Moments \cup {0} : MintToken(t, e)
    \/ \E h \in Handlers :
          \/ RevokeToken(h)
          \/ TokenizedIcs(h)
          \/ Lost(h) /\ UNCHANGED <<tokenVars, served, moment, miscounted>>

CalendarSpec == CalendarInit /\ [][CalendarNext]_calendarVars

\* MaxUses bounds the deliveries of the model.
MaxUses == 3
FewUses == \A t \in Tokens : served[t] <= MaxUses

-----------------------------------------------------------------------------
(* Properties. *)

\* The values each variable takes; a token lives for at most MaxTtl.
CalendarTypeOK ==
    /\ minted \in [Tokens -> Moments \cup {0}]
    /\ \A t \in Tokens : minted[t] # 0 => expires[t] \in minted[t] + 1 .. minted[t] + MaxTtl
    /\ revokedAt \in [Tokens -> Moments \cup {0}]
    /\ \A t \in Tokens : revokedAt[t] # 0 => minted[t] \in 1 .. revokedAt[t]
    /\ uses \in [Tokens -> Nat]
    /\ served \in [Tokens -> Nat]
    /\ moment \in Moments
    /\ miscounted \in BOOLEAN

\* A revocation is for good, whatever links are being answered, and keeps its
\* time however often it is repeated, unless two requests revoke at once.
RevocationStands ==
    [][\A t \in Tokens : revokedAt[t] # 0 =>
          /\ revokedAt'[t] # 0
          /\ revokedAt'[t] = revokedAt[t] \/ \E h \in Handlers : stale[h]]_calendarVars

\* After a token is revoked only a request that was under way is still answered.
RevokedIsRefused ==
    [][\A t \in Tokens :
          served'[t] # served[t] /\ revokedAt[t] # 0 => \E h \in Handlers : stale[h]]_calendarVars

\* A link is counted, and once revoked is of no use: use_count is the number of calendars
\* that were delivered unless two were delivered at once (CalendarExportService's tokens).
TokensAreBounded ==
    [](miscounted \/ uses = served) /\ RevocationStands /\ RevokedIsRefused

=============================================================================
