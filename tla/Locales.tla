-------------------------------- MODULE Locales --------------------------------
(***************************************************************************)
(* Language and time zone of one user and of his organization: the four    *)
(* columns, I18nService and its REST handlers.  Each preference is         *)
(* resolved from the user's value, then the organization's, then a         *)
(* default; every change, and every refused value, is audited.             *)
(***************************************************************************)
EXTENDS Requests

CONSTANT Zones         \* the IANA names that occur

ASSUME ZonesAssumption == "UTC" \in Zones

Fields == {"locale", "timezone"}

\* The enum Locale, and the names ZoneInfo knows.
Supported == [locale |-> {"vi-VN", "en-US"}, timezone |-> Zones]

Defaults == [locale |-> "en-US", timezone |-> "UTC"]

Omitted == "omitted"           \* a field the request does not have
Unsupported == "unsupported"   \* any value parse_locale or parse_timezone refuses

VARIABLES
    stored,        \* whose -> field -> value
    trail,         \* whose -> field -> what the last audit entry says it became
    broken,        \* an entry did not begin where the one before it had ended
    refusals,      \* the fields a refusal has been audited for, by whose
    chosen,        \* fields the user has ever set
    crossedOver    \* a request has written without having seen another's change

localeVars == <<stored, trail, broken, refusals, chosen, crossedOver, requestVars>>

\* All four columns are NOT NULL and filled in by the server.
LocalesInit ==
    /\ stored = [s \in {"user", "organization"} |-> Defaults]
    /\ trail = stored
    /\ broken = FALSE
    /\ refusals = {}
    /\ chosen = {}
    /\ crossedOver = FALSE
    /\ NoRequests

Subjects == {"user", "organization"}

-----------------------------------------------------------------------------
(* Reading. *)

\* resolve_locale and resolve_timezone: a value that is not supported is passed over.
Effective(f) ==
    IF stored.user[f] \in Supported[f]
    THEN [value |-> stored.user[f], source |-> "user"]
    ELSE IF stored.organization[f] \in Supported[f]
    THEN [value |-> stored.organization[f], source |-> "organization"]
    ELSE [value |-> Defaults[f], source |-> "default"]

\* What GET /me/locale answers, and ...
UserLocaleView == [f \in Fields |-> Effective(f)]

\* ... GET /admin/organizations/{id}/locale.
OrganizationLocaleView == stored.organization

-----------------------------------------------------------------------------
(* PATCH /me/locale and PATCH /admin/organizations/{id}/locale *)

Given(body) == {f \in Fields : body[f] # Omitted}

\* Seeded fault: a body with a language is not looked at any further.
RefusedFields_LocaleOnly(body) ==
    IF body.locale # Omitted THEN {f \in {"locale"} : body[f] = Unsupported}
    ELSE {f \in {"timezone"} : body[f] = Unsupported}

\* The field that is refused: the language is looked at first.
RefusedFields(body) ==
    IF body.locale = Unsupported THEN {"locale"}
    ELSE {f \in {"timezone"} : body[f] = Unsupported}

\* The refusal is audited and committed, and nothing else happens.
RefusePatch(s, body) ==
    /\ RefusedFields(body) # {}
    /\ refusals' = refusals \cup (RefusedFields(body) \X {s})
    /\ UNCHANGED <<stored, trail, broken, chosen, crossedOver, requestVars>>

\* Otherwise the values there were are read for the audit.
PatchBegins(h, s, body) ==
    /\ RefusedFields(body) = {}
    /\ Begin(h, [op |-> "patch", whose |-> s, body |-> body, previous |-> stored[s]])
    /\ UNCHANGED <<stored, trail, broken, refusals, chosen, crossedOver>>

\* Seeded fault: the whole row is written as it was read.
Rewritten_WholeRow(s, body, previous) ==
    [f \in Fields |-> IF f \in Given(body) THEN body[f] ELSE previous[f]]

\* update_user and update_organization read the row again and set what is given.
Rewritten(s, body, previous) ==
    [f \in Fields |-> IF f \in Given(body) THEN body[f] ELSE stored[s][f]]

\* Seeded fault: the audit names what is there now as what there was.
AuditPatch_After(s, body, previous) ==
    LET news == {f \in Given(body) : body[f] # previous[f]}
    IN  /\ trail' = [trail EXCEPT ![s] = [f \in Fields |->
              IF f \in news THEN body[f] ELSE @[f]]]
        /\ broken' = (broken \/ \E f \in news : stored'[s][f] # trail[s][f])

\* _record_audit: an entry for each field whose value differs from the one read.
AuditPatch(s, body, previous) ==
    LET news == {f \in Given(body) : body[f] # previous[f]}
    IN  /\ trail' = [trail EXCEPT ![s] = [f \in Fields |->
              IF f \in news THEN body[f] ELSE @[f]]]
        /\ broken' = (broken \/ \E f \in news : previous[f] # trail[s][f])

PatchCommits(h) ==
    LET r == req[h]
    IN  /\ Busy(h, "patch")
        /\ stored' = [stored EXCEPT ![r.whose] = Rewritten(r.whose, r.body, r.previous)]
        /\ AuditPatch(r.whose, r.body, r.previous)
        /\ chosen' = IF r.whose = "user" THEN chosen \cup Given(r.body) ELSE chosen
        /\ crossedOver' = (crossedOver \/ stale[h])
        /\ EndAndOvertake(h)
        /\ UNCHANGED refusals

Bodies == [locale : Supported.locale \cup {Omitted, Unsupported},
           timezone : Supported.timezone \cup {Omitted, Unsupported}]

\* The whole of a PATCH of the user's own preferences, ...
PatchMyLocale(h) ==
    \/ \E body \in Bodies : RefusePatch("user", body) \/ PatchBegins(h, "user", body)
    \/ req[h] # Idle /\ req[h].whose = "user" /\ PatchCommits(h)

\* ... and of the organization's defaults by its owner or an administrator.
PatchOrganizationLocale(h) ==
    \/ \E body \in Bodies :
           RefusePatch("organization", body) \/ PatchBegins(h, "organization", body)
    \/ req[h] # Idle /\ req[h].whose = "organization" /\ PatchCommits(h)

LocalesNext ==
    \E h \in Handlers :
        \/ PatchMyLocale(h)
        \/ PatchOrganizationLocale(h)
        \/ Lost(h) /\ UNCHANGED <<stored, trail, broken, refusals, chosen, crossedOver>>

LocalesSpec == LocalesInit /\ [][LocalesNext]_localeVars

-----------------------------------------------------------------------------
(* Properties. *)

Preferences == [locale : Supported.locale, timezone : Supported.timezone]

\* The values each variable takes; in particular no value that cannot be shown or
\* computed with is ever stored.
LocalesTypeOK ==
    /\ stored \in [Subjects -> Preferences]
    /\ trail \in [Subjects -> Preferences]
    /\ broken \in BOOLEAN
    /\ refusals \in SUBSET (Fields \X Subjects)
    /\ chosen \in SUBSET Fields
    /\ crossedOver \in BOOLEAN
    /\ req \in [Handlers -> {Idle} \cup [op : {"patch"}, whose : Subjects,
                                         body : Bodies, previous : Preferences]]
    /\ stale \in [Handlers -> BOOLEAN]

\* However PATCHes interleave, one writes only fields its body has: the user's choice of
\* a language never takes back a time zone that another window has just saved; and a
\* PATCH refused for one field has not saved the other.
PatchIsExact ==
    [][/\ \A s \in Subjects, f \in Fields :
              stored'[s][f] # stored[s][f] =>
                  \E h \in Handlers : /\ Busy(h, "patch")
                                      /\ req[h].whose = s
                                      /\ req[h].body[f] = stored'[s][f]
       /\ refusals' # refusals => stored' = stored]_localeVars

\* What docs/product/internationalization-and-timezone.md says: the language of a user
\* who has not chosen one is the organization's.  The columns are never empty, so the
\* organization's value is never reached.
OrganizationDefaultApplies ==
    \A f \in Fields \ chosen : UserLocaleView[f].value = OrganizationLocaleView[f]

\* A preference changes by the request that names it, and the audit of each is a chain
\* that ends in its value, unless two PATCHes overlapped (the PATCH handlers read the
\* previous value for the audit).
PreferencesAreKept ==
    [](crossedOver \/ (~broken /\ trail = stored)) /\ PatchIsExact

=============================================================================
