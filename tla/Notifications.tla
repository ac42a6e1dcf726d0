----------------------------- MODULE Notifications -----------------------------
(***************************************************************************)
(* One user's notification preferences and inbox (NotificationService):    *)
(* a row per notification type, seeded with the defaults when it is first  *)
(* looked for, and the notifications and e-mails it lets through.          *)
(***************************************************************************)
EXTENDS Requests, Naturals, SequencesExt

CONSTANTS
    MailTypes,      \* types that may be mailed; their default is to mail
    InboxTypes,     \* types that stay in the inbox
    FirstType,      \* the first member of NotificationType
    MaxNotes        \* bound: notifications

Types == MailTypes \cup InboxTypes

ASSUME FirstTypeAssumption == FirstType \in Types

VARIABLES
    preference,     \* per type: null, or whether each channel is enabled
    inbox,          \* notifications: type and state
    mailed          \* types the provider was handed a mail of

notificationVars == <<preference, inbox, mailed, requestVars>>

Channels == {"in_app", "email"}
NoPreference == [c \in Channels |-> "null"]
Settings == {"on", "off"}

\* DEFAULT_IN_APP_PREFERENCES, DEFAULT_EMAIL_PREFERENCES
Default(t) == [in_app |-> "on", email |-> IF t \in MailTypes THEN "on" ELSE "off"]

NotificationsInit ==
    /\ preference = [t \in Types |-> NoPreference]
    /\ inbox = <<>>
    /\ mailed = {}
    /\ NoRequests

Seeded(p) == \E t \in Types : p[t] # NoPreference

\* No other request is between its first write and its commit.
InboxLockFree(h) == \A x \in Handlers \ {h} : req[x] # Idle => ~req[x].writes

-----------------------------------------------------------------------------
(* Preferences. *)

\* upsert of what it found of a type when it looked: a row is inserted, or those of
\* its columns are updated that differ from what was found.
Upserted(row, found, new) ==
    IF found = NoPreference THEN new
    ELSE [c \in Channels |-> IF new[c] # found[c] THEN new[c] ELSE row[c]]

\* A type has one row at most.
MayUpsert(t, found) == found = NoPreference => preference[t] = NoPreference

\* get_or_seed_preferences finds no preferences, ...
SeedRead(h) ==
    /\ ~Seeded(preference)
    /\ Begin(h, [op |-> "seed", found |-> NoPreference, writes |-> FALSE])
    /\ UNCHANGED <<preference, inbox, mailed>>

\* ... looks for the row of the first type, ...
SeedLook(h) ==
    /\ Busy(h, "seed")
    /\ req' = [req EXCEPT ![h].op = "seed_looked", ![h].found = preference[FirstType]]
    /\ UNCHANGED <<preference, inbox, mailed, stale>>

\* ... and from its flush on for those of the others: each type has its default.
SeedWrite(h) ==
    /\ Busy(h, "seed_looked")
    /\ InboxLockFree(h)
    /\ MayUpsert(FirstType, req[h].found)
    /\ preference' = [t \in Types |->
                         IF t = FirstType THEN Upserted(preference[t], req[h].found, Default(t))
                         ELSE Default(t)]
    /\ EndAndOvertake(h)
    /\ UNCHANGED <<inbox, mailed>>

GetPreferences(h) == SeedRead(h) \/ SeedLook(h) \/ SeedWrite(h)

\* What a PATCH may name.
Changes == UNION {[cs -> Settings] : cs \in SUBSET Channels \ {{}}}

\* Seeded fault: a channel the request does not name is enabled.
Updated_Enables(saw, change) == [c \in Channels |-> IF c \in DOMAIN change THEN change[c] ELSE "on"]

\* A channel the request does not name keeps the value that was read; one without
\* a row is enabled in the inbox and not mailed.
Updated(saw, change) ==
    [c \in Channels |-> IF c \in DOMAIN change THEN change[c]
                        ELSE IF saw # NoPreference THEN saw[c]
                        ELSE IF c = "in_app" THEN "on" ELSE "off"]

UpdateRead(h, t, change) ==
    /\ Begin(h, [op |-> "update", type |-> t, named |-> DOMAIN change, found |-> NoPreference,
                 new |-> Updated(preference[t], change), writes |-> FALSE])
    /\ UNCHANGED <<preference, inbox, mailed>>

UpdateLook(h) ==
    /\ Busy(h, "update")
    /\ req' = [req EXCEPT ![h].op = "update_looked", ![h].found = preference[req[h].type]]
    /\ UNCHANGED <<preference, inbox, mailed, stale>>

UpdateWrite(h) ==
    /\ Busy(h, "update_looked")
    /\ InboxLockFree(h)
    /\ MayUpsert(req[h].type, req[h].found)
    /\ preference' = [preference EXCEPT ![req[h].type] = Upserted(@, req[h].found, req[h].new)]
    /\ EndAndOvertake(h)
    /\ UNCHANGED <<inbox, mailed>>

UpdatePreferences(h) ==
    \/ \E t \in Types, change \in Changes : UpdateRead(h, t, change)
    \/ UpdateLook(h)
    \/ UpdateWrite(h)

-----------------------------------------------------------------------------
(* Delivery.  The candidates of a scan or a tick are delivered one by one in one *)
(* transaction; each is a delivery of its own here.                           *)

Effective(p, t) == IF p[t] = NoPreference THEN Default(t) ELSE p[t]

\* Seeded fault: the defaults are asked, not the user's row.
ShouldCreateInApp_Default(p, t) == Default(t).in_app = "on"

ShouldCreateInApp(p, t) == Effective(p, t).in_app = "on"

ShouldAttemptEmail(p, t) == t \in MailTypes /\ Effective(p, t).email = "on"

\* The preferences once deliver_candidate has seeded the candidate's type.
SeedCandidate(r) ==
    IF r.seeds THEN [preference EXCEPT ![r.type] = Upserted(@, r.found, Default(r.type))]
    ELSE preference

Unread(t) == [type |-> t, state |-> "unread"]

DeliverRead(h, t) ==
    /\ Begin(h, [op |-> IF Seeded(preference) THEN "deliver" ELSE "deliver_seeds", type |-> t,
                 seeds |-> ~Seeded(preference), found |-> NoPreference, writes |-> FALSE,
                 shown |-> ShouldCreateInApp(preference, t),
                 mails |-> ShouldAttemptEmail(preference, t)])
    /\ UNCHANGED <<preference, inbox, mailed>>

\* For a user without preferences it looks for the row of the candidate's type.
DeliverLook(h) ==
    /\ Busy(h, "deliver_seeds")
    /\ req' = [req EXCEPT ![h].op = "deliver", ![h].found = preference[req[h].type]]
    /\ UNCHANGED <<preference, inbox, mailed, stale>>

\* It writes what the preferences it has read let through, those after seeding if it
\* seeds, and mails it if the recipient has an address; the commit is still to come.
DeliverWrite(h) ==
    LET r == req[h]
        p == SeedCandidate(r)
        shown == IF r.seeds THEN ShouldCreateInApp(p, r.type) ELSE r.shown
        mails == IF r.seeds THEN ShouldAttemptEmail(p, r.type) ELSE r.mails
    IN  /\ Busy(h, "deliver") /\ ~r.writes
        /\ InboxLockFree(h)
        /\ r.seeds => MayUpsert(r.type, r.found)
        /\ \E addressed \in BOOLEAN :
               mailed' = mailed \cup {t \in {r.type} : addressed /\ mails}
        /\ req' = [req EXCEPT ![h].writes = TRUE, ![h].shown = shown]
        /\ UNCHANGED <<preference, inbox, stale>>

DeliverCommit(h) ==
    /\ Busy(h, "deliver") /\ req[h].writes
    /\ Len(inbox) < MaxNotes
    /\ inbox' = IF req[h].shown THEN Append(inbox, Unread(req[h].type)) ELSE inbox
    /\ preference' = SeedCandidate(req[h])
    /\ EndAndOvertake(h)
    /\ UNCHANGED mailed

Delivery(h) ==
    \/ \E t \in Types : DeliverRead(h, t)
    \/ DeliverLook(h)
    \/ DeliverWrite(h)
    \/ DeliverCommit(h)

-----------------------------------------------------------------------------
(* The inbox. *)

\* Any state may follow any.
Mark(h, i, new) ==
    /\ req[h] = Idle
    /\ InboxLockFree(h)
    /\ inbox' = [inbox EXCEPT ![i].state = new]
    /\ UNCHANGED <<preference, mailed, requestVars>>

\* Rolled back; a mail that was sent is not.
NotificationLost(h) ==
    /\ Lost(h)
    /\ UNCHANGED <<preference, inbox, mailed>>

NotificationsNext ==
    \E h \in Handlers :
        \/ GetPreferences(h)
        \/ UpdatePreferences(h)
        \/ Delivery(h)
        \/ \E i \in DOMAIN inbox, new \in {"read", "dismissed"} : Mark(h, i, new)
        \/ NotificationLost(h)

NotificationsSpec == NotificationsInit /\ [][NotificationsNext]_notificationVars

-----------------------------------------------------------------------------
(* Properties. *)

\* The values each variable takes.
NotificationsTypeOK ==
    /\ preference \in [Types -> [Channels -> Settings] \cup {NoPreference}]
    /\ \A i \in DOMAIN inbox : /\ inbox[i].type \in Types
                               /\ inbox[i].state \in {"unread", "read", "dismissed"}
    /\ mailed \subseteq MailTypes

\* A request that gives type t its defaults.
Seeding(h, t) ==
    Busy(h, "seed_looked") \/ (Busy(h, "deliver") /\ req[h].seeds /\ req[h].type = t)

\* What a user has once set changes by a request that names the channel, or goes
\* back to its default by one that had found the user without preferences before
\* (get_or_seed_preferences, deliver_candidate), and by nothing else; of two updates
\* that cross, one is lost.
ChannelsAreIndependent ==
    [][\A t \in Types, c \in Channels :
            preference[t][c] \notin {"null", preference'[t][c]} =>
                \E h \in Handlers :
                    /\ req[h] # Idle /\ req'[h] = Idle
                    /\ \/ /\ Busy(h, "update_looked") /\ req[h].type = t
                          /\ c \in req[h].named \/ stale[h]
                       \/ /\ Seeding(h, t) /\ stale[h]
                          /\ preference'[t][c] = Default(t)[c]]_notificationVars

\* A type that is turned off is neither mailed nor shown; a delivery under way when
\* it was turned off excepted.
MutedIsSilent ==
    [][\A h \in Handlers : (Busy(h, "deliver") /\ ~stale[h] /\ req'[h] # req[h]) =>
            /\ mailed' # mailed => preference[req[h].type].email # "off"
            /\ inbox' # inbox => preference[req[h].type].in_app # "off"]_notificationVars

\* What reaches a user is what the user has chosen, unless the choice was made while
\* the defaults were being written (NotificationService).
PreferencesDecide == ChannelsAreIndependent /\ MutedIsSilent

=============================================================================
