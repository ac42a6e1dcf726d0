------------------------------- MODULE Webhooks -------------------------------
(***************************************************************************)
(* Webhook delivery of LiveLead: subscriptions with a signing secret each, *)
(* the deliveries queued for them, the REST handlers that manage both, and *)
(* the scheduler's pass that posts what is due (WebhookDeliveryService).   *)
(*                                                                         *)
(* A handler reads its rows before its first write, and only that write    *)
(* takes SQLite's lock; so a handler whose reads can be overtaken is two   *)
(* steps, the read and the rest of its transaction.  What happens under    *)
(* the lock, a POST included, is one step: nobody else writes meanwhile    *)
(* and a reader sees the rows as committed before.                         *)
(***************************************************************************)
EXTENDS Naturals

CONSTANTS
    Subs,         \* ids of the subscriptions that may be created
    Deliveries,   \* ids of the deliveries that may be created
    NoSub,        \* the subscription of a delivery not yet inserted
    Keys,         \* the values the vault's master key may take
    MaxAttempts,  \* WebhookDeliveryThresholds.max_attempts
    MaxPosts      \* bound: POSTs of one delivery since its last retry

ASSUME ConstantsAssumption ==
    /\ NoSub \notin Subs
    /\ MaxAttempts \in Nat \ {0}
    /\ MaxPosts \in Nat

VARIABLES
    \* webhook_subscriptions and their signing secrets
    sub,        \* enabled, disabled or deleted; absent before it is created
    sealed,     \* by subscription: the master key its secret is encrypted with
    key,        \* the master key the processes run with
    \* webhook_deliveries
    status,     \* WebhookDeliveryStatus; unused before it is inserted
    target,     \* subscription_id
    attempts,   \* attempt_count
    next,       \* next_attempt_at: none, later than now, or due
    \* handlers between their read and their write
    retrying,   \* deliveries whose retry was found allowed
    testing,    \* subscriptions a test send goes on with
    patching,   \* by subscription: the enabled value a patch will write
    emitting,   \* the subscriptions an emitted event was matched with
    \* the scheduler's pass
    batch,      \* the deliveries it listed as due
    \* history
    posts       \* POSTs made for a delivery since it was last reset

subVars == <<sub, sealed, key>>
deliveryVars == <<status, target, attempts, next>>
handlerVars == <<retrying, testing, patching, emitting>>

vars == <<subVars, deliveryVars, handlerVars, batch, posts>>

-----------------------------------------------------------------------------
DeliveryStatus == {"pending", "in_flight", "succeeded", "failed", "dead_letter", "cancelled"}

\* The statuses the dispatcher's query selects and a deletion cancels.
Waiting == {"pending", "failed"}

Retryable == {"failed", "dead_letter"}

\* repositories get and list only rows whose deleted_at is null.
Visible(s) == sub[s] \in {"enabled", "disabled"}

\* The secret can be decrypted; the secret of a deleted subscription stays.
Decryptable(s) == sealed[s] = key

\* next_attempt_at of the retry policy: nothing once the attempts are used up.
NextAttempt(count) == IF count >= MaxAttempts THEN "none" ELSE "later"

\* Seeded fault: a target the dispatcher refuses counts as a failed POST.
Outcome_RefusedFails(answer, count) ==
    CASE answer = "ok" -> "succeeded"
      [] answer = "refused" -> "failed"
      [] OTHER -> IF NextAttempt(count) = "none" THEN "dead_letter" ELSE "failed"

\* What the dispatcher makes of an attempt, the count-th one: a target that
\* resolves to a forbidden address is given up without a POST.
Outcome(answer, count) ==
    CASE answer = "ok" -> "succeeded"
      [] answer = "refused" -> "dead_letter"
      [] OTHER -> IF NextAttempt(count) = "none" THEN "dead_letter" ELSE "failed"

\* Seeded fault: the row of a failed attempt loses its next attempt.
OutcomeNext_Forgets(answer, count) == "none"

\* The next_attempt_at that goes with it.
OutcomeNext(answer, count) == IF answer = "error" THEN NextAttempt(count) ELSE "none"

Answers == {"ok", "error", "refused"}

\* POSTs the dispatcher makes for an attempt with that answer.
Posted(answer) == IF answer = "refused" THEN 0 ELSE 1

Init ==
    /\ sub = [s \in Subs |-> "absent"]
    /\ key \in Keys
    /\ sealed = [s \in Subs |-> key]
    /\ status = [d \in Deliveries |-> "unused"]
    /\ target = [d \in Deliveries |-> NoSub]
    /\ attempts = [d \in Deliveries |-> 0]
    /\ next = [d \in Deliveries |-> "none"]
    /\ retrying = {}
    /\ testing = {}
    /\ patching = [s \in Subs |-> "none"]
    /\ emitting = {}
    /\ batch = {}
    /\ posts = [d \in Deliveries |-> 0]

-----------------------------------------------------------------------------
(* Subscriptions. *)

\* WebhookSubscriptionRepository.add
AddSubscription(s, enabled) ==
    sub' = [sub EXCEPT ![s] = IF enabled THEN "enabled" ELSE "disabled"]

\* A new secret, encrypted with the key of the process that stores it.
Seal(s) == sealed' = [sealed EXCEPT ![s] = key]

\* create_subscription: the row and its encrypted secret in one transaction.
CreateSubscription(s, enabled) ==
    /\ sub[s] = "absent"
    /\ AddSubscription(s, enabled)
    /\ Seal(s)
    /\ UNCHANGED <<key, deliveryVars, handlerVars, batch, posts>>

\* update_subscription reads the row; a patch that leaves enabled out will
\* write the value it has read.
PatchRead(s, value) ==
    /\ Visible(s)
    /\ patching[s] = "none"
    /\ patching' = [patching EXCEPT ![s] = IF value = "keep" THEN sub[s] ELSE value]
    /\ UNCHANGED <<subVars, deliveryVars, retrying, testing, emitting, batch, posts>>

\* WebhookSubscriptionRepository.update selects the row once more.
Patched(s) == IF Visible(s) THEN patching[s] ELSE sub[s]

\* Seeded fault: the repository's update does not look at deleted_at again.
PatchWrite_Revives(s) ==
    /\ patching[s] # "none"
    /\ sub' = [sub EXCEPT ![s] = patching[s]]
    /\ patching' = [patching EXCEPT ![s] = "none"]
    /\ UNCHANGED <<sealed, key, deliveryVars, retrying, testing, emitting, batch, posts>>

\* The same handler writes, or answers 404 when the row was deleted meanwhile.
PatchWrite(s) ==
    /\ patching[s] # "none"
    /\ sub' = [sub EXCEPT ![s] = Patched(s)]
    /\ patching' = [patching EXCEPT ![s] = "none"]
    /\ UNCHANGED <<sealed, key, deliveryVars, retrying, testing, emitting, batch, posts>>

\* WebhookSubscriptionRepository.soft_delete: deleted_at set, enabled cleared.
SoftDelete(s) == sub' = [sub EXCEPT ![s] = "deleted"]

\* cancel_pending_for_subscription: what waits for an attempt of it.
CancelPending(s) ==
    LET gone == {d \in Deliveries : target[d] = s /\ status[d] \in Waiting}
    IN  /\ status' = [d \in Deliveries |-> IF d \in gone THEN "cancelled" ELSE status[d]]
        /\ next' = [d \in Deliveries |-> IF d \in gone THEN "none" ELSE next[d]]

\* soft_delete_subscription
DeleteSubscription(s) ==
    /\ Visible(s)
    /\ SoftDelete(s)
    /\ CancelPending(s)
    /\ UNCHANGED <<sealed, key, target, attempts, handlerVars, batch, posts>>

\* rotate_secret: the secret's row is overwritten in place.
RotateSecret(s) ==
    /\ Visible(s)
    /\ Seal(s)
    /\ UNCHANGED <<sub, key, deliveryVars, handlerVars, batch, posts>>

\* The operator restarts the processes with another master key.
KeyChange(k) ==
    /\ retrying = {} /\ testing = {} /\ emitting = {} /\ batch = {}
    /\ key' = k
    /\ UNCHANGED <<sub, sealed, deliveryVars, handlerVars, batch, posts>>

-----------------------------------------------------------------------------
(* Deliveries. *)

\* A delivery's first next_attempt_at, and the one after a retry.
FirstAttempt == NextAttempt(0)

\* list_enabled_for_event, for events of any type.
EnabledForEvent == {s \in Subs : sub[s] = "enabled"}

\* emit_event matches the enabled subscriptions of the event's type whose
\* secret it can decrypt.
EmitRead(matched) ==
    /\ emitting = {}
    /\ matched # {}
    /\ matched \subseteq EnabledForEvent
    /\ \A s \in matched : Decryptable(s)
    /\ emitting' = matched
    /\ UNCHANGED <<subVars, deliveryVars, retrying, testing, patching, batch, posts>>

\* WebhookDeliveryRepository.add, for each of them.
AddDeliveries(row) ==
    LET new == {row[s] : s \in emitting}
    IN  /\ status' = [d \in Deliveries |-> IF d \in new THEN "pending" ELSE status[d]]
        /\ target' = [d \in Deliveries |-> IF d \in new
                                           THEN CHOOSE s \in emitting : row[s] = d
                                           ELSE target[d]]
        /\ next' = [d \in Deliveries |-> IF d \in new THEN FirstAttempt ELSE next[d]]

\* It inserts one pending delivery for each of them.
EmitInsert(row) ==
    /\ emitting # {}
    /\ row \in [emitting -> Deliveries]
    /\ \A s \in emitting : status[row[s]] = "unused"
    /\ \A s, t \in emitting : row[s] = row[t] => s = t
    /\ AddDeliveries(row)
    /\ emitting' = {}
    /\ UNCHANGED <<subVars, attempts, retrying, testing, patching, batch, posts>>

\* test_send finds the subscription, enabled or not, and decrypts its secret.
TestRead(s) ==
    /\ Visible(s)
    /\ Decryptable(s)
    /\ s \notin testing
    /\ testing' = testing \cup {s}
    /\ UNCHANGED <<subVars, deliveryVars, retrying, patching, emitting, batch, posts>>

\* record_attempt, of the first one.
RecordAttempt(d, answer) ==
    /\ status' = [status EXCEPT ![d] = Outcome(answer, 1)]
    /\ attempts' = [attempts EXCEPT ![d] = 1]
    /\ next' = [next EXCEPT ![d] = OutcomeNext(answer, 1)]

\* The rest of test_send, one transaction: a delivery is inserted, posted and
\* its outcome recorded as the first attempt.
TestSend(s, d, answer) ==
    /\ s \in testing
    /\ status[d] = "unused"
    /\ target' = [target EXCEPT ![d] = s]
    /\ RecordAttempt(d, answer)
    /\ posts' = [posts EXCEPT ![d] = Posted(answer)]
    /\ testing' = testing \ {s}
    /\ UNCHANGED <<subVars, retrying, patching, emitting, batch>>

\* The request dies, or the database stays locked: nothing is committed.
TestLost(s) ==
    /\ s \in testing
    /\ testing' = testing \ {s}
    /\ UNCHANGED <<subVars, deliveryVars, retrying, patching, emitting, batch, posts>>

\* Seeded fault: any delivery can be retried.
RetryRead_Any(d) ==
    /\ status[d] # "unused"
    /\ retrying' = retrying \cup {d}
    /\ UNCHANGED <<subVars, deliveryVars, testing, patching, emitting, batch, posts>>

\* retry_delivery reads the row: only failed and dead_letter may be retried.
RetryRead(d) ==
    /\ status[d] \in Retryable
    /\ retrying' = retrying \cup {d}
    /\ UNCHANGED <<subVars, deliveryVars, testing, patching, emitting, batch, posts>>

\* reset_for_retry, whatever the row has become.
ResetForRetry(d) ==
    /\ status' = [status EXCEPT ![d] = "pending"]
    /\ attempts' = [attempts EXCEPT ![d] = 0]
    /\ next' = [next EXCEPT ![d] = FirstAttempt]

\* The rest of retry_delivery.
RetryWrite(d) ==
    /\ d \in retrying
    /\ ResetForRetry(d)
    /\ posts' = [posts EXCEPT ![d] = 0]
    /\ retrying' = retrying \ {d}
    /\ UNCHANGED <<subVars, target, testing, patching, emitting, batch>>

\* The clock passes next_attempt_at.
TimePasses(d) ==
    /\ next[d] = "later"
    /\ next' = [next EXCEPT ![d] = "due"]
    /\ UNCHANGED <<subVars, status, target, attempts, handlerVars, batch, posts>>

-----------------------------------------------------------------------------
(* The scheduler's pass: dispatch_pending. *)

\* list_pending_for_dispatch: what is due, for every organization.
PendingForDispatch == {d \in Deliveries : status[d] \in Waiting /\ next[d] = "due"}

\* dispatch_pending begins.
PassList ==
    /\ batch = {}
    /\ batch' = PendingForDispatch
    /\ batch' # {}
    /\ UNCHANGED <<subVars, deliveryVars, handlerVars, posts>>

\* Seeded fault: what the pass wrote before the error is committed.
PassPosts_Commits(d, answer) ==
    /\ d \in batch
    /\ Decryptable(target[d])
    /\ posts[d] < MaxPosts
    /\ posts' = [posts EXCEPT ![d] = @ + Posted(answer)]
    /\ status' = [status EXCEPT ![d] = "in_flight"]
    /\ batch' = {}
    /\ UNCHANGED <<subVars, target, attempts, next, handlerVars>>

\* The first delivery of the list with a secret it can decrypt is marked, posted
\* and recorded.  Then the call of _emit_delivery_audit names two variables that
\* dispatch_pending does not have: the NameError ends the pass, and whatever it
\* has written is rolled back.
PassPosts(d, answer) ==
    /\ d \in batch
    /\ Decryptable(target[d])
    /\ posts[d] < MaxPosts
    /\ posts' = [posts EXCEPT ![d] = @ + Posted(answer)]
    /\ batch' = {}
    /\ UNCHANGED <<subVars, deliveryVars, handlerVars>>

\* transition_status of each: next_attempt_at stays.
DeadLetter(gone) ==
    status' = [d \in Deliveries |-> IF d \in gone THEN "dead_letter" ELSE status[d]]

\* No delivery of the list has a secret the pass can decrypt: all of them become
\* dead letters.
PassGivesUp ==
    /\ batch # {}
    /\ \A d \in batch : ~Decryptable(target[d])
    /\ DeadLetter(batch)
    /\ batch' = {}
    /\ UNCHANGED <<subVars, target, attempts, next, handlerVars, posts>>

\* The database stays locked, the commit fails, or the scheduler dies.
PassLost ==
    /\ batch # {}
    /\ batch' = {}
    /\ UNCHANGED <<subVars, deliveryVars, handlerVars, posts>>

-----------------------------------------------------------------------------
PatchStep(s) ==
    \/ \E value \in {"enabled", "disabled", "keep"} : PatchRead(s, value)
    \/ PatchWrite(s)

TestStep(s) ==
    \/ TestRead(s)
    \/ \E d \in Deliveries, answer \in Answers : TestSend(s, d, answer)
    \/ TestLost(s)

SubscriptionStep(s) ==
    \/ \E enabled \in BOOLEAN : CreateSubscription(s, enabled)
    \/ PatchStep(s)
    \/ DeleteSubscription(s)
    \/ RotateSecret(s)
    \/ TestStep(s)

DeliveryStep(d) ==
    \/ RetryRead(d)
    \/ RetryWrite(d)
    \/ TimePasses(d)

EmitStep ==
    \/ \E matched \in SUBSET Subs : EmitRead(matched)
    \/ \E row \in [emitting -> Deliveries] : EmitInsert(row)

PassStep ==
    \/ PassList
    \/ \E d \in Deliveries, answer \in Answers : PassPosts(d, answer)
    \/ PassGivesUp
    \/ PassLost

Next ==
    \/ \E s \in Subs : SubscriptionStep(s)
    \/ \E d \in Deliveries : DeliveryStep(d)
    \/ EmitStep
    \/ PassStep
    \/ \E k \in Keys : KeyChange(k)

Spec == Init /\ [][Next]_vars

-----------------------------------------------------------------------------
(* Properties. *)

\* The values each variable takes.  No committed row is in_flight, a status the
\* dispatcher would never pick up again: the mark and the outcome of an attempt
\* are in one transaction.
TypeOK ==
    /\ sub \in [Subs -> {"absent", "enabled", "disabled", "deleted"}]
    /\ sealed \in [Subs -> Keys]
    /\ key \in Keys
    /\ status \in [Deliveries -> (DeliveryStatus \ {"in_flight"}) \cup {"unused"}]
    /\ target \in [Deliveries -> Subs \cup {NoSub}]
    /\ attempts \in [Deliveries -> Nat]
    /\ next \in [Deliveries -> {"none", "later", "due"}]
    /\ retrying \in SUBSET Deliveries
    /\ testing \in SUBSET Subs
    /\ patching \in [Subs -> {"none", "enabled", "disabled"}]
    /\ emitting \in SUBSET Subs
    /\ batch \in SUBSET Deliveries
    /\ posts \in [Deliveries -> Nat]

\* A delivery that waits for an attempt has a time for it, or the dispatcher's
\* query would never find it again; one that was sent or cancelled has none.
WaitingIsScheduled ==
    \A d \in Deliveries :
        /\ status[d] \in Waiting => next[d] # "none"
        /\ status[d] \in {"succeeded", "cancelled"} => next[d] = "none"

\* The history an admin reads is not invented: a row that says succeeded or
\* failed stands for at least one POST, and counts no more than were made.
OutcomeWasSent ==
    \A d \in Deliveries :
        status[d] \in {"succeeded", "failed"} => attempts[d] \in 1..posts[d]

\* A subscription that was deleted stays so, whichever patch, test or rotation
\* was under way.
DeletedStaysDeleted ==
    [][\A s \in Subs : sub[s] = "deleted" => sub'[s] = "deleted"]_vars

\* A delivery that succeeded is never sent again or given up later, also when a
\* retry or a pass that read it before is still under way.
SucceededIsFinal ==
    [][\A d \in Deliveries : status[d] = "succeeded" =>
          status'[d] = "succeeded" /\ posts'[d] = posts[d]]_vars

\* A delivery is a dead letter once max_attempts attempts were made.
PostsBounded == \A d \in Deliveries : posts[d] <= MaxAttempts

\* Deliveries wait for a pass or have ended, and their rows tell the truth about it
\* (WebhookService, WebhookDispatcher).
DeliveriesAreSound ==
    [](WaitingIsScheduled /\ OutcomeWasSent) /\ SucceededIsFinal /\ DeletedStaysDeleted

=============================================================================
