---------------------------- MODULE WebhooksProofs ----------------------------
(***************************************************************************)
(* Proofs about Webhooks for any number of subscriptions, deliveries and   *)
(* master keys and any max_attempts.  The invariant that carries all of    *)
(* them adds one fact to the properties: whatever a retry or a pass has    *)
(* read and not yet acted on, it has not succeeded since (Stale).          *)
(***************************************************************************)
EXTENDS Webhooks, TLAPS

\* What is under way concerns deliveries that exist and have not succeeded.
Stale == \A d \in retrying \cup batch : status[d] \notin {"unused", "succeeded"}

IInv == TypeOK /\ WaitingIsScheduled /\ OutcomeWasSent /\ Stale

\* A first attempt is always to come: max_attempts is at least one.
LEMMA FirstAttemptComes == FirstAttempt = "later"
  BY ConstantsAssumption DEF FirstAttempt, NextAttempt

\* The status and the time the dispatcher gives a first attempt go together,
\* and it says succeeded or failed only after a POST.
LEMMA DispatcherResult ==
  ASSUME NEW answer \in Answers
  PROVE  /\ Outcome(answer, 1) \in {"succeeded", "failed", "dead_letter"}
         /\ OutcomeNext(answer, 1) \in {"none", "later"}
         /\ Outcome(answer, 1) = "failed" => OutcomeNext(answer, 1) # "none"
         /\ Outcome(answer, 1) = "succeeded" => OutcomeNext(answer, 1) = "none"
         /\ Posted(answer) \in Nat
         /\ Outcome(answer, 1) \in {"succeeded", "failed"} => Posted(answer) = 1
  <1>1. CASE answer = "ok"
    BY <1>1 DEF Outcome, OutcomeNext, Posted
  <1>2. CASE answer = "refused"
    BY <1>2 DEF Outcome, OutcomeNext, Posted
  <1>3. CASE answer = "error"
    BY <1>3 DEF Outcome, OutcomeNext, Posted, NextAttempt
  <1> QED BY <1>1, <1>2, <1>3 DEF Answers

\* The invariant holds at the start.
LEMMA Initially == Init => IInv
  BY DEF Init, IInv, TypeOK, WaitingIsScheduled, OutcomeWasSent, Stale, Waiting, DeliveryStatus

\* It is kept by what changes a subscription, a test send included.
LEMMA SubscriptionKeeps ==
  ASSUME IInv, NEW s \in Subs, SubscriptionStep(s)
  PROVE  IInv'
  <1> USE DEF IInv
  <1>1. ASSUME NEW enabled \in BOOLEAN, CreateSubscription(s, enabled) PROVE IInv'
    BY <1>1 DEF CreateSubscription, AddSubscription, Seal, TypeOK, WaitingIsScheduled, OutcomeWasSent, Stale, deliveryVars, handlerVars
  <1>2. ASSUME NEW value \in {"enabled", "disabled", "keep"}, PatchRead(s, value) PROVE IInv'
    BY <1>2 DEF PatchRead, TypeOK, WaitingIsScheduled, OutcomeWasSent, Stale, deliveryVars, subVars, Visible
  <1>3. CASE PatchWrite(s)
    BY <1>3 DEF PatchWrite, Patched, TypeOK, WaitingIsScheduled, OutcomeWasSent, Stale, deliveryVars, Visible
  <1>4. CASE DeleteSubscription(s)
    <2> DEFINE gone == {d \in Deliveries : target[d] = s /\ status[d] \in Waiting}
    <2>1. /\ sub' = [sub EXCEPT ![s] = "deleted"]
          /\ status' = [d \in Deliveries |-> IF d \in gone THEN "cancelled" ELSE status[d]]
          /\ next' = [d \in Deliveries |-> IF d \in gone THEN "none" ELSE next[d]]
          /\ UNCHANGED <<sealed, key, target, attempts, retrying, testing, patching, emitting, batch, posts>>
      BY <1>4 DEF DeleteSubscription, SoftDelete, CancelPending, handlerVars
    <2> HIDE DEF gone
    <2>2. TypeOK'
      BY <2>1 DEF TypeOK, DeliveryStatus
    <2>3. WaitingIsScheduled'
      BY <2>1 DEF WaitingIsScheduled, Waiting, TypeOK
    <2>4. OutcomeWasSent'
      BY <2>1 DEF OutcomeWasSent, TypeOK
    <2>5. Stale'
      BY <2>1 DEF Stale, TypeOK
    <2> QED BY <2>2, <2>3, <2>4, <2>5
  <1>5. CASE RotateSecret(s)
    BY <1>5 DEF RotateSecret, Seal, TypeOK, WaitingIsScheduled, OutcomeWasSent, Stale, deliveryVars, handlerVars
  <1>6. CASE TestRead(s)
    BY <1>6 DEF TestRead, TypeOK, WaitingIsScheduled, OutcomeWasSent, Stale, deliveryVars, subVars
  <1>7. ASSUME NEW d \in Deliveries, NEW answer \in Answers, TestSend(s, d, answer) PROVE IInv'
    <2>1. TypeOK'
      BY <1>7, DispatcherResult DEF TestSend, RecordAttempt, TypeOK, subVars, DeliveryStatus
    <2>2. WaitingIsScheduled'
      BY <1>7, DispatcherResult DEF TestSend, RecordAttempt, TypeOK, WaitingIsScheduled, Waiting
    <2>3. OutcomeWasSent'
      BY <1>7, DispatcherResult DEF TestSend, RecordAttempt, TypeOK, OutcomeWasSent
    <2>4. Stale'
      BY <1>7 DEF TestSend, RecordAttempt, TypeOK, Stale
    <2> QED BY <2>1, <2>2, <2>3, <2>4
  <1>8. CASE TestLost(s)
    BY <1>8 DEF TestLost, TypeOK, WaitingIsScheduled, OutcomeWasSent, Stale, deliveryVars, subVars
  <1> QED BY <1>1, <1>2, <1>3, <1>4, <1>5, <1>6, <1>7, <1>8 DEF SubscriptionStep, PatchStep, TestStep

\* It is kept by a retry and by the clock.
LEMMA DeliveryKeeps ==
  ASSUME IInv, NEW d \in Deliveries, DeliveryStep(d)
  PROVE  IInv'
  <1> USE DEF IInv
  <1>1. CASE RetryRead(d)
    BY <1>1 DEF RetryRead, Retryable, TypeOK, WaitingIsScheduled, OutcomeWasSent, Stale, deliveryVars, subVars
  <1>2. CASE RetryWrite(d)
    BY <1>2, FirstAttemptComes
    DEF RetryWrite, ResetForRetry, TypeOK, WaitingIsScheduled, OutcomeWasSent, Stale, subVars, DeliveryStatus, Waiting
  <1>3. CASE TimePasses(d)
    BY <1>3 DEF TimePasses, TypeOK, WaitingIsScheduled, OutcomeWasSent, Stale, subVars, handlerVars
  <1> QED BY <1>1, <1>2, <1>3 DEF DeliveryStep

\* It is kept by an emitted event.
LEMMA EmitKeeps ==
  ASSUME IInv, EmitStep
  PROVE  IInv'
  <1> USE DEF IInv
  <1>1. ASSUME NEW matched \in SUBSET Subs, EmitRead(matched) PROVE IInv'
    BY <1>1 DEF EmitRead, TypeOK, WaitingIsScheduled, OutcomeWasSent, Stale, deliveryVars, subVars
  <1>2. ASSUME NEW row \in [emitting -> Deliveries], EmitInsert(row) PROVE IInv'
    <2> DEFINE new == {row[s] : s \in emitting}
               subOf(d) == CHOOSE s \in emitting : row[s] = d
    <2>1. /\ \A d \in new : status[d] = "unused" /\ subOf(d) \in Subs
          /\ status' = [d \in Deliveries |-> IF d \in new THEN "pending" ELSE status[d]]
          /\ target' = [d \in Deliveries |-> IF d \in new THEN subOf(d) ELSE target[d]]
          /\ next' = [d \in Deliveries |-> IF d \in new THEN "later" ELSE next[d]]
          /\ emitting' = {}
          /\ UNCHANGED <<sub, sealed, key, attempts, retrying, testing, patching, batch, posts>>
      BY <1>2, FirstAttemptComes DEF EmitInsert, AddDeliveries, subVars, TypeOK
    <2> HIDE DEF new, subOf
    <2>2. TypeOK'
      BY <2>1 DEF TypeOK, DeliveryStatus
    <2>3. WaitingIsScheduled'
      BY <2>1 DEF WaitingIsScheduled, Waiting, TypeOK
    <2>4. OutcomeWasSent'
      BY <2>1 DEF OutcomeWasSent, TypeOK
    <2>5. Stale'
      BY <2>1 DEF Stale, TypeOK
    <2> QED BY <2>2, <2>3, <2>4, <2>5
  <1> QED BY <1>1, <1>2 DEF EmitStep

\* It is kept by the scheduler's pass.
LEMMA PassKeeps ==
  ASSUME IInv, PassStep
  PROVE  IInv'
  <1> USE DEF IInv
  <1>1. CASE PassList
    BY <1>1 DEF PassList, PendingForDispatch, Waiting, TypeOK, WaitingIsScheduled, OutcomeWasSent, Stale, deliveryVars, subVars, handlerVars
  <1>2. ASSUME NEW d \in Deliveries, NEW answer \in Answers, PassPosts(d, answer) PROVE IInv'
    BY <1>2 DEF PassPosts, Posted, TypeOK, WaitingIsScheduled, OutcomeWasSent, Stale, deliveryVars, subVars, handlerVars
  <1>3. CASE PassGivesUp
    BY <1>3 DEF PassGivesUp, DeadLetter, Waiting, DeliveryStatus, TypeOK, WaitingIsScheduled, OutcomeWasSent, Stale, subVars, handlerVars
  <1>4. CASE PassLost
    BY <1>4 DEF PassLost, TypeOK, WaitingIsScheduled, OutcomeWasSent, Stale, deliveryVars, subVars, handlerVars
  <1> QED BY <1>1, <1>2, <1>3, <1>4 DEF PassStep

\* Every step keeps it.
LEMMA WebhookSteps == IInv /\ [Next]_vars => IInv'
  <1> SUFFICES ASSUME IInv, [Next]_vars PROVE IInv'
    OBVIOUS
  <1>1. ASSUME NEW s \in Subs, SubscriptionStep(s) PROVE IInv'
    BY <1>1, SubscriptionKeeps
  <1>2. ASSUME NEW d \in Deliveries, DeliveryStep(d) PROVE IInv'
    BY <1>2, DeliveryKeeps
  <1>3. CASE EmitStep
    BY <1>3, EmitKeeps
  <1>4. CASE PassStep
    BY <1>4, PassKeeps
  <1>5. ASSUME NEW k \in Keys, KeyChange(k) PROVE IInv'
    BY <1>5 DEF IInv, KeyChange, TypeOK, WaitingIsScheduled, OutcomeWasSent, Stale, deliveryVars, handlerVars
  <1>6. CASE UNCHANGED vars
    BY <1>6 DEF IInv, TypeOK, WaitingIsScheduled, OutcomeWasSent, Stale, vars, deliveryVars, subVars, handlerVars
  <1> QED BY <1>1, <1>2, <1>3, <1>4, <1>5, <1>6 DEF Next

\* The invariant holds in every reachable state.
THEOREM Invariance == Spec => []IInv
  BY Initially, WebhookSteps, PTL DEF Spec

\* The types, among them that no committed delivery is in flight.
THEOREM TypeCorrect == Spec => []TypeOK
  BY Invariance, PTL DEF IInv

\* Every waiting delivery can be found by a later pass.
THEOREM WaitingAreScheduled == Spec => []WaitingIsScheduled
  BY Invariance, PTL DEF IInv

\* The recorded outcomes stand for POSTs that were made.
THEOREM OutcomesWereSent == Spec => []OutcomeWasSent
  BY Invariance, PTL DEF IInv

\* No step of any handler changes a delivery that succeeded.
LEMMA SucceededStep ==
  ASSUME IInv, [Next]_vars, NEW d \in Deliveries, status[d] = "succeeded"
  PROVE  status'[d] = "succeeded" /\ posts'[d] = posts[d]
  <1> USE DEF IInv
  <1>1. ASSUME NEW s \in Subs, SubscriptionStep(s) PROVE status'[d] = "succeeded" /\ posts'[d] = posts[d]
    <2>1. CASE DeleteSubscription(s)
      BY <2>1 DEF DeleteSubscription, CancelPending, Waiting, TypeOK
    <2>2. ASSUME NEW e \in Deliveries, NEW answer \in Answers, TestSend(s, e, answer)
          PROVE  status'[d] = "succeeded" /\ posts'[d] = posts[d]
      BY <2>2 DEF TestSend, RecordAttempt, TypeOK
    <2> QED
      BY <1>1, <2>1, <2>2 DEF SubscriptionStep, PatchStep, TestStep, CreateSubscription, PatchRead, PatchWrite,
         RotateSecret, TestRead, TestLost, deliveryVars
  <1>2. ASSUME NEW e \in Deliveries, DeliveryStep(e) PROVE status'[d] = "succeeded" /\ posts'[d] = posts[d]
    BY <1>2 DEF DeliveryStep, RetryRead, RetryWrite, ResetForRetry, TimePasses, Stale, TypeOK, deliveryVars
  <1>3. CASE EmitStep
    <2>1. ASSUME NEW row \in [emitting -> Deliveries], EmitInsert(row)
          PROVE  status'[d] = "succeeded" /\ posts'[d] = posts[d]
      BY <2>1 DEF EmitInsert, AddDeliveries, TypeOK
    <2> QED BY <1>3, <2>1 DEF EmitStep, EmitRead, deliveryVars
  <1>4. CASE PassStep
    BY <1>4 DEF PassStep, PassList, PassPosts, PassGivesUp, DeadLetter, PassLost, Stale, TypeOK, deliveryVars
  <1>5. ASSUME NEW k \in Keys, KeyChange(k) PROVE status'[d] = "succeeded" /\ posts'[d] = posts[d]
    BY <1>5 DEF KeyChange, deliveryVars
  <1>6. CASE UNCHANGED vars
    BY <1>6 DEF vars, deliveryVars
  <1> QED BY <1>1, <1>2, <1>3, <1>4, <1>5, <1>6 DEF Next

\* A delivery that succeeded is left alone for good.
THEOREM SucceededStays == Spec => SucceededIsFinal
  <1>1. IInv /\ [Next]_vars => [\A d \in Deliveries : status[d] = "succeeded" =>
                                   status'[d] = "succeeded" /\ posts'[d] = posts[d]]_vars
    BY SucceededStep
  <1> QED BY Invariance, <1>1, PTL DEF Spec, SucceededIsFinal

\* No handler brings a deleted subscription back.
THEOREM DeletedStays == Spec => DeletedStaysDeleted
  <1>1. TypeOK /\ [Next]_vars => [\A s \in Subs : sub[s] = "deleted" => sub'[s] = "deleted"]_vars
    <2> SUFFICES ASSUME TypeOK, [Next]_vars, NEW s \in Subs, sub[s] = "deleted"
                 PROVE  sub'[s] = "deleted"
      OBVIOUS
    <2>1. ASSUME NEW t \in Subs, SubscriptionStep(t) PROVE sub'[s] = "deleted"
      BY <2>1 DEF SubscriptionStep, PatchStep, TestStep, CreateSubscription, AddSubscription, PatchRead, PatchWrite,
         Patched, DeleteSubscription, SoftDelete, RotateSecret, TestRead, TestSend, TestLost, Visible, TypeOK, subVars
    <2>2. ASSUME NEW d \in Deliveries, DeliveryStep(d) PROVE sub'[s] = "deleted"
      BY <2>2 DEF DeliveryStep, RetryRead, RetryWrite, TimePasses, subVars
    <2>3. CASE EmitStep
      BY <2>3 DEF EmitStep, EmitRead, EmitInsert, subVars
    <2>4. CASE PassStep
      BY <2>4 DEF PassStep, PassList, PassPosts, PassGivesUp, PassLost, subVars
    <2>5. ASSUME NEW k \in Keys, KeyChange(k) PROVE sub'[s] = "deleted"
      BY <2>5 DEF KeyChange
    <2>6. CASE UNCHANGED vars
      BY <2>6 DEF vars, subVars
    <2> QED BY <2>1, <2>2, <2>3, <2>4, <2>5, <2>6 DEF Next
  <1> QED BY TypeCorrect, <1>1, PTL DEF Spec, DeletedStaysDeleted

\* A delivery waits for a next attempt that is set and has its outcome because a request
\* was sent, and what succeeded or was deleted stays so.
THEOREM DeliveriesSound == Spec => DeliveriesAreSound
  BY WaitingAreScheduled, OutcomesWereSent, SucceededStays, DeletedStays, PTL DEF DeliveriesAreSound

=============================================================================
