-------------------------- MODULE AutoDisableProofs --------------------------
(***************************************************************************)
(* Proofs about AutoDisable for any number of rules, triggers, events and  *)
(* concurrent requests.  The type invariant and the confirmation of a      *)
(* recovery hold with the worker tick that would finalize it (TickSpec);   *)
(* what ties events to the source's row holds for the program as it runs   *)
(* (Spec), and the tick would break it.                                    *)
(***************************************************************************)
EXTENDS AutoDisable, TLAPS

\* A handler between its two steps has what its second step needs.
CallersReady ==
    \A h \in Callers :
        /\ doing[h] = "evaluate" => because[h] \in Triggers
        /\ doing[h] \in {"recover", "finalize"} => about[h] \in Events

\* Only an event whose recovery an admin asked for is finalized.
Confirmed ==
    /\ \A e \in Events : status[e] \in {"recovering", "resolved"} => recoverer[e]
    /\ \A h \in Callers : doing[h] = "finalize" => recoverer[about[h]]

TInv == TypeOK /\ CallersReady /\ Confirmed

\* Both specifications start with the invariants.
LEMMA Initially == Init => TInv /\ ActiveIsMarked /\ MarkIsCurrent
  BY ConstantsAssumption
  DEF Init, TInv, TypeOK, CallersReady, Confirmed, ActiveIsMarked, MarkIsCurrent

\* Admins' changes and the environment touch no event's status and no handler.
LEMMA OutsideKeeps ==
  ASSUME TInv, AdminStep \/ Environment
  PROVE  /\ TInv'
         /\ status' = status /\ markedBy' = markedBy
  <1> USE DEF TInv
  <1>1. ASSUME NEW r \in Rules, NEW t \in Triggers, NEW on \in BOOLEAN, CreateRule(r, t, on)
        PROVE  TInv' /\ status' = status /\ markedBy' = markedBy
    BY <1>1 DEF CreateRule, AddRule, TypeOK, CallersReady, Confirmed, eventVars, sourceVars, handlerVars
  <1>2. ASSUME NEW r \in Rules, NEW on \in BOOLEAN, UpdateRule(r, on)
        PROVE  TInv' /\ status' = status /\ markedBy' = markedBy
    BY <1>2 DEF UpdateRule, SetEnabled, TypeOK, CallersReady, Confirmed, eventVars, sourceVars, handlerVars
  <1>6. ASSUME NEW r \in Rules, DeleteRule(r)
        PROVE  TInv' /\ status' = status /\ markedBy' = markedBy
    BY <1>6 DEF DeleteRule, SoftDelete, TypeOK, CallersReady, Confirmed, eventVars, sourceVars, handlerVars
  <1>3. ASSUME NEW on \in BOOLEAN, PatchSource(on)
        PROVE  TInv' /\ status' = status /\ markedBy' = markedBy
    BY <1>3 DEF PatchSource, TypeOK, CallersReady, Confirmed, eventVars, ruleVars, handlerVars
  <1>4. ASSUME NEW t \in Triggers, SignalsChange(t)
        PROVE  TInv' /\ status' = status /\ markedBy' = markedBy
    BY <1>4 DEF SignalsChange, TypeOK, CallersReady, Confirmed, eventVars, ruleVars, sourceVars, handlerVars
  <1>5. ASSUME NEW e \in Events, CooldownPasses(e)
        PROVE  TInv' /\ status' = status /\ markedBy' = markedBy
    BY <1>5 DEF CooldownPasses, TypeOK, CallersReady, Confirmed, ruleVars, sourceVars, handlerVars
  <1> QED BY <1>1, <1>2, <1>3, <1>4, <1>5, <1>6
          DEF AdminStep, CreateStep, UpdateStep, DeleteStep, Environment

\* A handler's steps keep the invariant of both specifications.
LEMMA HandlerKeeps ==
  ASSUME TInv, NEW h \in Callers, HandlerStep(h) \/ FinalizeStep(h)
  PROVE  TInv'
  <1> USE DEF TInv
  <1>1. ASSUME NEW r \in Rules, EvaluateRead(h, r) PROVE TInv'
    <2>1. watches[r] \in Triggers /\ watches[r] \in Triggers \cup {NoTrigger}
      BY <1>1 DEF EvaluateRead, Fires, EnabledForSource, TypeOK
    <2> QED
      BY <1>1, <2>1 DEF EvaluateRead, StartCall, TypeOK, CallersReady, Confirmed, ruleVars, eventVars, sourceVars
  <1>2. ASSUME NEW e \in Events, EvaluateWrite(h, e) PROVE TInv'
    <2>1. TypeOK'
      BY <1>2 DEF EvaluateWrite, AddEvent, MarkSource, EndCall, TypeOK, EventStatus, ruleVars
    <2>2. CallersReady'
      BY <1>2 DEF EvaluateWrite, AddEvent, MarkSource, EndCall, TypeOK, CallersReady
    <2>3. Confirmed'
      BY <1>2 DEF EvaluateWrite, AddEvent, MarkSource, EndCall, TypeOK, Confirmed
    <2> QED BY <2>1, <2>2, <2>3
  <1>3. ASSUME NEW e \in Events, RecoverRead(h, e) PROVE TInv'
    BY <1>3 DEF RecoverRead, ActiveForSource, StartCall, TypeOK, CallersReady, Confirmed, ruleVars, eventVars, sourceVars
  <1>4. CASE RecoverWrite(h)
    <2>1. about[h] \in Events
      BY <1>4 DEF RecoverWrite, EndCall, CallersReady
    <2>2. TypeOK'
      BY <1>4, <2>1 DEF RecoverWrite, TransitionStatus, EndCall, TypeOK, EventStatus, ruleVars, sourceVars
    <2>3. CallersReady'
      BY <1>4 DEF RecoverWrite, EndCall, TypeOK, CallersReady
    <2>4. Confirmed'
      BY <1>4, <2>1 DEF RecoverWrite, TransitionStatus, EndCall, TypeOK, CallersReady, Confirmed
    <2> QED BY <2>2, <2>3, <2>4
  <1>5. ASSUME NEW e \in Events, NEW healthy \in BOOLEAN, FinalizeRead(h, e, healthy) PROVE TInv'
    BY <1>5 DEF FinalizeRead, StartCall, TypeOK, CallersReady, Confirmed, ruleVars, eventVars, sourceVars
  <1>6. CASE FinalizeWrite(h)
    <2>1. about[h] \in Events /\ recoverer[about[h]]
      BY <1>6 DEF FinalizeWrite, EndCall, CallersReady, Confirmed
    <2>2. TypeOK'
      BY <1>6, <2>1 DEF FinalizeWrite, TransitionStatus, ClearSource, EndCall, TypeOK, EventStatus, ruleVars, sourceVars
    <2>3. CallersReady'
      BY <1>6 DEF FinalizeWrite, EndCall, TypeOK, CallersReady
    <2>4. Confirmed'
      BY <1>6, <2>1 DEF FinalizeWrite, TransitionStatus, ClearSource, EndCall, TypeOK, Confirmed
    <2> QED BY <2>2, <2>3, <2>4
  <1> QED BY <1>1, <1>2, <1>3, <1>4, <1>5, <1>6
          DEF HandlerStep, EvaluateStep, RecoverStep, FinalizeStep

\* A step that changes nothing keeps it.
LEMMA StutterKeeps == ASSUME TInv, UNCHANGED vars PROVE TInv'
  BY DEF TInv, vars, TypeOK, CallersReady, Confirmed, ruleVars, eventVars, sourceVars, handlerVars

\* The invariant holds with the worker tick, and so without it.
THEOREM TickInvariance == TickSpec => []TInv
  <1>1. TInv /\ [TickNext]_vars => TInv'
    <2> SUFFICES ASSUME TInv, [TickNext]_vars PROVE TInv'
      OBVIOUS
    <2>1. CASE AdminStep \/ Environment
      BY <2>1, OutsideKeeps
    <2>2. ASSUME NEW h \in Callers, HandlerStep(h) \/ FinalizeStep(h) PROVE TInv'
      BY <2>2, HandlerKeeps
    <2>3. CASE UNCHANGED vars
      BY <2>3, StutterKeeps
    <2> QED BY <2>1, <2>2, <2>3 DEF TickNext, Next
  <1> QED BY Initially, <1>1, PTL DEF TickSpec

\* No source is enabled again by an event nobody asked to recover.
THEOREM RecoveryIsConfirmed == TickSpec => []ResolvedIsConfirmed
  <1>1. TInv => ResolvedIsConfirmed
    BY DEF TInv, Confirmed, ResolvedIsConfirmed
  <1> QED BY TickInvariance, <1>1, PTL

\* A handler of the running program keeps events and the source's row in line.
LEMMA HandlerKeepsMark ==
  ASSUME TInv, ActiveIsMarked, MarkIsCurrent, NEW h \in Callers, HandlerStep(h)
  PROVE  ActiveIsMarked' /\ MarkIsCurrent'
  <1> USE DEF TInv
  <1>1. ASSUME NEW r \in Rules, EvaluateRead(h, r) PROVE ActiveIsMarked' /\ MarkIsCurrent'
    BY <1>1 DEF EvaluateRead, ActiveIsMarked, MarkIsCurrent, eventVars, sourceVars
  <1>2. ASSUME NEW e \in Events, EvaluateWrite(h, e) PROVE ActiveIsMarked' /\ MarkIsCurrent'
    BY <1>2 DEF EvaluateWrite, AddEvent, MarkSource, Superseded, ActiveForSource, TypeOK, ActiveIsMarked, MarkIsCurrent
  <1>3. ASSUME NEW e \in Events, RecoverRead(h, e) PROVE ActiveIsMarked' /\ MarkIsCurrent'
    BY <1>3 DEF RecoverRead, ActiveIsMarked, MarkIsCurrent, eventVars, sourceVars
  <1>4. CASE RecoverWrite(h)
    <2>1. about[h] \in Events
      BY <1>4 DEF RecoverWrite, EndCall, CallersReady
    <2> QED BY <1>4, <2>1, ConstantsAssumption
            DEF RecoverWrite, TransitionStatus, TypeOK, ActiveIsMarked, MarkIsCurrent, sourceVars
  <1> QED BY <1>1, <1>2, <1>3, <1>4 DEF HandlerStep, EvaluateStep, RecoverStep

\* The running program keeps all of it.
THEOREM Invariance == Spec => [](TInv /\ ActiveIsMarked /\ MarkIsCurrent)
  <1> DEFINE Inv == TInv /\ ActiveIsMarked /\ MarkIsCurrent
  <1>1. Inv /\ [Next]_vars => Inv'
    <2> SUFFICES ASSUME Inv, [Next]_vars PROVE Inv'
      OBVIOUS
    <2>1. CASE AdminStep \/ Environment
      BY <2>1, OutsideKeeps DEF ActiveIsMarked, MarkIsCurrent
    <2>2. ASSUME NEW h \in Callers, HandlerStep(h) PROVE Inv'
      BY <2>2, HandlerKeeps, HandlerKeepsMark
    <2>3. CASE UNCHANGED vars
      BY <2>3, StutterKeeps DEF ActiveIsMarked, MarkIsCurrent, vars, eventVars, sourceVars
    <2> QED BY <2>1, <2>2, <2>3 DEF Next
  <1> HIDE DEF Inv
  <1>2. Init => Inv
    BY Initially DEF Inv
  <1>3. Spec => []Inv
    BY <1>1, <1>2, PTL DEF Spec
  <1> QED BY <1>3 DEF Inv

\* The types, for the program as it runs.
THEOREM TypeCorrect == Spec => []TypeOK
  BY Invariance, PTL DEF TInv

\* At most one active event, and the source's row names it.
THEOREM OneActiveEvent == Spec => []ActiveIsMarked
  BY Invariance, PTL

\* The source's row never names a superseded event.
THEOREM MarkStaysCurrent == Spec => []MarkIsCurrent
  BY Invariance, PTL

=============================================================================
