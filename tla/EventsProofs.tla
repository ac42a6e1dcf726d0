----------------------------- MODULE EventsProofs -----------------------------
(***************************************************************************)
(* Proofs about Events for any sets of ids, jobs, handlers, findings and   *)
(* fields.  The invariant adds to the properties what they rest on: the    *)
(* rows a persist has staged are its own and look like the finding they    *)
(* were built from (Staging), and what a reviewer's handler has read still *)
(* holds of every field nobody raced it for (Readings).                    *)
(***************************************************************************)
EXTENDS Events, TLAPS

\* Ids are allocated once; only a running persist has staged rows, they carry
\* its name and belong to events it may see; an id without a committed row has
\* no override and was never raced for.
Staging ==
    /\ \A j \in Jobs : own[j] \cap events = {}
    /\ \A j, k \in Jobs : j # k => own[j] \cap own[k] = {}
    /\ \A j \in Jobs : phase[j] # "running" => own[j] = {} /\ staged[j] = {}
    /\ \A j \in Jobs : \A o \in staged[j] : o.job = j /\ o.event \in Candidates(j)
    /\ \A o \in observations : o.event \in events
    /\ \A j \in Jobs : \A e \in own[j] : creator[e] = j /\ origin[e] \in Findings
    /\ \A e \in events : creator[e] \in Jobs /\ origin[e] \in Findings
    /\ \A e \in Ids \ events, f \in Fields :
        override[e][f] = NoValue /\ f \notin raced[e] /\ f \notin touched[e]
    /\ \A j \in Jobs : \A e \in own[j], f \in Fields : canonical[e][f] = Said[origin[e]][f]

\* What a handler read of a field it will write is still so, unless raced.
Readings ==
    \A h \in Editors : doing[h] # "idle" =>
        /\ on[h] \in events
        /\ doing[h] # "patch" =>
            \A f \in Fields : wants[h][f] # NoValue => f \in touched[on[h]]
        /\ \A f \in Fields : wants[h][f] # NoValue /\ f \notin raced[on[h]] =>
            /\ doing[h] # "clearing" => saw[h][f] = canonical[on[h]][f]
            /\ doing[h] # "patch" => /\ override[on[h]][f] # NoValue
                                     /\ wants[h][f] = baseline[on[h]][f]

\* A field never overridden shows what the source said.
Untouched ==
    \A e \in events, f \in Fields :
        /\ override[e][f] # NoValue => f \in touched[e]
        /\ f \notin touched[e] => canonical[e][f] = Said[origin[e]][f]

\* Two staged or committed events that are alike: explained, or still to be
\* when the first of their jobs commits.
TwinEvents ==
    \A e, d \in Allocated : e # d /\ Alike(e, d) =>
        \/ creator[d] \in overlap[creator[e]]
        \/ Touched(e)
        \/ Touched(d)
        \/ \E j, k \in Jobs : j # k /\ e \in own[j] /\ d \in own[k]

Rows == observations \cup UNION {staged[j] : j \in Jobs}

\* The same of two equal observations of one event.
TwinObservations ==
    \A o, p \in Rows :
        /\ o # p
        /\ o.event = p.event
        /\ SameObservation(o.finding, p.finding)
        => \/ p.job \in overlap[o.job]
           \/ \E j, k \in Jobs : j # k /\ o \in staged[j] /\ p \in staged[k]

\* A finding taken up is recorded by a row the persist can see.
Ingested ==
    \A j \in Jobs : phase[j] = "running" =>
        \A f \in found[j] \ todo[j] : \E o \in observations \cup staged[j] :
            o.event \in Candidates(j) /\ SameObservation(o.finding, f)

IInv ==
    /\ TypeOK
    /\ Staging
    /\ Readings
    /\ Untouched
    /\ TwinEvents
    /\ TwinObservations
    /\ Ingested
    /\ AllOrNothing
    /\ BaselineKept

\* Everything but the types and the readings speaks of the rows, the sessions
\* and the history only.
Persistent ==
    /\ Staging
    /\ Untouched
    /\ TwinEvents
    /\ TwinObservations
    /\ Ingested
    /\ AllOrNothing
    /\ BaselineKept

\* A step that leaves those alone keeps all of it.
LEMMA HandlersApart ==
  ASSUME Persistent, UNCHANGED <<eventVars, overrideVars, persistVars, historyVars>>
  PROVE  Persistent'
  <1> USE DEF eventVars, overrideVars, persistVars, historyVars
  <1>1. Staging'
    BY DEF Persistent, Staging, Candidates
  <1>2. Untouched' /\ BaselineKept'
    BY DEF Persistent, Untouched, BaselineKept
  <1>3. TwinEvents'
    BY DEF Persistent, TwinEvents, Allocated, Alike, Touched
  <1>4. TwinObservations'
    BY DEF Persistent, TwinObservations, Rows
  <1>5. Ingested' /\ AllOrNothing'
    BY DEF Persistent, Ingested, AllOrNothing, Candidates
  <1> QED BY <1>1, <1>2, <1>3, <1>4, <1>5 DEF Persistent

\* The invariant holds at the start.
LEMMA Initially == Init => IInv
  <1> SUFFICES ASSUME Init PROVE IInv
    OBVIOUS
  <1> USE DEF Init
  <1>1. TypeOK
    BY DEF TypeOK, Columns, Nothing
  <1>2. Staging /\ Readings /\ Untouched
    BY DEF Staging, Readings, Untouched, Nothing
  <1>3. TwinEvents /\ TwinObservations
    BY DEF TwinEvents, TwinObservations, Allocated, Rows
  <1>4. Ingested /\ AllOrNothing /\ BaselineKept
    BY DEF Ingested, AllOrNothing, BaselineKept
  <1> QED BY <1>1, <1>2, <1>3, <1>4 DEF IInv

\* It is kept by a reviewer's handler that reads, or that is lost.
LEMMA ReadKeeps ==
  ASSUME IInv, NEW h \in Editors,
         \/ \E e \in Ids, u \in Updates : PatchRead(h, e, u)
         \/ \E e \in Ids, f \in Fields : ClearRead(h, e, f)
         \/ ClearReadRow(h)
         \/ HandlerLost(h)
  PROVE  IInv'
  <1> USE DEF IInv
  <1>1. ASSUME NEW e \in Ids, NEW u \in Updates, PatchRead(h, e, u) PROVE IInv'
    <2>1. TypeOK'
      BY <1>1 DEF PatchRead, TypeOK, Columns, Updates, eventVars, overrideVars, persistVars, historyVars
    <2>2. Readings'
      BY <1>1 DEF PatchRead, TypeOK, Columns, Readings, eventVars, overrideVars, historyVars
    <2>3. Persistent'
      BY <1>1, HandlersApart DEF PatchRead, Persistent
    <2> QED BY <2>1, <2>2, <2>3 DEF Persistent
  <1>2. ASSUME NEW e \in Ids, NEW f \in Fields, ClearRead(h, e, f) PROVE IInv'
    <2>1. TypeOK'
      BY <1>2 DEF ClearRead, TypeOK, Columns, Nothing, eventVars, overrideVars, persistVars, historyVars
    <2>2. Readings'
      BY <1>2 DEF ClearRead, TypeOK, Columns, Readings, Untouched, Nothing, eventVars, overrideVars, historyVars
    <2>3. Persistent'
      BY <1>2, HandlersApart DEF ClearRead, Persistent
    <2> QED BY <2>1, <2>2, <2>3 DEF Persistent
  <1>3. CASE ClearReadRow(h)
    <2>1. on[h] \in Ids
      BY <1>3 DEF ClearReadRow, Readings, TypeOK, Columns
    <2>2. TypeOK'
      BY <1>3, <2>1 DEF ClearReadRow, TypeOK, Columns, eventVars, overrideVars, persistVars, historyVars
    <2>3. Readings'
      BY <1>3, <2>1 DEF ClearReadRow, TypeOK, Columns, Readings, eventVars, overrideVars, historyVars
    <2>4. Persistent'
      BY <1>3, HandlersApart DEF ClearReadRow, Persistent
    <2> QED BY <2>2, <2>3, <2>4 DEF Persistent
  <1>4. CASE HandlerLost(h)
    <2>1. TypeOK'
      BY <1>4 DEF HandlerLost, Finish, TypeOK, Columns, Nothing, eventVars, overrideVars, persistVars, historyVars
    <2>2. Readings'
      BY <1>4 DEF HandlerLost, Finish, TypeOK, Columns, Readings, eventVars, overrideVars, historyVars
    <2>3. Persistent'
      BY <1>4, HandlersApart DEF HandlerLost, Persistent
    <2> QED BY <2>1, <2>2, <2>3 DEF Persistent
  <1> QED BY <1>1, <1>2, <1>3, <1>4

\* The rows and sessions a handler's write leaves alone.
LEMMA WriteApart ==
  ASSUME IInv,
         UNCHANGED <<events, creator, origin, observations, persistVars, overlap>>,
         \A e \in Ids : touched[e] \subseteq touched'[e]
  PROVE  TwinEvents' /\ TwinObservations' /\ Ingested' /\ AllOrNothing'
  <1> USE DEF persistVars
  <1>1. TwinEvents'
    <2> SUFFICES ASSUME NEW e \in Allocated', NEW d \in Allocated', e # d, Alike(e, d)'
                 PROVE  \/ creator'[d] \in overlap'[creator'[e]]
                        \/ Touched(e)'
                        \/ Touched(d)'
                        \/ \E j, k \in Jobs : j # k /\ e \in own'[j] /\ d \in own'[k]
      BY DEF TwinEvents
    <2>1. e \in Allocated /\ d \in Allocated /\ Alike(e, d)
      BY DEF Allocated, Alike
    <2>2. e \in Ids /\ d \in Ids
      BY <2>1 DEF IInv, TypeOK, Allocated
    <2>3. /\ Touched(e) => Touched(e)'
          /\ Touched(d) => Touched(d)'
      BY <2>2 DEF Touched
    <2> QED BY <2>1, <2>3 DEF IInv, TwinEvents
  <1>2. TwinObservations'
    BY DEF IInv, TwinObservations, Rows
  <1>3. Ingested' /\ AllOrNothing'
    BY DEF IInv, Ingested, AllOrNothing, Candidates
  <1> QED BY <1>1, <1>2, <1>3

\* It is kept by a reviewer's write: a field written that nobody raced for had
\* been read as it is.
LEMMA PatchKeeps ==
  ASSUME IInv, NEW h \in Editors, PatchWrite(h)
  PROVE  IInv'
  <1> DEFINE e == on[h]
  <1>1. e \in events /\ e \in Ids
    BY DEF IInv, PatchWrite, Readings, TypeOK
  <1>2. TypeOK'
    BY <1>1 DEF IInv, PatchWrite, Finish, TypeOK, Columns, Written, Target, RacedFor,
                UpsertedBaseline, Nothing, persistVars
  <1>3. \A d \in Ids \ {e} :
          /\ override'[d] = override[d]
          /\ baseline'[d] = baseline[d]
          /\ canonical'[d] = canonical[d]
          /\ raced'[d] = raced[d]
          /\ touched'[d] = touched[d]
    BY DEF IInv, PatchWrite, TypeOK
  <1>4. \A f \in Fields :
          /\ override'[e][f] = IF f \in Target(h) THEN wants[h][f] ELSE override[e][f]
          /\ baseline'[e][f] = IF f \in Target(h) THEN UpsertedBaseline(h, f) ELSE baseline[e][f]
          /\ canonical'[e][f] = Written(h)[f]
    BY <1>1 DEF IInv, PatchWrite, TypeOK
  <1>5. raced'[e] = raced[e] \cup RacedFor(h) /\ touched'[e] = touched[e] \cup Target(h)
    BY <1>1 DEF IInv, PatchWrite, TypeOK
  <1>6. \A f \in Fields \ Target(h) : canonical'[e][f] = canonical[e][f]
    BY <1>4 DEF Written
  <1>7. \A f \in Target(h) :
          f \notin raced[e] => canonical'[e][f] = wants[h][f] /\ saw[h][f] = canonical[e][f]
    BY <1>4, <1>1 DEF Written, IInv, Readings, PatchWrite, Target
  <1>8. UNCHANGED <<events, creator, origin, observations, persistVars, overlap>>
    BY DEF PatchWrite
  <1>9. Staging'
    <2>1. \A d \in Ids \ events, f \in Fields :
            override'[d][f] = NoValue /\ f \notin raced'[d] /\ f \notin touched'[d]
      BY <1>1, <1>3 DEF IInv, Staging
    <2>2. \A j \in Jobs : \A d \in own[j] : d \in Ids \ {e}
      BY <1>1 DEF IInv, Staging, TypeOK
    <2>3. \A j \in Jobs : \A d \in own[j], f \in Fields :
            canonical'[d][f] = Said[origin[d]][f]
      BY <1>3, <2>2 DEF IInv, Staging
    <2> QED BY <1>8, <2>1, <2>3 DEF IInv, Staging, Candidates, persistVars
  <1>10. Readings'
    <2> SUFFICES ASSUME NEW g \in Editors, doing'[g] # "idle" PROVE Readings!(g)'
      BY DEF Readings
    <2>1. g # h /\ doing'[g] = doing[g] /\ on'[g] = on[g] /\ wants'[g] = wants[g] /\ saw'[g] = saw[g]
      BY DEF IInv, PatchWrite, Finish, TypeOK
    <2>2. \A f \in Fields : on[g] = e /\ wants[g][f] # NoValue /\ f \in Target(h) => f \in raced'[e]
      BY <1>5, <2>1 DEF RacedFor, Target
    <2>3. on[g] \in Ids
      BY <2>1 DEF IInv, Readings, TypeOK
    <2>4. CASE on[g] # e
      BY <1>3, <1>8, <2>1, <2>3, <2>4 DEF IInv, Readings
    <2>5. CASE on[g] = e
      BY <1>4, <1>5, <1>6, <1>8, <2>1, <2>2, <2>5 DEF IInv, Readings
    <2> QED BY <2>4, <2>5
  <1>11. Untouched'
    BY <1>1, <1>3, <1>4, <1>5, <1>6, <1>8 DEF IInv, Untouched, TypeOK
  <1>12. BaselineKept'
    <2> SUFFICES ASSUME NEW d \in events, NEW f \in Fields, f \notin raced'[d]
                 PROVE  IF override'[d][f] = NoValue
                        THEN canonical'[d][f] = Said[origin[d]][f]
                        ELSE /\ canonical'[d][f] = override'[d][f]
                             /\ baseline'[d][f] = Said[origin[d]][f]
      BY <1>8 DEF BaselineKept
    <2>1. d \in Ids
      BY DEF IInv, TypeOK
    <2>2. CASE d # e
      BY <1>3, <2>1, <2>2 DEF IInv, BaselineKept
    <2>3. CASE d = e /\ f \notin Target(h)
      BY <1>4, <1>5, <1>6, <2>3 DEF IInv, BaselineKept
    <2>4. CASE d = e /\ f \in Target(h)
      BY <1>4, <1>5, <1>7, <2>4 DEF IInv, BaselineKept, UpsertedBaseline, Target
    <2> QED BY <2>2, <2>3, <2>4
  <1>13. \A d \in Ids : touched[d] \subseteq touched'[d]
    BY <1>3, <1>5
  <1>14. TwinEvents' /\ TwinObservations' /\ Ingested' /\ AllOrNothing'
    BY <1>8, <1>13, WriteApart
  <1> QED BY <1>2, <1>9, <1>10, <1>11, <1>12, <1>14 DEF IInv

\* And by the write that clears an override.
LEMMA ClearKeeps ==
  ASSUME IInv, NEW h \in Editors, ClearWrite(h)
  PROVE  IInv'
  <1> DEFINE e == on[h]
  <1>1. e \in events /\ e \in Ids
    BY DEF IInv, ClearWrite, Readings, TypeOK
  <1>2. TypeOK'
    BY <1>1 DEF IInv, ClearWrite, Finish, TypeOK, Columns, Written, Target, RacedFor,
                Nothing, persistVars
  <1>3. \A d \in Ids \ {e} :
          /\ override'[d] = override[d]
          /\ baseline'[d] = baseline[d]
          /\ canonical'[d] = canonical[d]
          /\ raced'[d] = raced[d]
          /\ touched'[d] = touched[d]
    BY DEF IInv, ClearWrite, TypeOK
  <1>4. \A f \in Fields :
          /\ override'[e][f] = IF f \in Target(h) THEN NoValue ELSE override[e][f]
          /\ baseline'[e][f] = IF f \in Target(h) THEN NoValue ELSE baseline[e][f]
          /\ canonical'[e][f] = Written(h)[f]
    BY <1>1 DEF IInv, ClearWrite, TypeOK
  <1>5. raced'[e] = raced[e] \cup RacedFor(h) /\ touched'[e] = touched[e]
    BY <1>1 DEF IInv, ClearWrite, TypeOK
  <1>6. \A f \in Fields \ Target(h) : canonical'[e][f] = canonical[e][f]
    BY <1>4 DEF Written
  <1>7. \A f \in Target(h) :
          f \notin raced[e] => canonical'[e][f] = wants[h][f] /\ wants[h][f] = baseline[e][f] /\ override[e][f] # NoValue
    BY <1>4, <1>1 DEF Written, IInv, Readings, ClearWrite, Target
  <1>8. UNCHANGED <<events, creator, origin, observations, persistVars, overlap>>
    BY DEF ClearWrite
  <1>9. Staging'
    <2>1. \A d \in Ids \ events, f \in Fields :
            override'[d][f] = NoValue /\ f \notin raced'[d] /\ f \notin touched'[d]
      BY <1>1, <1>3 DEF IInv, Staging
    <2>2. \A j \in Jobs : \A d \in own[j] : d \in Ids \ {e}
      BY <1>1 DEF IInv, Staging, TypeOK
    <2>3. \A j \in Jobs : \A d \in own[j], f \in Fields :
            canonical'[d][f] = Said[origin[d]][f]
      BY <1>3, <2>2 DEF IInv, Staging
    <2> QED BY <1>8, <2>1, <2>3 DEF IInv, Staging, Candidates, persistVars
  <1>10. Readings'
    <2> SUFFICES ASSUME NEW g \in Editors, doing'[g] # "idle" PROVE Readings!(g)'
      BY DEF Readings
    <2>1. g # h /\ doing'[g] = doing[g] /\ on'[g] = on[g] /\ wants'[g] = wants[g] /\ saw'[g] = saw[g]
      BY DEF IInv, ClearWrite, Finish, TypeOK
    <2>2. \A f \in Fields : on[g] = e /\ wants[g][f] # NoValue /\ f \in Target(h) => f \in raced'[e]
      BY <1>5, <2>1 DEF RacedFor, Target
    <2>3. on[g] \in Ids
      BY <2>1 DEF IInv, Readings, TypeOK
    <2>4. CASE on[g] # e
      BY <1>3, <1>8, <2>1, <2>3, <2>4 DEF IInv, Readings
    <2>5. CASE on[g] = e
      BY <1>4, <1>5, <1>6, <1>8, <2>1, <2>2, <2>5 DEF IInv, Readings
    <2> QED BY <2>4, <2>5
  <1>11. Untouched'
    <2>1. \A f \in Target(h) : f \in touched[e]
      BY DEF IInv, Readings, ClearWrite, Target
    <2> QED BY <1>1, <1>3, <1>4, <1>5, <1>6, <1>8, <2>1 DEF IInv, Untouched, TypeOK
  <1>12. BaselineKept'
    <2> SUFFICES ASSUME NEW d \in events, NEW f \in Fields, f \notin raced'[d]
                 PROVE  IF override'[d][f] = NoValue
                        THEN canonical'[d][f] = Said[origin[d]][f]
                        ELSE /\ canonical'[d][f] = override'[d][f]
                             /\ baseline'[d][f] = Said[origin[d]][f]
      BY <1>8 DEF BaselineKept
    <2>1. d \in Ids
      BY DEF IInv, TypeOK
    <2>2. CASE d # e
      BY <1>3, <2>1, <2>2 DEF IInv, BaselineKept
    <2>3. CASE d = e /\ f \notin Target(h)
      BY <1>4, <1>5, <1>6, <2>3 DEF IInv, BaselineKept
    <2>4. CASE d = e /\ f \in Target(h)
      BY <1>4, <1>5, <1>7, <2>4 DEF IInv, BaselineKept, Target
    <2> QED BY <2>2, <2>3, <2>4
  <1>13. \A d \in Ids : touched[d] \subseteq touched'[d]
    BY <1>3, <1>5
  <1>14. TwinEvents' /\ TwinObservations' /\ Ingested' /\ AllOrNothing'
    BY <1>8, <1>13, WriteApart
  <1> QED BY <1>2, <1>9, <1>10, <1>11, <1>12, <1>14 DEF IInv

\* What a persist's step leaves alone: the overrides and the handlers.
LEMMA OverridesApart ==
  ASSUME IInv, events \subseteq events',
         UNCHANGED <<overrideVars, handlerVars, raced, touched>>,
         \A e \in events : canonical'[e] = canonical[e]
  PROVE  Readings'
  <1> SUFFICES ASSUME NEW h \in Editors, doing'[h] # "idle" PROVE Readings!(h)'
    BY DEF Readings
  <1>1. doing'[h] = doing[h] /\ on'[h] = on[h] /\ wants'[h] = wants[h] /\ saw'[h] = saw[h]
    BY DEF handlerVars
  <1>2. on[h] \in events
    BY <1>1 DEF IInv, Readings
  <1> QED BY <1>1, <1>2 DEF IInv, Readings, overrideVars

\* It is kept by a persist that begins.
LEMMA BeginKeeps ==
  ASSUME IInv, NEW j \in Jobs, NEW fs \in SUBSET Findings, PersistBegin(j, fs)
  PROVE  IInv'
  <1> USE DEF IInv, PersistBegin, eventVars, overrideVars, handlerVars, historyVars
  <1>1. TypeOK'
    BY DEF TypeOK, Columns
  <1>2. Staging'
    BY DEF Staging, Candidates, TypeOK
  <1>3. Readings' /\ Untouched' /\ BaselineKept'
    BY DEF Readings, Untouched, BaselineKept
  <1>4. TwinEvents'
    BY DEF TwinEvents, Allocated, Alike, Touched
  <1>5. TwinObservations'
    BY DEF TwinObservations, Rows
  <1>6. Ingested'
    BY DEF Ingested, Candidates, TypeOK
  <1>7. AllOrNothing'
    BY DEF AllOrNothing, TypeOK, Observations, Staging
  <1> QED BY <1>1, <1>2, <1>3, <1>4, <1>5, <1>6, <1>7

\* It is kept by a finding that is recorded already.
LEMMA SkipKeeps ==
  ASSUME IInv, NEW j \in Jobs, NEW f \in Findings, SkipFinding(j, f)
  PROVE  IInv'
  <1> USE DEF IInv, SkipFinding, TakeUp, eventVars, overrideVars, handlerVars, historyVars
  <1>1. TypeOK'
    BY DEF TypeOK, Columns
  <1>2. Staging'
    BY DEF Staging, Candidates, TypeOK
  <1>3. Readings' /\ Untouched' /\ BaselineKept'
    BY DEF Readings, Untouched, BaselineKept
  <1>4. TwinEvents'
    BY DEF TwinEvents, Allocated, Alike, Touched
  <1>5. TwinObservations'
    BY DEF TwinObservations, Rows
  <1>6. Ingested'
    <2>1. PICK e \in Matches(j, f) : \E o \in Recorded(j, e, f) : Recorded(j, e, f) = {o}
      OBVIOUS
    <2>2. PICK o \in observations \cup staged[j] : o.event = e /\ SameObservation(o.finding, f)
      BY <2>1 DEF Recorded
    <2>3. o.event \in Candidates(j)
      BY <2>1, <2>2 DEF Matches
    <2>4. \A k \in Jobs : todo'[k] = IF k = j THEN todo[j] \ {f} ELSE todo[k]
      BY DEF TypeOK
    <2> QED BY <2>2, <2>3, <2>4 DEF Ingested, Candidates
  <1>7. AllOrNothing'
    BY DEF AllOrNothing
  <1> QED BY <1>1, <1>2, <1>3, <1>4, <1>5, <1>6, <1>7

\* It is kept by an observation added to a matching event: nobody saw an equal
\* one, so an equal one is staged by another persist.
LEMMA MergeKeeps ==
  ASSUME IInv, NEW j \in Jobs, NEW f \in Findings, MergeFinding(j, f)
  PROVE  IInv'
  <1>1. PICK e \in Matches(j, f) :
          /\ Recorded(j, e, f) = {}
          /\ staged' = [staged EXCEPT ![j] = @ \cup {[event |-> e, finding |-> f, job |-> j]}]
    BY DEF MergeFinding
  <1> DEFINE new == [event |-> e, finding |-> f, job |-> j]
  <1>2. e \in Candidates(j) /\ e \in Ids
    BY <1>1 DEF Matches, Candidates, IInv, TypeOK
  <1>3. /\ new \in Observations
        /\ new.event = e /\ new.finding = f /\ new.job = j
    BY <1>2 DEF Observations
  <1> HIDE DEF new
  <1>4. \A k \in Jobs : staged'[k] = IF k = j THEN staged[j] \cup {new} ELSE staged[k]
    BY <1>1 DEF IInv, TypeOK, new
  <1>5. \A k \in Jobs : todo'[k] = IF k = j THEN todo[j] \ {f} ELSE todo[k]
    BY DEF MergeFinding, TakeUp, IInv, TypeOK
  <1>6. /\ UNCHANGED <<eventVars, overrideVars, phase, found, own, handlerVars, historyVars>>
        /\ phase[j] = "running"
    BY DEF MergeFinding, TakeUp
  <1>7. TypeOK'
    <2>1. staged' \in [Jobs -> SUBSET Observations]
      BY <1>1, <1>3 DEF IInv, TypeOK, new
    <2> QED BY <2>1, <1>6 DEF IInv, TypeOK, MergeFinding, TakeUp, eventVars, overrideVars, handlerVars, historyVars
  <1>8. Staging'
    BY <1>2, <1>3, <1>4, <1>6 DEF IInv, Staging, Candidates, eventVars, overrideVars, historyVars
  <1>9. Readings' /\ Untouched' /\ BaselineKept'
    BY <1>6 DEF IInv, Readings, Untouched, BaselineKept, eventVars, overrideVars, handlerVars, historyVars
  <1>10. TwinEvents'
    BY <1>6 DEF IInv, TwinEvents, Allocated, Alike, Touched, eventVars, historyVars
  <1>11. TwinObservations'
    <2>1. Rows' = Rows \cup {new}
      BY <1>4, <1>6 DEF Rows, eventVars
    <2>2. \A o \in Rows :
            o.event = e /\ SameObservation(o.finding, f)
            => \E k \in Jobs : k # j /\ o \in staged[k]
      BY <1>1 DEF Recorded, Rows
    <2>3. new \in staged'[j]
      BY <1>4
    <2>4. \A o \in Rows : SameObservation(o.finding, f) <=> SameObservation(f, o.finding)
      BY DEF SameObservation
    <2>5. ASSUME NEW o \in Rows, NEW p \in Rows, o # p, o.event = p.event,
                 SameObservation(o.finding, p.finding)
          PROVE  \/ p.job \in overlap'[o.job]
                 \/ \E k, l \in Jobs : k # l /\ o \in staged'[k] /\ p \in staged'[l]
      BY <2>5, <1>4, <1>6 DEF IInv, TwinObservations, historyVars
    <2>6. ASSUME NEW o \in Rows, o # new, o.event = new.event,
                 SameObservation(o.finding, new.finding) \/ SameObservation(new.finding, o.finding)
          PROVE  \E k \in Jobs : k # j /\ o \in staged'[k]
      BY <2>6, <2>2, <2>4, <1>3, <1>4
    <2> QED BY <2>1, <2>3, <2>5, <2>6 DEF TwinObservations
  <1>12. Ingested'
    <2>1. SameObservation(f, f)
      BY DEF SameObservation
    <2> QED BY <2>1, <1>2, <1>3, <1>4, <1>5, <1>6 DEF IInv, Ingested, Candidates, eventVars
  <1>13. AllOrNothing'
    BY <1>6 DEF IInv, AllOrNothing, eventVars
  <1> QED BY <1>7, <1>8, <1>9, <1>10, <1>11, <1>12, <1>13 DEF IInv

\* An event that looks as its finding said is matched by every finding alike.
LEMMA UntouchedMatches ==
  ASSUME IInv, NEW j \in Jobs, NEW f \in Findings, NEW d \in Candidates(j), ~Touched(d),
         \/ SameEvent(Said[origin[d]]["title"], Said[origin[d]]["source_url"], f)
         \/ SameEvent(Said[f]["title"], Said[f]["source_url"], origin[d])
  PROVE  d \in Matches(j, f)
  <1>1. \A m \in MatchedFields : canonical[d][m] = Said[origin[d]][m]
    <2>1. CASE d \in events
      BY <2>1, ConstantsAssumption DEF Touched, IInv, Untouched
    <2>2. CASE d \in own[j]
      BY <2>2, ConstantsAssumption DEF IInv, Staging
    <2> QED BY <2>1, <2>2 DEF Candidates
  <1> QED BY <1>1 DEF Matches, SameEvent, MatchedFields

\* It is kept by an event created: it matched none the persist could see.
LEMMA CreateKeeps ==
  ASSUME IInv, NEW j \in Jobs, NEW f \in Findings, CreateEvent(j, f)
  PROVE  IInv'
  <1>1. PICK e \in Ids \ Allocated :
          /\ own' = [own EXCEPT ![j] = @ \cup {e}]
          /\ creator' = [creator EXCEPT ![e] = j]
          /\ origin' = [origin EXCEPT ![e] = f]
          /\ canonical' = [canonical EXCEPT ![e] = Said[f]]
          /\ staged' = [staged EXCEPT ![j] = @ \cup {[event |-> e, finding |-> f, job |-> j]}]
    BY DEF CreateEvent
  <1> DEFINE new == [event |-> e, finding |-> f, job |-> j]
  <1>2. /\ new \in Observations
        /\ new.event = e /\ new.finding = f /\ new.job = j
    BY DEF Observations
  <1> HIDE DEF new
  <1>3. \A k \in Jobs : /\ staged'[k] = IF k = j THEN staged[j] \cup {new} ELSE staged[k]
                        /\ own'[k] = IF k = j THEN own[j] \cup {e} ELSE own[k]
    BY <1>1 DEF IInv, TypeOK, new
  <1>4. \A k \in Jobs : todo'[k] = IF k = j THEN todo[j] \ {f} ELSE todo[k]
    BY DEF CreateEvent, TakeUp, IInv, TypeOK
  <1>5. /\ UNCHANGED <<events, observations, overrideVars, phase, found, handlerVars, historyVars>>
        /\ phase[j] = "running"
        /\ Matches(j, f) = {}
    BY DEF CreateEvent, TakeUp
  <1>6. /\ creator'[e] = j /\ origin'[e] = f /\ canonical'[e] = Said[f]
        /\ \A d \in Ids \ {e} : /\ creator'[d] = creator[d]
                                /\ origin'[d] = origin[d]
                                /\ canonical'[d] = canonical[d]
    BY <1>1 DEF IInv, TypeOK
  <1>7. /\ e \notin events
        /\ \A k \in Jobs : e \notin own[k]
        /\ events \subseteq Ids \ {e}
        /\ \A k \in Jobs : own[k] \subseteq Ids \ {e}
    BY <1>1 DEF Allocated, IInv, TypeOK
  <1>8. TypeOK'
    <2>1. staged' \in [Jobs -> SUBSET Observations]
      BY <1>1, <1>2 DEF IInv, TypeOK, new
    <2>2. canonical' \in [Ids -> Columns]
      BY <1>1, ConstantsAssumption DEF IInv, TypeOK, Columns
    <2>3. /\ own' \in [Jobs -> SUBSET Ids]
          /\ creator' \in [Ids -> Jobs \cup {NoJob}]
          /\ origin' \in [Ids -> Findings \cup {NoFinding}]
      BY <1>1 DEF IInv, TypeOK
    <2> QED BY <2>1, <2>2, <2>3, <1>5 DEF IInv, TypeOK, CreateEvent, TakeUp, overrideVars, handlerVars, historyVars
  <1>9. Staging'
    <2>1. \A k, l \in Jobs : k # l => own'[k] \cap own'[l] = {}
      BY <1>3, <1>7 DEF IInv, Staging
    <2>2. \A k \in Jobs : own'[k] \cap events = {}
      BY <1>3, <1>7 DEF IInv, Staging
    <2>3. \A k \in Jobs : \A o \in staged'[k] : o.job = k /\ o.event \in events \cup own'[k]
      BY <1>2, <1>3 DEF IInv, Staging, Candidates
    <2>4. \A k \in Jobs : \A d \in own'[k] : creator'[d] = k /\ origin'[d] \in Findings
      BY <1>3, <1>6, <1>7 DEF IInv, Staging
    <2>5. \A d \in events : creator'[d] \in Jobs /\ origin'[d] \in Findings
      BY <1>6, <1>7 DEF IInv, Staging
    <2>6. \A k \in Jobs : \A d \in own'[k], g \in Fields : canonical'[d][g] = Said[origin'[d]][g]
      BY <1>3, <1>6, <1>7 DEF IInv, Staging
    <2>7. \A k \in Jobs : phase[k] # "running" => own'[k] = {} /\ staged'[k] = {}
      BY <1>3, <1>5 DEF IInv, Staging
    <2> QED BY <2>1, <2>2, <2>3, <2>4, <2>5, <2>6, <2>7, <1>5
            DEF IInv, Staging, Candidates, overrideVars, historyVars
  <1>10. Readings'
    BY <1>5, <1>6, <1>7, OverridesApart DEF historyVars
  <1>11. Untouched' /\ BaselineKept'
    BY <1>5, <1>6, <1>7 DEF IInv, Untouched, BaselineKept, overrideVars, historyVars
  <1>12. TwinEvents'
    <2>1. Allocated' = Allocated \cup {e} /\ Allocated \subseteq Ids \ {e}
      BY <1>3, <1>5, <1>7 DEF Allocated
    <2>2. \A d \in Ids : Touched(d)' <=> Touched(d)
      BY <1>5 DEF Touched, historyVars
    <2>3. ASSUME NEW c \in Allocated, NEW d \in Allocated, c # d, Alike(c, d)'
          PROVE  \/ creator'[d] \in overlap'[creator'[c]]
                 \/ Touched(c)'
                 \/ Touched(d)'
                 \/ \E k, l \in Jobs : k # l /\ c \in own'[k] /\ d \in own'[l]
      <3>1. Alike(c, d)
        BY <2>1, <2>3, <1>6 DEF Alike
      <3>2. /\ creator'[c] = creator[c] /\ creator'[d] = creator[d] /\ overlap' = overlap
            /\ c \in Ids /\ d \in Ids
        BY <2>1, <1>5, <1>6 DEF historyVars
      <3> QED BY <3>1, <3>2, <2>2, <2>3, <1>3 DEF IInv, TwinEvents
    <2>4. ASSUME NEW d \in Allocated, Alike(e, d)' \/ Alike(d, e)'
          PROVE  Touched(d)' \/ \E k \in Jobs : k # j /\ d \in own'[k]
      <3>1. d \in Ids /\ origin'[d] = origin[d]
        BY <2>1, <1>6
      <3>2. \/ SameEvent(Said[origin[d]]["title"], Said[origin[d]]["source_url"], f)
            \/ SameEvent(Said[f]["title"], Said[f]["source_url"], origin[d])
        BY <2>4, <3>1, <1>6 DEF Alike
      <3>3. CASE d \in Candidates(j)
        BY <3>1, <3>2, <3>3, <2>2, <1>5, UntouchedMatches
      <3>4. CASE d \notin Candidates(j)
        BY <3>4, <1>3 DEF Candidates, Allocated
      <3> QED BY <3>3, <3>4
    <2>5. e \in own'[j]
      BY <1>3
    <2> QED BY <2>1, <2>3, <2>4, <2>5 DEF TwinEvents
  <1>13. TwinObservations'
    <2>1. Rows' = Rows \cup {new}
      BY <1>3, <1>5 DEF Rows
    <2>2. \A o \in Rows : o.event # e
      BY <1>7 DEF Rows, IInv, Staging, Candidates
    <2>3. ASSUME NEW o \in Rows, NEW p \in Rows, o # p, o.event = p.event,
                 SameObservation(o.finding, p.finding)
          PROVE  \/ p.job \in overlap'[o.job]
                 \/ \E k, l \in Jobs : k # l /\ o \in staged'[k] /\ p \in staged'[l]
      BY <2>3, <1>3, <1>5 DEF IInv, TwinObservations, historyVars
    <2> QED BY <2>1, <2>2, <2>3, <1>2 DEF TwinObservations
  <1>14. Ingested'
    <2>1. SameObservation(f, f)
      BY DEF SameObservation
    <2> QED BY <2>1, <1>2, <1>3, <1>4, <1>5 DEF IInv, Ingested, Candidates
  <1>15. AllOrNothing'
    BY <1>5, <1>6, <1>7 DEF IInv, AllOrNothing
  <1> QED BY <1>8, <1>9, <1>10, <1>11, <1>12, <1>13, <1>14, <1>15 DEF IInv

\* It is kept by a commit: whoever still has rows staged runs, and is noted as
\* overlapping.
LEMMA CommitKeeps ==
  ASSUME IInv, NEW j \in Jobs, PersistCommit(j)
  PROVE  IInv'
  <1>1. /\ UNCHANGED <<creator, origin, canonical, overrideVars, found, handlerVars, raced, touched>>
        /\ events' = events \cup own[j]
        /\ observations' = observations \cup staged[j]
        /\ phase[j] = "running"
        /\ todo[j] = {}
    BY DEF PersistCommit, PersistReady
  <1>2. \A k \in Jobs :
          /\ phase'[k] = IF k = j THEN "done" ELSE phase[k]
          /\ todo'[k] = IF k = j THEN {} ELSE todo[k]
          /\ own'[k] = IF k = j THEN {} ELSE own[k]
          /\ staged'[k] = IF k = j THEN {} ELSE staged[k]
    BY DEF PersistCommit, IInv, TypeOK
  <1>3. /\ \A k \in Jobs : overlap[k] \subseteq overlap'[k]
        /\ \A k \in Running \ {j} : j \in overlap'[k] /\ k \in overlap'[j]
    BY DEF PersistCommit, IInv, TypeOK, Running
  <1>4. TypeOK'
    <2>1. overlap' \in [Jobs -> SUBSET Jobs]
      BY DEF PersistCommit, IInv, TypeOK, Running
    <2> QED BY <2>1 DEF PersistCommit, IInv, TypeOK, overrideVars, handlerVars
  <1>5. Staging'
    <2>1. own[j] \subseteq Ids /\ events \subseteq events'
      BY <1>1 DEF IInv, TypeOK
    <2>2. \A k \in Jobs : \A o \in staged'[k] : o.job = k /\ o.event \in events' \cup own'[k]
      BY <1>1, <1>2 DEF IInv, Staging, Candidates
    <2>3. \A o \in observations' : o.event \in events'
      BY <1>1 DEF IInv, Staging, Candidates
    <2>4. \A k \in Jobs : own'[k] \cap events' = {}
      BY <1>1, <1>2 DEF IInv, Staging
    <2>5. \A e \in events' : creator[e] \in Jobs /\ origin[e] \in Findings
      BY <1>1 DEF IInv, Staging
    <2>6. /\ \A k, l \in Jobs : k # l => own'[k] \cap own'[l] = {}
          /\ \A k \in Jobs : phase'[k] # "running" => own'[k] = {} /\ staged'[k] = {}
          /\ \A k \in Jobs : \A e \in own'[k] : creator[e] = k /\ origin[e] \in Findings
          /\ \A k \in Jobs : \A e \in own'[k], f \in Fields : canonical[e][f] = Said[origin[e]][f]
      BY <1>2 DEF IInv, Staging
    <2> QED BY <1>1, <2>1, <2>2, <2>3, <2>4, <2>5, <2>6 DEF IInv, Staging, Candidates, overrideVars
  <1>6. Readings'
    BY <1>1, OverridesApart
  <1>7. Untouched' /\ BaselineKept'
    <2>1. \A e \in own[j], f \in Fields :
            /\ override[e][f] = NoValue
            /\ canonical[e][f] = Said[origin[e]][f]
      BY DEF IInv, Staging, TypeOK
    <2> QED BY <1>1, <2>1 DEF IInv, Untouched, BaselineKept, overrideVars
  <1>8. TwinEvents'
    <2> SUFFICES ASSUME NEW e \in Allocated', NEW d \in Allocated', e # d, Alike(e, d)'
                 PROVE  \/ creator[d] \in overlap'[creator[e]]
                        \/ Touched(e)'
                        \/ Touched(d)'
                        \/ \E k, l \in Jobs : k # l /\ e \in own'[k] /\ d \in own'[l]
      BY <1>1 DEF TwinEvents
    <2>1. e \in Allocated /\ d \in Allocated /\ Alike(e, d)
      BY <1>1, <1>2 DEF Allocated, Alike
    <2>2. /\ Touched(e)' <=> Touched(e)
          /\ Touched(d)' <=> Touched(d)
      BY <1>1 DEF Touched
    <2>3. CASE creator[d] \in overlap[creator[e]]
      <3>1. creator[e] \in Jobs
        BY <2>1 DEF Allocated, IInv, Staging
      <3> QED BY <2>3, <3>1, <1>3
    <2>4. ASSUME NEW k \in Jobs, NEW l \in Jobs, k # l, e \in own[k], d \in own[l]
          PROVE  \/ creator[d] \in overlap'[creator[e]]
                 \/ \E m, n \in Jobs : m # n /\ e \in own'[m] /\ d \in own'[n]
      <3>1. creator[e] = k /\ creator[d] = l /\ k \in Running /\ l \in Running
        BY <2>4 DEF IInv, Staging, Running
      <3>2. CASE k = j \/ l = j
        BY <3>1, <3>2, <2>4, <1>3
      <3>3. CASE k # j /\ l # j
        BY <3>3, <2>4, <1>2
      <3> QED BY <3>2, <3>3
    <2> QED BY <2>1, <2>2, <2>3, <2>4 DEF IInv, TwinEvents
  <1>9. TwinObservations'
    <2>1. Rows' = Rows
      BY <1>1, <1>2 DEF Rows
    <2> SUFFICES ASSUME NEW o \in Rows, NEW p \in Rows, o # p, o.event = p.event,
                        SameObservation(o.finding, p.finding)
                 PROVE  \/ p.job \in overlap'[o.job]
                        \/ \E k, l \in Jobs : k # l /\ o \in staged'[k] /\ p \in staged'[l]
      BY <2>1 DEF TwinObservations
    <2>2. CASE p.job \in overlap[o.job]
      <3>1. o.job \in Jobs
        BY DEF Rows, IInv, TypeOK, Observations
      <3> QED BY <2>2, <3>1, <1>3
    <2>3. ASSUME NEW k \in Jobs, NEW l \in Jobs, k # l, o \in staged[k], p \in staged[l]
          PROVE  \/ p.job \in overlap'[o.job]
                 \/ \E m, n \in Jobs : m # n /\ o \in staged'[m] /\ p \in staged'[n]
      <3>1. o.job = k /\ p.job = l /\ k \in Running /\ l \in Running
        BY <2>3 DEF IInv, Staging, Running
      <3>2. CASE k = j \/ l = j
        BY <3>1, <3>2, <2>3, <1>3
      <3>3. CASE k # j /\ l # j
        BY <3>3, <2>3, <1>2
      <3> QED BY <3>2, <3>3
    <2> QED BY <2>2, <2>3 DEF IInv, TwinObservations
  <1>10. Ingested'
    BY <1>1, <1>2 DEF IInv, Ingested, Candidates
  <1>11. AllOrNothing'
    <2>1. \A f \in found[j] : \E o \in observations' :
            o.event \in events' /\ SameObservation(o.finding, f)
      BY <1>1 DEF IInv, Ingested, Candidates
    <2>2. \A o \in observations' : phase'[o.job] = "done"
      BY <1>1, <1>2 DEF IInv, AllOrNothing, Staging, TypeOK, Observations
    <2>3. \A e \in events' : phase'[creator[e]] = "done"
      BY <1>1, <1>2 DEF IInv, AllOrNothing, Staging
    <2>4. \A k \in Jobs \ {j} : phase'[k] = "done" =>
            \A f \in found[k] : \E o \in observations' :
              o.event \in events' /\ SameObservation(o.finding, f)
      BY <1>1, <1>2 DEF IInv, AllOrNothing
    <2> QED BY <1>1, <2>1, <2>2, <2>3, <2>4 DEF AllOrNothing
  <1> QED BY <1>4, <1>5, <1>6, <1>7, <1>8, <1>9, <1>10, <1>11 DEF IInv

\* It is kept by a persist that is rolled back.
LEMMA FailKeeps ==
  ASSUME IInv, NEW j \in Jobs, PersistFails(j)
  PROVE  IInv'
  <1>1. /\ UNCHANGED <<events, observations, overrideVars, found, handlerVars, historyVars>>
        /\ phase[j] = "running"
    BY DEF PersistFails
  <1>2. \A k \in Jobs :
          /\ phase'[k] = IF k = j THEN "failed" ELSE phase[k]
          /\ todo'[k] = IF k = j THEN {} ELSE todo[k]
          /\ own'[k] = IF k = j THEN {} ELSE own[k]
          /\ staged'[k] = IF k = j THEN {} ELSE staged[k]
    BY DEF PersistFails, IInv, TypeOK
  <1>3. \A e \in Ids \ own[j] : /\ creator'[e] = creator[e]
                                /\ origin'[e] = origin[e]
                                /\ canonical'[e] = canonical[e]
    BY DEF PersistFails
  <1>4. TypeOK'
    <2>1. /\ creator' \in [Ids -> Jobs \cup {NoJob}]
          /\ origin' \in [Ids -> Findings \cup {NoFinding}]
      BY DEF PersistFails, IInv, TypeOK
    <2>2. canonical' \in [Ids -> Columns]
      BY DEF PersistFails, IInv, TypeOK, Columns, Nothing
    <2> QED BY <2>1, <2>2 DEF PersistFails, IInv, TypeOK, overrideVars, handlerVars, historyVars
  <1>5. /\ events \subseteq Ids \ own[j]
        /\ \A k \in Jobs \ {j} : own[k] \subseteq Ids \ own[j]
    BY DEF IInv, TypeOK, Staging
  <1>6. Staging'
    <2>1. \A k \in Jobs : \A e \in own'[k] : /\ creator'[e] = k
                                             /\ origin'[e] \in Findings
                                             /\ \A f \in Fields : canonical'[e][f] = Said[origin'[e]][f]
      BY <1>2, <1>3, <1>5 DEF IInv, Staging
    <2>2. \A e \in events : creator'[e] \in Jobs /\ origin'[e] \in Findings
      BY <1>3, <1>5 DEF IInv, Staging
    <2>3. \A k \in Jobs : \A o \in staged'[k] : o.job = k /\ o.event \in events \cup own'[k]
      BY <1>2 DEF IInv, Staging, Candidates
    <2> QED BY <1>1, <1>2, <2>1, <2>2, <2>3 DEF IInv, Staging, Candidates, overrideVars, historyVars
  <1>7. Readings'
    BY <1>1, <1>3, <1>5, OverridesApart DEF historyVars
  <1>8. Untouched' /\ BaselineKept'
    BY <1>1, <1>3, <1>5 DEF IInv, Untouched, BaselineKept, overrideVars, historyVars
  <1>9. TwinEvents'
    <2>1. Allocated' \subseteq Allocated \cap (Ids \ own[j])
      BY <1>1, <1>2, <1>5 DEF Allocated
    <2>2. \A e \in Ids : Touched(e)' <=> Touched(e)
      BY <1>1 DEF Touched, historyVars
    <2> SUFFICES ASSUME NEW e \in Allocated', NEW d \in Allocated', e # d, Alike(e, d)'
                 PROVE  \/ creator'[d] \in overlap'[creator'[e]]
                        \/ Touched(e)'
                        \/ Touched(d)'
                        \/ \E k, l \in Jobs : k # l /\ e \in own'[k] /\ d \in own'[l]
      BY DEF TwinEvents
    <2>3. /\ e \in Allocated /\ e \in Ids \ own[j]
          /\ d \in Allocated /\ d \in Ids \ own[j]
      BY <2>1
    <2>4. Alike(e, d)
      BY <2>3, <1>3 DEF Alike
    <2>5. /\ creator'[e] = creator[e] /\ creator'[d] = creator[d]
          /\ overlap' = overlap
      BY <2>3, <1>1, <1>3 DEF historyVars
    <2> QED BY <2>2, <2>3, <2>4, <2>5, <1>2 DEF IInv, TwinEvents
  <1>10. TwinObservations'
    <2>1. \A o \in Rows' : o \in Rows /\ (o \in staged[j] => o \in Rows')
      BY <1>1, <1>2 DEF Rows
    <2>2. \A k \in Jobs \ {j} : staged'[k] = staged[k]
      BY <1>2
    <2>3. \A o \in Rows' : o \notin staged[j]
      BY <1>1, <1>2 DEF Rows, IInv, Staging, AllOrNothing
    <2> QED BY <2>1, <2>2, <2>3, <1>1 DEF IInv, TwinObservations, historyVars
  <1>11. Ingested'
    BY <1>1, <1>2 DEF IInv, Ingested, Candidates
  <1>12. AllOrNothing'
    BY <1>1, <1>2, <1>3, <1>5 DEF IInv, AllOrNothing, Staging, TypeOK, Observations
  <1> QED BY <1>4, <1>6, <1>7, <1>8, <1>9, <1>10, <1>11, <1>12 DEF IInv

\* It is kept by a stuttering step.
LEMMA StutterKeeps == IInv /\ UNCHANGED vars => IInv'
  <1> SUFFICES ASSUME IInv, UNCHANGED vars PROVE IInv'
    OBVIOUS
  <1>1. TypeOK'
    BY DEF IInv, TypeOK, Columns, vars, eventVars, overrideVars, persistVars, handlerVars, historyVars
  <1>2. Readings'
    BY DEF IInv, Readings, vars, eventVars, overrideVars, handlerVars, historyVars
  <1>3. Persistent'
    BY HandlersApart DEF IInv, Persistent, vars
  <1> QED BY <1>1, <1>2, <1>3 DEF IInv, Persistent

\* The invariant, of every behaviour.
THEOREM Invariance == Spec => []IInv
  <1>1. IInv /\ [Next]_vars => IInv'
    <2> SUFFICES ASSUME IInv, [Next]_vars PROVE IInv'
      OBVIOUS
    <2>1. ASSUME NEW j \in Jobs, PersistStep(j) PROVE IInv'
      BY <2>1, BeginKeeps, SkipKeeps, MergeKeeps, CreateKeeps, CommitKeeps, FailKeeps DEF PersistStep
    <2>2. ASSUME NEW h \in Editors, HandlerStep(h) PROVE IInv'
      BY <2>2, ReadKeeps, PatchKeeps, ClearKeeps DEF HandlerStep
    <2>3. CASE UNCHANGED vars
      BY <2>3, StutterKeeps
    <2> QED BY <2>1, <2>2, <2>3 DEF Next
  <1> HIDE DEF IInv
  <1> QED BY Initially, <1>1, PTL DEF Spec

\* Every column and session has a value of its kind.
THEOREM TypeCorrect == Spec => []TypeOK
  BY Invariance, PTL DEF IInv

\* A job's findings are recorded all together or not at all.
THEOREM PersistIsAtomic == Spec => []AllOrNothing
  BY Invariance, PTL DEF IInv

\* Twin events and observations come from jobs that overlapped, or from edits
\* of the fields the deduplication compares.
THEOREM DeduplicationHolds == Spec => []TwinsExplained
  <1>1. IInv => TwinsExplained
    <2> SUFFICES ASSUME IInv PROVE TwinsExplained
      OBVIOUS
    <2>1. ASSUME NEW e \in events, NEW d \in events, e # d, Alike(e, d)
          PROVE  creator[d] \in overlap[creator[e]] \/ Touched(e) \/ Touched(d)
      BY <2>1 DEF IInv, TwinEvents, Allocated, Staging
    <2>2. ASSUME NEW o \in observations, NEW p \in observations, o # p, o.event = p.event,
                 SameObservation(o.finding, p.finding)
          PROVE  p.job \in overlap[o.job]
      BY <2>2 DEF IInv, TwinObservations, Rows, Staging, AllOrNothing
    <2> QED BY <2>1, <2>2 DEF TwinsExplained
  <1> QED BY Invariance, <1>1, PTL

\* Overrides show, and keep the source's value, unless two reviewers raced.
THEOREM OverridesKeepBaseline == Spec => []BaselineKept
  BY Invariance, PTL DEF IInv

=============================================================================
