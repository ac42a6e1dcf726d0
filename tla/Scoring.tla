-------------------------------- MODULE Scoring --------------------------------
(***************************************************************************)
(* Scores of a campaign's events and the weights they are calculated with: *)
(* the worker's scoring after a discovery job, rescoring by a user, edits  *)
(* of the weights and suggestions to change them (ScoringService,          *)
(* sync_score, ScoringSuggestionService and their repositories).           *)
(*                                                                         *)
(* The weights are one number: what a suggestion may move at most is 1.    *)
(***************************************************************************)
EXTENDS Requests, Integers, FiniteSets

CONSTANTS
    ScoredEvents,  \* ids of the campaign's events
    Suggestions,   \* ids of suggestion sets
    TopWeight,     \* bound of the model: weights are 0 .. TopWeight
    MaxScores      \* bound of the model: score rows that are inserted

ASSUME ScoringAssumption ==
    TopWeight \in Nat /\ MaxScores \in Nat /\ IsFiniteSet(ScoredEvents)

VARIABLES
    weights,       \* campaigns.scoring_weights_json
    current,       \* rows of event_scores that are not superseded, by event
    inserted,      \* score rows inserted so far
    decision,      \* status of a suggestion set, none before it is generated
    proposed,      \* its proposed weights
    doubled,       \* a request wrote over what it had not seen
    edited,        \* requests that score with weights that were edited since
    dated          \* ids of scores that are calculated with such weights

scoringRows == <<weights, current, inserted, decision, proposed, doubled, edited, dated>>
scoringVars == <<scoringRows, requestVars>>

Weights == 0 .. TopWeight
ScoreRows == [id : 1 .. MaxScores, weights : Weights]

ScoringInit ==
    /\ weights \in Weights
    /\ current = [e \in ScoredEvents |-> {}]
    /\ inserted = 0
    /\ decision = [s \in Suggestions |-> "none"]
    /\ proposed = [s \in Suggestions |-> 0]
    /\ doubled = FALSE
    /\ edited = {}
    /\ dated = {}
    /\ NoRequests

\* A request that has changed these commits: one that has read them is stale.
CommitScoring(h, changed) ==
    /\ doubled' = (doubled \/ stale[h])
    /\ req' = [req EXCEPT ![h] = Idle]
    /\ stale' = [x \in Handlers |->
                    /\ x # h
                    /\ req[x] # Idle
                    /\ stale[x] \/ req[x].reads \cap changed # {}]

\* What a request is about that has read the weights to score with.
ScoringOps == {"rescore", "rescore_looked", "score_all", "score_all_looked"}

\* The weights are written: the scores there are, and those that are being
\* calculated, are of earlier weights.
EditWeights(w) ==
    /\ weights' = w
    /\ edited' = {x \in Handlers : req[x].op \in ScoringOps}
    /\ dated' = 1 .. inserted

\* Scores are added with the weights the request has read.
AddScores(h, n) ==
    /\ inserted + n <= MaxScores
    /\ inserted' = inserted + n
    /\ dated' = dated \cup {i \in inserted + 1 .. inserted' : h \in edited}
    /\ edited' = edited \ {h}

-----------------------------------------------------------------------------
(* Scores. *)

\* Seeded fault: the scores there were are not superseded.
AppendScore_KeepsOld(rows, seen, i, w) == rows \cup {[id |-> i, weights |-> w]}

\* Seeded fault: an event that was scored before keeps its weights.
AppendScore_OldWeights(rows, seen, i, w) ==
    (rows \ seen) \cup {[id |-> i, weights |-> IF seen = {} THEN w
                                              ELSE (CHOOSE x \in seen : TRUE).weights]}

\* append_score and _append_score_sync: the current scores that were seen are
\* superseded by one with the weights that were read.
AppendScore(rows, seen, i, w) == (rows \ seen) \cup {[id |-> i, weights |-> w]}

\* A request that has read the campaign reads the current scores of event e.
Look(h, op, e) ==
    /\ req' = [req EXCEPT ![h] = [op |-> op, reads |-> {e}, event |-> e,
                                 weights |-> req[h].weights, seen |-> current[e]]]
    /\ stale' = [stale EXCEPT ![h] = FALSE]
    /\ UNCHANGED scoringRows

\* POST /events/{id}/rescore reads event and campaign, ...
RescoreRead(h, e) ==
    /\ Begin(h, [op |-> "rescore", reads |-> {}, event |-> e, weights |-> weights])
    /\ UNCHANGED scoringRows

\* ... then the current scores, ...
RescoreLook(h) == Busy(h, "rescore") /\ Look(h, "rescore_looked", req[h].event)

\* ... and appends a score.
RescoreWrite(h) ==
    LET e == req[h].event
    IN  /\ Busy(h, "rescore_looked")
        /\ AddScores(h, 1)
        /\ current' = [current EXCEPT ![e] =
                          AppendScore(@, req[h].seen, inserted', req[h].weights)]
        /\ CommitScoring(h, {e})
        /\ UNCHANGED <<weights, decision, proposed>>

Rescore(h) ==
    \/ \E e \in ScoredEvents : RescoreRead(h, e)
    \/ RescoreLook(h)
    \/ RescoreWrite(h)

\* score_all_for_campaign_sync reads the campaign and comes to e, the first event
\* that has no score.  An event with two current scores is an exception, before
\* or after: nothing is scored.
ScoreAllRead(h, e) ==
    /\ \A x \in ScoredEvents : Cardinality(current[x]) <= 1
    /\ current[e] = {}
    /\ Begin(h, [op |-> "score_all", reads |-> {}, event |-> e, weights |-> weights])
    /\ UNCHANGED scoringRows

\* It reads the current scores of e once more, ...
ScoreAllLook(h) == Busy(h, "score_all") /\ Look(h, "score_all_looked", req[h].event)

\* ... and appends one.  The events looked at after it are looked at under the
\* lock, and those that have a score are left alone.
ScoreAllWrite(h) ==
    LET e == req[h].event
        scored == {e} \cup {x \in ScoredEvents : current[x] = {}}
        seen == [x \in scored |-> IF x = e THEN req[h].seen ELSE {}]
    IN  /\ Busy(h, "score_all_looked")
        /\ \A x \in ScoredEvents \ {e} : Cardinality(current[x]) <= 1
        /\ AddScores(h, Cardinality(scored))
        /\ \E number \in [scored -> inserted + 1 .. inserted'] :
              /\ \A x, y \in scored : number[x] = number[y] => x = y
              /\ current' = [x \in ScoredEvents |->
                                IF x \in scored
                                THEN AppendScore(current[x], seen[x], number[x], req[h].weights)
                                ELSE current[x]]
        /\ CommitScoring(h, scored)
        /\ UNCHANGED <<weights, decision, proposed>>

ScoreAll(h) ==
    \/ \E e \in ScoredEvents : ScoreAllRead(h, e)
    \/ ScoreAllLook(h)
    \/ ScoreAllWrite(h)

-----------------------------------------------------------------------------
(* Weights. *)

\* apply_patch of PATCH /campaigns/{id} with weights.
PatchWeights(h, w) ==
    /\ req[h] = Idle
    /\ EditWeights(w)
    /\ CommitScoring(h, {"campaign"})
    /\ UNCHANGED <<current, inserted, decision, proposed>>

\* validate_suggestion_deltas
MayMove(from, to) == to - from \in -1 .. 1

\* generate: a set with deltas from the weights there are.
GenerateSuggestion(h, s, w) ==
    /\ req[h] = Idle
    /\ decision[s] = "none"
    /\ MayMove(weights, w)
    /\ decision' = [decision EXCEPT ![s] = "pending_review"]
    /\ proposed' = [proposed EXCEPT ![s] = w]
    /\ CommitScoring(h, {s})
    /\ UNCHANGED <<weights, current, inserted, edited, dated>>

\* Seeded fault: the deltas were checked when they were proposed.
ApproveRead_Unchecked(h, s) ==
    /\ decision[s] = "pending_review"
    /\ Begin(h, [op |-> "approve", reads |-> {s, "campaign"}, on |-> s])
    /\ UNCHANGED scoringRows

\* approve up to its checks, which are against the weights there are by now.
ApproveRead(h, s) ==
    /\ decision[s] = "pending_review"
    /\ MayMove(weights, proposed[s])
    /\ Begin(h, [op |-> "approve", reads |-> {s, "campaign"}, on |-> s])
    /\ UNCHANGED scoringRows

\* The campaign takes the weights and the suggestion is decided.
ApproveWrite(h) ==
    LET s == req[h].on
    IN  /\ Busy(h, "approve")
        /\ EditWeights(proposed[s])
        /\ decision' = [decision EXCEPT ![s] = "approved"]
        /\ CommitScoring(h, {s, "campaign"})
        /\ UNCHANGED <<current, inserted, proposed>>

ApproveSuggestion(h) == (\E s \in Suggestions : ApproveRead(h, s)) \/ ApproveWrite(h)

\* Seeded fault: anything that was generated may be rejected.
RejectRead_Decided(h, s) ==
    /\ decision[s] # "none"
    /\ Begin(h, [op |-> "reject", reads |-> {s}, on |-> s])
    /\ UNCHANGED scoringRows

\* reject up to its checks.
RejectRead(h, s) ==
    /\ decision[s] = "pending_review"
    /\ Begin(h, [op |-> "reject", reads |-> {s}, on |-> s])
    /\ UNCHANGED scoringRows

RejectWrite(h) ==
    LET s == req[h].on
    IN  /\ Busy(h, "reject")
        /\ decision' = [decision EXCEPT ![s] = "rejected"]
        /\ CommitScoring(h, {s})
        /\ UNCHANGED <<weights, current, inserted, proposed, edited, dated>>

RejectSuggestion(h) == (\E s \in Suggestions : RejectRead(h, s)) \/ RejectWrite(h)

-----------------------------------------------------------------------------
ScoringNext ==
    \E h \in Handlers :
        \/ Rescore(h)
        \/ ScoreAll(h)
        \/ \E w \in Weights : PatchWeights(h, w)
        \/ \E s \in Suggestions, w \in Weights : GenerateSuggestion(h, s, w)
        \/ ApproveSuggestion(h)
        \/ RejectSuggestion(h)
        \/ /\ Lost(h)
           /\ edited' = edited \ {h}
           /\ UNCHANGED <<weights, current, inserted, decision, proposed, doubled, dated>>

ScoringSpec == ScoringInit /\ [][ScoringNext]_scoringVars

-----------------------------------------------------------------------------
(* Properties. *)

Decisions == {"none", "pending_review", "approved", "rejected"}

\* The values each variable takes; a score has one row, of one event.
ScoringTypeOK ==
    /\ weights \in Weights
    /\ current \in [ScoredEvents -> SUBSET ScoreRows]
    /\ \A d, e \in ScoredEvents : \A x \in current[d], y \in current[e] :
          x.id = y.id => d = e /\ x = y
    /\ inserted \in 0 .. MaxScores
    /\ decision \in [Suggestions -> Decisions]
    /\ proposed \in [Suggestions -> Weights]
    /\ doubled \in BOOLEAN
    /\ edited \subseteq Handlers
    /\ dated \subseteq 1 .. MaxScores

\* An event has at most one current score, unless two requests scored it at once.
\* The worker relies on it: with a second one it scores no event of the campaign.
OneCurrentScore == doubled \/ \A e \in ScoredEvents : Cardinality(current[e]) <= 1

\* A current score is of the weights in force, or the weights were edited after the
\* request that calculated it had read them: it is not recalculated then, and one
\* that an edit overtakes comes to be current with the weights before.  Neither a
\* score that was superseded nor one of another request's weights comes back.
ScoresAreOfTheWeights ==
    \A e \in ScoredEvents : \A x \in current[e] : x.weights = weights \/ x.id \in dated

\* A suggestion that is approved moves the weights by no more than a suggestion
\* may, however they were edited since it was proposed, unless they were edited
\* while it was being approved; and one that is decided stays so.
SuggestionsAreBounded ==
    [][\A s \in Suggestions :
          /\ decision[s] = "pending_review" /\ decision'[s] = "approved" =>
                 doubled' \/ MayMove(weights, weights')
          /\ decision[s] \in {"approved", "rejected"} =>
                 doubled' \/ decision'[s] = decision[s]]_scoringVars

\* Events have one current score, of the weights in force unless they were edited
\* since, and suggestions move those by little.
ScoresAreCurrent ==
    [](OneCurrentScore /\ ScoresAreOfTheWeights) /\ SuggestionsAreBounded

=============================================================================
