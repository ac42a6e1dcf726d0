--------------------------- MODULE QueryExpansion ---------------------------
(***************************************************************************)
(* Variants of a campaign's keywords: sets of them generated by rules or   *)
(* taken from an answer of the discovery copilot, edited and approved by   *)
(* people, and the snapshot of the approved one a discovery job runs with  *)
(* (QueryExpansionService, DiscoveryCopilotService, start of a job).       *)
(*                                                                         *)
(* An edit is made of the row it has loaded: a column is written if its    *)
(* new value is not the one loaded, whatever it is by then.                *)
(***************************************************************************)
EXTENDS Requests, Naturals, Sequences, FiniteSets

CONSTANTS
    Variants,      \* texts of variants that are not removed
    AiVariants,    \* those whose source is AI
    Answers,       \* ids of the copilot's answers
    RuleBased,         \* where a generated set comes from
    MaxSets,       \* bound of the model: sets of a campaign
    MaxApprovals   \* bound of the model: approvals of a campaign

ASSUME VariantsAssumption ==
    /\ AiVariants \subseteq Variants
    /\ RuleBased \notin Answers
    /\ MaxApprovals \in Nat

VARIABLES
    sets,          \* query_expansion_sets of the campaign, oldest first
    approvals,     \* history: the set, version and variants each approval was of
    answers,       \* per answer the variants it proposes, none before it is given
    accepted,      \* answers whose accepted_at is set
    used,          \* snapshot the last discovery job was started with, if any
    overtaken      \* history: an edit has met another one, or an approval, since it
                   \* loaded the set, or an answer was accepted twice at once

expansionRows == <<sets, approvals, answers, accepted, used>>
expansionVars == <<expansionRows, overtaken, requestVars>>

ExpansionInit ==
    /\ sets = <<>>
    /\ approvals = <<>>
    /\ answers = [a \in Answers |-> {}]
    /\ accepted = {}
    /\ used = {}
    /\ overtaken = FALSE
    /\ NoRequests

\* set_requires_review
RequiresReview(variants, mode) == mode = "ai_assisted" /\ variants \cap AiVariants # {}

\* The status of a set that is saved without approval.
StatusAfterSave(variants, mode) ==
    IF RequiresReview(variants, mode) THEN "pending_review" ELSE "draft"

LatestSet == Len(sets)

\* create_draft
CreateDraft(variants, mode, from) ==
    /\ Len(sets) < MaxSets
    /\ sets' = Append(sets, [status |-> StatusAfterSave(variants, mode), mode |-> mode,
                             variants |-> variants, version |-> 1, from |-> from])

-----------------------------------------------------------------------------
\* The generator's variants; it is AI-assisted if one of them is.
Generate ==
    /\ \E variants \in SUBSET Variants :
          CreateDraft(variants,
                      IF variants \cap AiVariants # {} THEN "ai_assisted" ELSE "rule", RuleBased)
    /\ UNCHANGED <<approvals, answers, accepted, used, overtaken, requestVars>>

\* PATCH loads the latest set.
PatchRead(h) ==
    /\ sets # <<>>
    /\ Begin(h, [op |-> "patch", set |-> LatestSet, row |-> sets[LatestSet],
                    approvals |-> Len(approvals)])
    /\ UNCHANGED <<expansionRows, overtaken>>

\* Seeded fault: an approved set stays approved next to the new one.
SupersedeApprovedSets_Keep(i) == [j \in DOMAIN sets |-> sets[j].status]

\* The statuses once set i is approved.
SupersedeApprovedSets(i) ==
    [j \in DOMAIN sets |->
        IF j # i /\ sets[j].status = "approved" THEN "superseded" ELSE sets[j].status]

\* Seeded fault: an approval leaves the version as it is.
PatchedVersion_Same(row, approve) == row.version

PatchedVersion(row, approve) == IF approve THEN row.version + 1 ELSE row.version

\* Seeded fault: what is edited keeps its status.
PatchedStatus_Kept(row, approve, variants) == IF approve THEN "approved" ELSE row.status

PatchedStatus(row, approve, variants) ==
    IF approve THEN "approved" ELSE StatusAfterSave(variants, row.mode)

\* update_variants: value v of a column, against what was loaded and what is there.
Written(v, loaded, there) == IF v = loaded THEN there ELSE v

\* Set i, that was row when it was loaded, with its new variants.
PatchedSet(i, row, approve, variants) ==
    [sets[i] EXCEPT
        !.status = Written(PatchedStatus(row, approve, variants), row.status, @),
        !.variants = Written(variants, row.variants, @),
        !.version = Written(PatchedVersion(row, approve), row.version, @)]

\* The variants are those of the body, or the set's.
Approve(h, variants) ==
    LET i == req[h].set
        status == SupersedeApprovedSets(i)
        patched == PatchedSet(i, req[h].row, TRUE, variants)
    IN
    /\ Len(approvals) < MaxApprovals
    /\ sets' = [j \in DOMAIN sets |->
                  IF j = i THEN patched ELSE [sets[j] EXCEPT !.status = status[j]]]
    /\ approvals' = Append(approvals,
                  [set |-> i, version |-> patched.version, variants |-> variants])

Edit(h, variants) ==
    /\ sets' = [sets EXCEPT ![req[h].set] = PatchedSet(req[h].set, req[h].row, FALSE, variants)]
    /\ approvals' = approvals

PatchWrite(h) ==
    /\ Busy(h, "patch")
    /\ \E variants \in SUBSET Variants : Approve(h, variants) \/ Edit(h, variants)
    /\ overtaken' = (\/ overtaken
                      \/ sets[req[h].set] # req[h].row
                      \/ Len(approvals) > req[h].approvals)
    /\ End(h)
    /\ UNCHANGED <<answers, accepted, used>>

PatchSet(h) == PatchRead(h) \/ PatchWrite(h)

-----------------------------------------------------------------------------
\* respond: the answer proposes framings of the query, or its first claim.
Respond(a) ==
    /\ answers[a] = {}
    /\ \E framing \in SUBSET AiVariants \ {{}} : answers' = [answers EXCEPT ![a] = framing]
    /\ UNCHANGED <<sets, approvals, accepted, used, overtaken, requestVars>>

\* Seeded fault: an answer that was accepted may be accepted again.
AcceptAnswerRead_Again(h, a) ==
    /\ answers[a] # {}
    /\ Begin(h, [op |-> "accept", answer |-> a, accepted |-> a \in accepted])
    /\ UNCHANGED <<expansionRows, overtaken>>

AcceptAnswerRead(h, a) ==
    /\ answers[a] # {}
    /\ a \notin accepted
    /\ Begin(h, [op |-> "accept", answer |-> a, accepted |-> a \in accepted])
    /\ UNCHANGED <<expansionRows, overtaken>>

\* The set it proposes is created and the answer marked, in one transaction.
AcceptAnswerWrite(h) ==
    /\ Busy(h, "accept")
    /\ CreateDraft(answers[req[h].answer], "ai_assisted", req[h].answer)
    /\ accepted' = accepted \cup {req[h].answer}
    /\ overtaken' = (overtaken \/ (~req[h].accepted /\ req[h].answer \in accepted))
    /\ End(h)
    /\ UNCHANGED <<approvals, answers, used>>

AcceptIntoQueryExpansion(h) == AcceptAnswerWrite(h) \/ \E a \in Answers : AcceptAnswerRead(h, a)

-----------------------------------------------------------------------------
\* latest_approved_for_campaign: the set approved last of those that still are.
LatestApproved ==
    LET approved == {k \in DOMAIN approvals : sets[approvals[k].set].status = "approved"}
    IN approvals[CHOOSE k \in approved : \A j \in approved : j <= k].set

\* Seeded fault: a job runs with the latest set.
Resolved_Latest == LatestSet

Resolved == LatestApproved

\* A set that waits for review blocks a job that asks for variants.
Blocked ==
    /\ sets[LatestSet].status # "approved"
    /\ RequiresReview(sets[LatestSet].variants, sets[LatestSet].mode)

\* resolve_for_discovery: the snapshot a job that uses the expansion is started with.
ResolveForDiscovery ==
    /\ \E i \in DOMAIN sets : sets[i].status = "approved"
    /\ ~Blocked
    /\ used' = {[set |-> Resolved, version |-> sets[Resolved].version,
                  variants |-> sets[Resolved].variants]}
    /\ UNCHANGED <<sets, approvals, answers, accepted, overtaken, requestVars>>

ExpansionNext ==
    \/ Generate
    \/ ResolveForDiscovery
    \/ \E a \in Answers : Respond(a)
    \/ \E h \in Handlers :
          \/ PatchSet(h)
          \/ AcceptIntoQueryExpansion(h)
          \/ Lost(h) /\ UNCHANGED <<expansionRows, overtaken>>

ExpansionSpec == ExpansionInit /\ [][ExpansionNext]_expansionVars

-----------------------------------------------------------------------------
\* The values each column takes; a set that is neither approved nor superseded
\* waits for review if it has a variant of the AI's that rules did not find.
ExpansionTypeOK ==
    /\ \A i \in DOMAIN sets :
          /\ sets[i].variants \subseteq Variants
          /\ sets[i].mode \in {"rule", "ai_assisted"}
          /\ sets[i].version \in 1 .. MaxApprovals + 1
          /\ \/ sets[i].status \in {"approved", "superseded"}
             \/ sets[i].status = StatusAfterSave(sets[i].variants, sets[i].mode)
             \/ overtaken
    /\ accepted \subseteq {a \in Answers : answers[a] # {}}

\* A discovery job runs with the variants somebody approved, those of that set and
\* version: not with an edit since, nor with a set that waits for review.  Requests
\* that write over each other are left out.
UsedWasReviewed == \A s \in used : overtaken \/ \E k \in DOMAIN approvals : approvals[k] = s

\* At most one set of a campaign is approved, unless two were approved at once.
OneApproved ==
    overtaken \/ Cardinality({i \in DOMAIN sets : sets[i].status = "approved"}) <= 1

\* A set's version names its variants: no two approvals of different variants have the
\* same set and version, so that a job's snapshot tells what it ran with.
VersionNamesVariants ==
    \A k, m \in DOMAIN approvals :
        /\ approvals[k].set = approvals[m].set
        /\ approvals[k].version = approvals[m].version
        => overtaken \/ approvals[k].variants = approvals[m].variants

\* An answer of the copilot becomes one set, unless it was accepted twice at once.
AcceptedOnce ==
    \A i, j \in DOMAIN sets :
        sets[i].from \in Answers /\ sets[i].from = sets[j].from => overtaken \/ i = j

=============================================================================
