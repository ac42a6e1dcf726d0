----------------------------- MODULE ContentReview -----------------------------
(***************************************************************************)
(* The life of one generated draft: edited, submitted, approved or         *)
(* rejected, handed off and marked as used (ContentService and its REST    *)
(* handlers).  A text is a number: the next edit writes the next text.     *)
(* What a decision or a handoff records of the text it is about is its     *)
(* revision.                                                               *)
(***************************************************************************)
EXTENDS Requests, Naturals

CONSTANT MaxTexts      \* bound of the model: texts the draft may have

ASSUME ContentAssumption == MaxTexts \in Nat

VARIABLES
    \* generated_content_drafts
    review,            \* lifecycle, none before the draft is generated
    revision,          \* body_revision
    text,              \* body_text
    usage,             \* usage_status
    \* history
    texts,             \* texts written so far
    decided,           \* texts that a reviewer has approved
    named,             \* <<revision, text>> that decisions and handoffs are about
    handedOff,         \* texts that were copied or exported
    usedMarks,         \* how often the draft was marked as used
    overwrote          \* a stale request has written

draftVars == <<review, revision, text, usage>>
contentHistory == <<texts, decided, named, handedOff, usedMarks>>
contentVars == <<draftVars, contentHistory, overwrote, requestVars>>

ReviewStatus == {"draft", "in_review", "approved", "rejected"}

-----------------------------------------------------------------------------
(* Policy. *)

\* can_transition
CanTransition(from, to) ==
    \/ from = to
    \/ <<from, to>> \in {<<"draft", "in_review">>, <<"in_review", "approved">>,
                         <<"in_review", "rejected">>, <<"rejected", "in_review">>,
                         <<"rejected", "draft">>, <<"approved", "in_review">>}

\* may_handoff_content
MayHandOff == review = "approved"

\* can_mark_used
CanMarkUsed == usage = "not_used"

-----------------------------------------------------------------------------
ContentInit ==
    /\ review = "none"
    /\ revision = 1
    /\ text = 0
    /\ usage = "not_used"
    /\ texts = 0
    /\ decided = {}
    /\ named = {}
    /\ handedOff = {}
    /\ usedMarks = 0
    /\ overwrote = FALSE
    /\ NoRequests

\* POST /content/generate
GenerateDraft ==
    /\ review = "none"
    /\ review' = "draft"
    /\ UNCHANGED <<revision, text, usage, contentHistory, overwrote, requestVars>>

\* The rest of a transaction that writes the draft's row.
Commit(h) ==
    /\ overwrote' = (overwrote \/ stale[h])
    /\ EndAndOvertake(h)

-----------------------------------------------------------------------------
(* Edits. *)

\* update_body reads the row ...
EditRead(h) ==
    /\ review # "none"
    /\ Begin(h, [op |-> "edit", review |-> review, revision |-> revision, text |-> text])
    /\ UNCHANGED <<draftVars, contentHistory, overwrote>>

\* Seeded fault: an edit leaves the review status alone.
Reopened_Kept(was) == review

\* ... and starts the review over if it had read that one was under way or over,
Reopened(was) == IF was \in ReviewStatus \ {"draft"} THEN "draft" ELSE review

\* Seeded fault: a text keeps its revision.
NextRevision_Same(was) == was

\* with the revision after the one it has read.
NextRevision(was) == was + 1

EditWrite(h) ==
    /\ Busy(h, "edit")
    /\ texts < MaxTexts
    /\ texts' = texts + 1
    /\ text' = texts + 1
    /\ revision' = NextRevision(req[h].revision)
    /\ review' = Reopened(req[h].review)
    /\ Commit(h)
    /\ UNCHANGED <<usage, decided, named, handedOff, usedMarks>>

\* PATCH /events/{id}/content/drafts/{id}
PatchDraft(h) == EditRead(h) \/ EditWrite(h)

-----------------------------------------------------------------------------
(* Reviews. *)

\* Each reads the draft and checks the transition, ...
ReviewRead(h, op, to) ==
    /\ review # "none"
    /\ CanTransition(review, to)
    /\ Begin(h, [op |-> op, review |-> review, revision |-> revision, text |-> text])
    /\ UNCHANGED <<draftVars, contentHistory, overwrote>>

\* ... then sets the status, whatever it has become, and appends the decision
\* with the revision it has read.
ReviewWrite(h, to) ==
    /\ review' = to
    /\ named' = named \cup {<<req[h].revision, req[h].text>>}
    /\ Commit(h)
    /\ UNCHANGED <<revision, text, usage, texts, handedOff, usedMarks>>

\* POST .../submit-for-review
SubmitForReview(h) ==
    \/ ReviewRead(h, "submit", "in_review")
    \/ Busy(h, "submit") /\ ReviewWrite(h, "in_review") /\ UNCHANGED decided

\* POST /content/{id}/approve
ApproveDraft(h) ==
    \/ ReviewRead(h, "approve", "approved")
    \/ /\ Busy(h, "approve")
       /\ ReviewWrite(h, "approved")
       /\ decided' = decided \cup {req[h].text}

\* POST /content/{id}/reject
RejectDraft(h) ==
    \/ ReviewRead(h, "reject", "rejected")
    \/ Busy(h, "reject") /\ ReviewWrite(h, "rejected") /\ UNCHANGED decided

-----------------------------------------------------------------------------
(* Handoffs. *)

\* record_copy_handoff and export_approved: one read; only a record is written.
HandOff ==
    /\ MayHandOff
    /\ handedOff' = handedOff \cup {text}
    /\ named' = named \cup {<<revision, text>>}
    /\ UNCHANGED <<draftVars, texts, decided, usedMarks, overwrote, requestVars>>

\* Seeded fault: a draft may be marked as used again.
MarkUsedRead_Again(h) ==
    /\ MayHandOff
    /\ Begin(h, [op |-> "use", review |-> review, revision |-> revision, text |-> text])
    /\ UNCHANGED <<draftVars, contentHistory, overwrote>>

MarkUsedRead(h) ==
    /\ MayHandOff
    /\ CanMarkUsed
    /\ Begin(h, [op |-> "use", review |-> review, revision |-> revision, text |-> text])
    /\ UNCHANGED <<draftVars, contentHistory, overwrote>>

\* Seeded fault: the record is written, the status is not.
MarkUsedWrite_RecordOnly(h) ==
    /\ Busy(h, "use")
    /\ usedMarks' = usedMarks + 1
    /\ named' = named \cup {<<req[h].revision, req[h].text>>}
    /\ Commit(h)
    /\ UNCHANGED <<review, revision, text, usage, texts, decided, handedOff>>

\* set_usage_status, and the record.
MarkUsedWrite(h) ==
    /\ Busy(h, "use")
    /\ usage' = "used"
    /\ usedMarks' = usedMarks + 1
    /\ named' = named \cup {<<req[h].revision, req[h].text>>}
    /\ Commit(h)
    /\ UNCHANGED <<review, revision, text, texts, decided, handedOff>>

\* POST /content/{id}/mark-used
MarkUsed(h) == MarkUsedRead(h) \/ MarkUsedWrite(h)

-----------------------------------------------------------------------------
ContentNext ==
    \/ GenerateDraft
    \/ HandOff
    \/ \E h \in Handlers :
          \/ PatchDraft(h)
          \/ SubmitForReview(h)
          \/ ApproveDraft(h)
          \/ RejectDraft(h)
          \/ MarkUsed(h)
          \/ Lost(h) /\ UNCHANGED <<draftVars, contentHistory, overwrote>>

ContentSpec == ContentInit /\ [][ContentNext]_contentVars

-----------------------------------------------------------------------------
(* Properties. *)

Texts == 0 .. MaxTexts

ContentRequest ==
    {Idle} \cup [op : {"edit", "submit", "approve", "reject", "use"},
                 review : ReviewStatus, revision : Nat, text : Texts]

\* The values each variable takes; a draft that was marked as used says so.
ContentTypeOK ==
    /\ review \in ReviewStatus \cup {"none"}
    /\ revision \in Nat
    /\ text \in Texts
    /\ usage = IF usedMarks = 0 THEN "not_used" ELSE "used"
    /\ texts \in Texts
    /\ decided \subseteq Texts
    /\ named \subseteq Nat \X Texts
    /\ handedOff \subseteq Texts
    /\ usedMarks \in Nat
    /\ overwrote \in BOOLEAN
    /\ req \in [Handlers -> ContentRequest]
    /\ stale \in [Handlers -> BOOLEAN]

\* Every text that was copied or exported is one a reviewer approved, unless a
\* request wrote over what it had not seen: an edit starts the review over, and
\* an approval is of the text it was decided on.
HandedOffWasApproved == overwrote \/ handedOff \subseteq decided

\* A revision names one text, so that a decision or a handoff says what it is
\* about, unless a request wrote over what it had not seen.
RevisionsNameTexts ==
    overwrote \/ \A p, q \in named : p[1] = q[1] => p[2] = q[2]

\* A draft is marked as used once, unless two requests overlap.
UsedOnce == overwrote \/ usedMarks <= 1

\* What leaves the product was approved, recorded by its revision, and used once
\* (ContentService).
ContentIsReviewed == HandedOffWasApproved /\ RevisionsNameTexts /\ UsedOnce

=============================================================================
