---------------------------- MODULE ReviewProofs ----------------------------
(***************************************************************************)
(* A draft's life, leads and watches, a calendar token's, an event's       *)
(* scores and a supervised browser keep their promises for any number of   *)
(* overlapping requests.                                                   *)
(***************************************************************************)
EXTENDS MCReview, FiniteSetTheorems, TLAPS

-----------------------------------------------------------------------------
(* Content drafts. *)

\* The columns the argument looks at; texts need no bound for it.
ContentShape ==
    /\ review \in ReviewStatus \cup {"none"}
    /\ revision \in Nat
    /\ usage = IF usedMarks = 0 THEN "not_used" ELSE "used"
    /\ usedMarks \in Nat
    /\ overwrote \in BOOLEAN
    /\ req \in [Handlers -> {Idle} \cup [op : {"edit", "submit", "approve", "reject", "use"},
                                         review : ReviewStatus, revision : Nat, text : Texts]]
    /\ stale \in [Handlers -> BOOLEAN]
    /\ text \in Texts
    /\ texts \in Texts

\* What a request has read is still there until another one commits.
ReadingHolds(h) ==
    /\ req[h].review = review
    /\ req[h].revision = revision
    /\ req[h].text = text
    /\ req[h].op = "use" => usage = "not_used"

ContentReadingsHold == \A h \in Handlers : req[h] # Idle /\ ~stale[h] => ReadingHolds(h)

\* An approved text has been decided on; and what a decision names of the current
\* revision is the current text.
ApprovedWasDecided == review = "approved" => text \in decided

NamesSoFar == \A p \in named : p[1] \in Nat /\ p[1] <= revision /\ (p[1] = revision => p[2] = text)

\* Until a request writes over what it has not seen.
Kept ==
    /\ ContentReadingsHold
    /\ ApprovedWasDecided
    /\ NamesSoFar
    /\ handedOff \subseteq decided
    /\ \A p, q \in named : p[1] = q[1] => p[2] = q[2]
    /\ usedMarks <= 1

ContentIInv == ContentShape /\ (overwrote \/ Kept)

\* At the start there is no draft and no request.
LEMMA ContentInitially == ContentInit => ContentIInv
  <1> SUFFICES ASSUME ContentInit PROVE ContentIInv
    OBVIOUS
  <1>1. ContentShape
    <2>1. text \in Texts /\ texts \in Texts
      BY ContentAssumption DEF ContentInit, Texts
    <2>2. req \in [Handlers -> {Idle} \cup [op : {"edit", "submit", "approve", "reject", "use"},
                                          review : ReviewStatus, revision : Nat, text : Texts]]
      BY DEF ContentInit, NoRequests
    <2> QED BY <2>1, <2>2 DEF ContentInit, NoRequests, ContentShape
  <1>2. ContentReadingsHold
    BY DEF ContentInit, NoRequests, ContentReadingsHold
  <1>3. Kept
    BY <1>2 DEF ContentInit, Kept, ApprovedWasDecided, NamesSoFar
  <1> QED BY <1>1, <1>3 DEF ContentIInv

-----------------------------------------------------------------------------
(* How requests begin and end. *)

\* Idle is no reading.
LEMMA ReadingIsNotIdle ==
  ASSUME NEW r, r.op \in {"edit", "submit", "approve", "reject", "use"}
  PROVE  r # Idle
  BY DEF Idle

\* A request that begins has read what is there.
LEMMA AfterBegin ==
  ASSUME ContentShape, ContentReadingsHold, NEW h \in Handlers, review # "none",
         NEW op \in {"edit", "submit", "approve", "reject", "use"},
         op = "use" => usage = "not_used",
         Begin(h, [op |-> op, review |-> review, revision |-> revision, text |-> text]),
         UNCHANGED <<draftVars, contentHistory, overwrote>>
  PROVE  ContentReadingsHold'
  <1> SUFFICES ASSUME NEW g \in Handlers, req'[g] # Idle, ~stale'[g] PROVE ReadingHolds(g)'
    BY DEF ContentReadingsHold
  <1>1. CASE g = h
    BY <1>1 DEF Begin, ContentShape, ReadingHolds, draftVars
  <1>2. CASE g # h
    BY <1>2 DEF Begin, ContentShape, ContentReadingsHold, ReadingHolds, draftVars
  <1> QED BY <1>1, <1>2

\* A request that gives up takes its reading with it.
LEMMA ContentEnds ==
  ASSUME ContentShape, ContentReadingsHold, NEW h \in Handlers, End(h), UNCHANGED draftVars
  PROVE  ContentReadingsHold'
  BY DEF End, ContentShape, ContentReadingsHold, ReadingHolds, draftVars

\* After a commit nobody's reading is known to hold.
LEMMA AfterCommit ==
  ASSUME ContentShape, NEW h \in Handlers, EndAndOvertake(h)
  PROVE  ContentReadingsHold'
  <1> SUFFICES ASSUME NEW g \in Handlers, req'[g] # Idle PROVE stale'[g]
    BY DEF ContentReadingsHold
  <1>1. g # h /\ req[g] # Idle
    BY DEF EndAndOvertake, ContentShape
  <1> QED BY <1>1 DEF EndAndOvertake

\* A request that commits and was not overtaken has read what it writes over.
LEMMA CommitKept ==
  ASSUME ContentShape, overwrote \/ Kept, NEW h \in Handlers, req[h] # Idle, Commit(h), ~overwrote'
  PROVE  Kept /\ ReadingHolds(h) /\ ContentReadingsHold'
  <1>1. ~overwrote /\ ~stale[h]
    BY DEF Commit, ContentShape
  <1>2. ContentReadingsHold'
    BY AfterCommit DEF Commit
  <1> QED BY <1>1, <1>2 DEF Kept, ContentReadingsHold

-----------------------------------------------------------------------------
(* Types of each kind of step. *)

\* What a commit leaves of the requests.
LEMMA CommitShape ==
  ASSUME ContentShape, NEW h \in Handlers, Commit(h)
  PROVE  /\ req' \in [Handlers -> {Idle} \cup [op : {"edit", "submit", "approve", "reject", "use"},
                                         review : ReviewStatus, revision : Nat, text : Texts]]
         /\ stale' \in [Handlers -> BOOLEAN]
         /\ overwrote' \in BOOLEAN
  BY DEF Commit, EndAndOvertake, ContentShape

\* What a beginning request leaves of them.
LEMMA BeginShape ==
  ASSUME ContentShape, NEW h \in Handlers, review # "none",
         NEW op \in {"edit", "submit", "approve", "reject", "use"},
         Begin(h, [op |-> op, review |-> review, revision |-> revision, text |-> text]),
         UNCHANGED <<draftVars, contentHistory, overwrote>>
  PROVE  ContentShape'
  BY DEF Begin, ContentShape, draftVars, contentHistory, ReviewStatus

\* A request that only reads keeps the invariant.
LEMMA ReadStep ==
  ASSUME ContentIInv, NEW h \in Handlers, review # "none",
         NEW op \in {"edit", "submit", "approve", "reject", "use"},
         op = "use" => usage = "not_used",
         Begin(h, [op |-> op, review |-> review, revision |-> revision, text |-> text]),
         UNCHANGED <<draftVars, contentHistory, overwrote>>
  PROVE  ContentIInv'
  <1>1. ContentShape'
    BY BeginShape DEF ContentIInv
  <1>2. CASE overwrote
    BY <1>1, <1>2 DEF ContentIInv
  <1>3. CASE Kept
    <2>1. ContentReadingsHold'
      BY <1>3, AfterBegin DEF ContentIInv, Kept
    <2> QED BY <1>1, <1>3, <2>1 DEF ContentIInv, Kept, ApprovedWasDecided, NamesSoFar, draftVars, contentHistory
  <1> QED BY <1>2, <1>3 DEF ContentIInv

\* The fields of a request under way.
LEMMA RequestFields ==
  ASSUME ContentShape, NEW h \in Handlers, req[h].op \in {"edit", "submit", "approve", "reject", "use"}
  PROVE  /\ req[h] # Idle
         /\ req[h].review \in ReviewStatus /\ req[h].revision \in Nat /\ req[h].text \in Texts
  BY ReadingIsNotIdle DEF ContentShape

-----------------------------------------------------------------------------
\* A saved edit: a new revision, back to a draft.
LEMMA EditKeeps ==
  ASSUME ContentIInv, NEW h \in Handlers, EditWrite(h)
  PROVE  ContentIInv'
  <1>1. req[h] # Idle /\ req[h].review \in ReviewStatus /\ req[h].revision \in Nat
    BY RequestFields DEF ContentIInv, EditWrite, Busy
  <1>2. ContentShape'
    <2>1. texts' \in Texts /\ text' \in Texts
      BY ContentAssumption DEF EditWrite, ContentIInv, ContentShape, Texts
    <2>2. revision' \in Nat /\ review' \in ReviewStatus \cup {"none"}
      BY <1>1 DEF EditWrite, NextRevision, Reopened, ContentIInv, ContentShape, ReviewStatus
    <2> QED BY <2>1, <2>2, CommitShape DEF EditWrite, ContentIInv, ContentShape
  <1>3. ASSUME ~overwrote' PROVE Kept'
    <2>1. Kept /\ ReadingHolds(h) /\ ContentReadingsHold'
      BY <1>1, <1>3, CommitKept DEF EditWrite, ContentIInv
    <2>2. ApprovedWasDecided'
      BY <2>1 DEF EditWrite, Reopened, ReadingHolds, ApprovedWasDecided, ReviewStatus, ContentIInv, ContentShape
    <2>3. NamesSoFar'
      BY <2>1 DEF EditWrite, NextRevision, ReadingHolds, Kept, NamesSoFar, ContentIInv, ContentShape
    <2> QED BY <2>1, <2>2, <2>3 DEF EditWrite, Kept
  <1> QED BY <1>2, <1>3 DEF ContentIInv

\* A decision: the status it sets is approved only if the text it has read is decided on.
LEMMA DecisionKeeps ==
  ASSUME ContentIInv, NEW h \in Handlers, NEW to \in ReviewStatus,
         req[h].op \in {"submit", "approve", "reject"}, ReviewWrite(h, to),
         decided \subseteq decided', to = "approved" => req[h].text \in decided'
  PROVE  ContentIInv'
  <1>1. req[h] # Idle /\ req[h].revision \in Nat /\ req[h].text \in Texts
    BY RequestFields DEF ContentIInv
  <1>2. ContentShape'
    BY CommitShape DEF ReviewWrite, ContentIInv, ContentShape
  <1>3. ASSUME ~overwrote' PROVE Kept'
    <2>1. Kept /\ ReadingHolds(h) /\ ContentReadingsHold'
      BY <1>1, <1>3, CommitKept DEF ReviewWrite, ContentIInv
    <2>2. ApprovedWasDecided'
      BY <2>1 DEF ReviewWrite, ReadingHolds, ApprovedWasDecided
    <2>3. named' = named \cup {<<revision, text>>}
      BY <2>1 DEF ReviewWrite, ReadingHolds
    <2>4. NamesSoFar'
      BY <2>1, <2>3 DEF ReviewWrite, Kept, NamesSoFar, ContentIInv, ContentShape
    <2>5. \A p, q \in named' : p[1] = q[1] => p[2] = q[2]
      BY <2>1, <2>3 DEF Kept, NamesSoFar
    <2> QED BY <2>1, <2>2, <2>4, <2>5 DEF ReviewWrite, Kept
  <1> QED BY <1>2, <1>3 DEF ContentIInv

\* A hand-off changes nothing of the draft itself.
LEMMA HandOffKeeps ==
  ASSUME ContentIInv, HandOff
  PROVE  ContentIInv'
  <1>1. ContentShape'
    BY DEF HandOff, ContentIInv, ContentShape, draftVars, requestVars
  <1>2. ASSUME Kept PROVE Kept'
    <2>1. ContentReadingsHold'
      BY <1>2 DEF HandOff, Kept, ContentReadingsHold, ReadingHolds, draftVars, requestVars
    <2>2. ApprovedWasDecided' /\ handedOff' \subseteq decided'
      BY <1>2 DEF HandOff, MayHandOff, Kept, ApprovedWasDecided, draftVars
    <2>3. NamesSoFar'
      BY <1>2 DEF HandOff, Kept, NamesSoFar, ContentIInv, ContentShape, draftVars
    <2>4. \A p, q \in named' : p[1] = q[1] => p[2] = q[2]
      BY <1>2 DEF HandOff, Kept, NamesSoFar
    <2> QED BY <1>2, <2>1, <2>2, <2>3, <2>4 DEF HandOff, Kept
  <1> QED BY <1>1, <1>2 DEF ContentIInv, HandOff

\* Marking a draft as used.
LEMMA UseKeeps ==
  ASSUME ContentIInv, NEW h \in Handlers, MarkUsedWrite(h)
  PROVE  ContentIInv'
  <1>1. req[h] # Idle /\ req[h].revision \in Nat /\ req[h].text \in Texts
    BY RequestFields DEF ContentIInv, MarkUsedWrite, Busy
  <1>2. ContentShape'
    <2>1. usedMarks' \in Nat /\ usedMarks' # 0
      BY DEF MarkUsedWrite, ContentIInv, ContentShape
    <2> QED BY <2>1, CommitShape DEF MarkUsedWrite, ContentIInv, ContentShape
  <1>3. ASSUME ~overwrote' PROVE Kept'
    <2>1. Kept /\ ReadingHolds(h) /\ ContentReadingsHold'
      BY <1>1, <1>3, CommitKept DEF MarkUsedWrite, ContentIInv
    <2>2. usedMarks' <= 1
      BY <2>1 DEF MarkUsedWrite, Busy, ReadingHolds, ContentIInv, ContentShape
    <2>3. named' = named \cup {<<revision, text>>}
      BY <2>1 DEF MarkUsedWrite, ReadingHolds
    <2>4. NamesSoFar' /\ ApprovedWasDecided'
      BY <2>1, <2>3 DEF MarkUsedWrite, Kept, NamesSoFar, ApprovedWasDecided, ContentIInv, ContentShape
    <2>5. \A p, q \in named' : p[1] = q[1] => p[2] = q[2]
      BY <2>1, <2>3 DEF Kept, NamesSoFar
    <2> QED BY <2>1, <2>2, <2>4, <2>5 DEF MarkUsedWrite, Kept
  <1> QED BY <1>2, <1>3 DEF ContentIInv

\* A request that fails is rolled back whole.
LEMMA LostKeeps ==
  ASSUME ContentIInv, NEW h \in Handlers, Lost(h), UNCHANGED <<draftVars, contentHistory, overwrote>>
  PROVE  ContentIInv'
  <1>1. ContentShape'
    BY DEF Lost, End, ContentIInv, ContentShape, draftVars, contentHistory
  <1>2. ASSUME Kept PROVE Kept'
    <2>1. ContentReadingsHold'
      BY <1>2, ContentEnds DEF Lost, ContentIInv, Kept
    <2> QED BY <1>2, <2>1 DEF Kept, ApprovedWasDecided, NamesSoFar, draftVars, contentHistory
  <1> QED BY <1>1, <1>2 DEF ContentIInv

\* Every step of the draft's life keeps it.
LEMMA ContentSteps == ContentIInv /\ [ContentNext]_contentVars => ContentIInv'
  <1> SUFFICES ASSUME ContentIInv, [ContentNext]_contentVars PROVE ContentIInv'
    OBVIOUS
  <1>1. CASE GenerateDraft
    <2>1. ContentShape'
      BY <1>1 DEF GenerateDraft, ContentIInv, ContentShape, ReviewStatus, contentHistory, requestVars
    <2>2. ASSUME NEW h \in Handlers, req[h] # Idle PROVE req[h].review # "none"
      BY <2>2 DEF ContentIInv, ContentShape, ReviewStatus
    <2>3. ASSUME Kept PROVE Kept'
      <3>1. ContentReadingsHold'
        BY <1>1, <2>2, <2>3 DEF GenerateDraft, Kept, ContentReadingsHold, ReadingHolds, requestVars
      <3> QED BY <1>1, <2>3, <3>1 DEF GenerateDraft, Kept, ApprovedWasDecided, NamesSoFar, contentHistory
    <2> QED BY <1>1, <2>1, <2>3 DEF ContentIInv, GenerateDraft
  <1>2. CASE HandOff
    BY <1>2, HandOffKeeps
  <1>3. ASSUME NEW h \in Handlers, PatchDraft(h) PROVE ContentIInv'
    BY <1>3, ReadStep, EditKeeps DEF PatchDraft, EditRead
  <1>4. ASSUME NEW h \in Handlers, SubmitForReview(h) PROVE ContentIInv'
    BY <1>4, ReadStep, DecisionKeeps DEF SubmitForReview, ReviewRead, ReviewStatus, Busy
  <1>5. ASSUME NEW h \in Handlers, ApproveDraft(h) PROVE ContentIInv'
    BY <1>5, ReadStep, DecisionKeeps DEF ApproveDraft, ReviewRead, ReviewStatus, Busy
  <1>6. ASSUME NEW h \in Handlers, RejectDraft(h) PROVE ContentIInv'
    BY <1>6, ReadStep, DecisionKeeps DEF RejectDraft, ReviewRead, ReviewStatus, Busy
  <1>7. ASSUME NEW h \in Handlers, MarkUsed(h) PROVE ContentIInv'
    BY <1>7, ReadStep, UseKeeps DEF MarkUsed, MarkUsedRead, MayHandOff, CanMarkUsed
  <1>8. ASSUME NEW h \in Handlers, Lost(h), UNCHANGED <<draftVars, contentHistory, overwrote>>
        PROVE  ContentIInv'
    BY <1>8, LostKeeps
  <1>9. CASE UNCHANGED contentVars
    BY <1>9 DEF contentVars, draftVars, contentHistory, requestVars, ContentIInv, ContentShape, Kept, ContentReadingsHold,
       ReadingHolds, ApprovedWasDecided, NamesSoFar
  <1> QED BY <1>1, <1>2, <1>3, <1>4, <1>5, <1>6, <1>7, <1>8, <1>9 DEF ContentNext

\* The inductive invariant holds in every reachable state.
THEOREM ContentInvariance == ContentSpec => []ContentIInv
  BY ContentInitially, ContentSteps, PTL DEF ContentSpec

\* Whatever requests overlap, as long as none writes over what it has not seen: what is
\* copied or exported was approved, a revision names one text, and a draft is marked as
\* used once (ContentService).
THEOREM ContentStaysReviewed == ContentSpec => []ContentIsReviewed
  <1>1. ContentIInv => ContentIsReviewed
    BY DEF ContentIInv, ContentShape, Kept, ContentIsReviewed, HandedOffWasApproved, RevisionsNameTexts, UsedOnce
  <1> QED BY ContentInvariance, <1>1, PTL

-----------------------------------------------------------------------------
(* Calendar tokens. *)

TokenRequests ==
    {Idle} \cup [op : {"revoke"}, token : Tokens, revoked : BOOLEAN]
           \cup [op : {"use"}, token : Tokens, uses : Nat]

\* The columns the argument looks at.
TokenShape ==
    /\ revokedAt \in [Tokens -> Nat]
    /\ uses \in [Tokens -> Nat]
    /\ served \in [Tokens -> Nat]
    /\ moment \in Nat \ {0}
    /\ miscounted \in BOOLEAN
    /\ req \in [Handlers -> TokenRequests]
    /\ stale \in [Handlers -> BOOLEAN]

\* What a request has read of its token is so until another one changes the token.
TokenRequestHolds(h) ==
    ~stale[h] =>
        /\ Busy(h, "revoke") => (req[h].revoked <=> revokedAt[req[h].token] # 0)
        /\ Busy(h, "use") => revokedAt[req[h].token] = 0

UsesAreServed == miscounted \/ uses = served

TokenIInv ==
    /\ TokenShape
    /\ \A h \in Handlers : TokenRequestHolds(h)
    /\ UsesAreServed

\* What the action properties say of one step.
Stands ==
    \A t \in Tokens : revokedAt[t] # 0 =>
        /\ revokedAt'[t] # 0
        /\ revokedAt'[t] = revokedAt[t] \/ \E h \in Handlers : stale[h]

Refused ==
    \A t \in Tokens :
        served'[t] # served[t] /\ revokedAt[t] # 0 => \E h \in Handlers : stale[h]

-----------------------------------------------------------------------------
\* The fields of a request under way.
LEMMA TokenFields ==
  ASSUME TokenShape, NEW h \in Handlers
  PROVE  /\ Busy(h, "revoke") => req[h].token \in Tokens /\ req[h].revoked \in BOOLEAN
         /\ Busy(h, "use") => req[h].token \in Tokens /\ req[h].uses \in Nat
         /\ req[h] = Idle => ~Busy(h, "revoke") /\ ~Busy(h, "use")
         /\ req[h] # Idle => Busy(h, "revoke") \/ Busy(h, "use")
  BY DEF TokenShape, TokenRequests, Busy, Idle

\* Another request's step on another token, or on none, changes nothing for this one.
LEMMA TokenUntouched ==
  ASSUME NEW h \in Handlers, TokenRequestHolds(h), req'[h] = req[h],
         stale'[h] \/ (stale'[h] = stale[h] /\ revokedAt'[req[h].token] = revokedAt[req[h].token])
  PROVE  TokenRequestHolds(h)'
  BY DEF TokenRequestHolds, Busy

\* Who is idle relies on nothing.
LEMMA IdleTokenHolds ==
  ASSUME NEW h \in Handlers, req'[h] = Idle
  PROVE  TokenRequestHolds(h)'
  BY DEF TokenRequestHolds, Busy, Idle

\* A request that ends leaves what the others have read as it was.
LEMMA TokenEnds ==
  ASSUME TokenIInv, NEW h \in Handlers, End(h), UNCHANGED <<revokedAt, uses, served, moment, miscounted>>
  PROVE  TokenIInv'
  <1>1. TokenShape'
    BY DEF TokenIInv, TokenShape, TokenRequests, End
  <1>2. req'[h] = Idle /\ \A g \in Handlers \ {h} : req'[g] = req[g] /\ stale'[g] = stale[g]
    BY DEF TokenIInv, TokenShape, End
  <1>3. \A g \in Handlers : TokenRequestHolds(g)'
    BY <1>2, IdleTokenHolds, TokenUntouched DEF TokenIInv
  <1> QED BY <1>1, <1>3 DEF TokenIInv, UsesAreServed

\* A request that begins has what it has just read.
LEMMA TokenBegins ==
  ASSUME TokenIInv, NEW h \in Handlers, NEW r \in TokenRequests, Begin(h, r),
         UNCHANGED <<revokedAt, uses, served, moment, miscounted>>, TokenRequestHolds(h)'
  PROVE  TokenIInv'
  <1>1. TokenShape'
    BY DEF TokenIInv, TokenShape, Begin
  <1>2. \A g \in Handlers \ {h} : req'[g] = req[g] /\ stale'[g] = stale[g]
    BY DEF TokenIInv, TokenShape, Begin
  <1>3. \A g \in Handlers : TokenRequestHolds(g)'
    BY <1>2, TokenUntouched DEF TokenIInv
  <1> QED BY <1>1, <1>3 DEF TokenIInv, UsesAreServed

\* A commit to one token overtakes the requests about it and no other.
LEMMA TokenCommits ==
  ASSUME TokenShape, \A g \in Handlers : TokenRequestHolds(g), NEW h \in Handlers,
         NEW t \in Tokens, CommitToken(h, t),
         \A u \in Tokens \ {t} : revokedAt'[u] = revokedAt[u]
  PROVE  /\ req' \in [Handlers -> TokenRequests] /\ stale' \in [Handlers -> BOOLEAN]
         /\ \A g \in Handlers : TokenRequestHolds(g)'
  <1>1. req' \in [Handlers -> TokenRequests]
    BY DEF TokenShape, TokenRequests, CommitToken
  <1>2. stale' \in [Handlers -> BOOLEAN]
    <2>1. \A x \in Handlers : (x # h /\ req[x] # Idle /\ (stale[x] \/ req[x].token = t)) \in BOOLEAN
      OBVIOUS
    <2> QED BY <2>1 DEF CommitToken
  <1>3. req'[h] = Idle /\ \A g \in Handlers \ {h} : req'[g] = req[g]
    BY DEF TokenShape, CommitToken
  <1>4. ASSUME NEW g \in Handlers PROVE TokenRequestHolds(g)'
    <2>1. CASE req'[g] = Idle
      BY <2>1, IdleTokenHolds
    <2>2. CASE req'[g] # Idle
      <3>1. g # h /\ req'[g] = req[g] /\ req[g] # Idle
        BY <1>3, <2>2
      <3>2. stale'[g] <=> (stale[g] \/ req[g].token = t)
        BY <3>1 DEF CommitToken
      <3>3. req[g].token \in Tokens
        BY <3>1, TokenFields
      <3>4. CASE stale'[g]
        BY <3>1, <3>4, TokenUntouched
      <3>5. CASE ~stale'[g]
        <4>1. ~stale[g] /\ req[g].token # t
          BY <3>2, <3>5
        <4>2. revokedAt'[req[g].token] = revokedAt[req[g].token]
          BY <3>3, <4>1
        <4> QED BY <3>1, <3>5, <4>1, <4>2 DEF TokenRequestHolds, Busy
      <3> QED BY <3>4, <3>5
    <2> QED BY <2>1, <2>2
  <1> QED BY <1>1, <1>2, <1>4

-----------------------------------------------------------------------------
\* At the start no token is issued and nothing served.
LEMMA TokenInitially == CalendarInit => TokenIInv
  <1> SUFFICES ASSUME CalendarInit PROVE TokenIInv
    OBVIOUS
  <1>1. TokenShape
    <2>1. /\ revokedAt \in [Tokens -> Nat] /\ uses \in [Tokens -> Nat]
          /\ served \in [Tokens -> Nat] /\ moment \in Nat \ {0}
      BY DEF CalendarInit
    <2>2. req \in [Handlers -> TokenRequests] /\ stale \in [Handlers -> BOOLEAN]
      BY DEF CalendarInit, NoRequests, TokenRequests
    <2> QED BY <2>1, <2>2 DEF TokenShape, CalendarInit
  <1>2. \A h \in Handlers : TokenRequestHolds(h)
    BY DEF CalendarInit, NoRequests, TokenRequestHolds, Busy, Idle
  <1> QED BY <1>1, <1>2 DEF TokenIInv, UsesAreServed, CalendarInit

\* Every step keeps the invariant and does what the two action properties allow.
LEMMA TokenSteps == TokenIInv /\ [CalendarNext]_calendarVars => TokenIInv' /\ Stands /\ Refused
  <1> SUFFICES ASSUME TokenIInv, [CalendarNext]_calendarVars PROVE TokenIInv' /\ Stands /\ Refused
    OBVIOUS
  <1>0. TokenShape /\ UsesAreServed /\ \A g \in Handlers : TokenRequestHolds(g)
    BY DEF TokenIInv
  <1>a. UNCHANGED revokedAt => Stands
    BY DEF Stands
  <1>b. UNCHANGED served => Refused
    BY DEF Refused
  <1>c. ASSUME UNCHANGED <<revokedAt, uses, served, miscounted, requestVars>>, moment' \in Nat \ {0}
        PROVE  TokenIInv' /\ Stands /\ Refused
    <2>1. \A g \in Handlers : TokenRequestHolds(g)'
      BY <1>0, <1>c, TokenUntouched DEF requestVars
    <2> QED BY <1>0, <1>a, <1>b, <1>c, <2>1 DEF TokenIInv, TokenShape, UsesAreServed, requestVars
  <1>1. CASE MomentPasses
    <2>1. moment' \in Nat \ {0}
      BY <1>0, <1>1 DEF MomentPasses, TokenShape
    <2> QED BY <1>1, <1>c, <2>1 DEF MomentPasses, tokenVars
  <1>2. ASSUME NEW t \in Tokens, NEW e, MintToken(t, e) PROVE TokenIInv' /\ Stands /\ Refused
    <2>1. moment' \in Nat \ {0}
      BY <1>0, <1>2 DEF MintToken, TokenShape
    <2> QED BY <1>2, <1>c, <2>1 DEF MintToken, AddToken
  <1>3. ASSUME NEW h \in Handlers, NEW t \in Tokens, RevokeTokenRead(h, t)
        PROVE  TokenIInv' /\ Stands /\ Refused
    <2> DEFINE r == [op |-> "revoke", token |-> t, revoked |-> revokedAt[t] # 0]
    <2>1. r \in TokenRequests /\ r.op = "revoke" /\ r.token = t /\ (r.revoked <=> revokedAt[t] # 0)
      BY DEF TokenRequests
    <2>2. Begin(h, r) /\ UNCHANGED <<revokedAt, uses, served, moment, miscounted>>
      BY <1>3 DEF RevokeTokenRead, tokenVars
    <2> HIDE DEF r
    <2>3. req'[h] = r
      BY <1>0, <2>2 DEF Begin, TokenShape
    <2>4. TokenRequestHolds(h)'
      BY <2>1, <2>2, <2>3 DEF TokenRequestHolds, Busy
    <2> QED BY <1>a, <1>b, <2>1, <2>2, <2>4, TokenBegins
  <1>4. ASSUME NEW h \in Handlers, RevokeTokenWrite(h) PROVE TokenIInv' /\ Stands /\ Refused
    <2> DEFINE t == req[h].token
    <2>1. /\ Busy(h, "revoke") /\ CommitToken(h, t)
          /\ revokedAt' = [revokedAt EXCEPT ![t] = IF req[h].revoked THEN @ ELSE moment]
          /\ UNCHANGED <<uses, served, moment, miscounted>>
      BY <1>4 DEF RevokeTokenWrite
    <2>2. t \in Tokens /\ req[h].revoked \in BOOLEAN
      BY <1>0, <2>1, TokenFields
    <2>3. /\ revokedAt'[t] = IF req[h].revoked THEN revokedAt[t] ELSE moment
          /\ \A u \in Tokens \ {t} : revokedAt'[u] = revokedAt[u]
          /\ revokedAt' \in [Tokens -> Nat]
      BY <1>0, <2>1, <2>2 DEF TokenShape
    <2>4. ~stale[h] => (req[h].revoked <=> revokedAt[t] # 0)
      BY <1>0, <2>1 DEF TokenRequestHolds
    <2> HIDE DEF t
    <2>5. /\ req' \in [Handlers -> TokenRequests] /\ stale' \in [Handlers -> BOOLEAN]
          /\ \A g \in Handlers : TokenRequestHolds(g)'
      BY <1>0, <2>1, <2>2, <2>3, TokenCommits
    <2>6. TokenIInv'
      BY <1>0, <2>1, <2>3, <2>5 DEF TokenIInv, TokenShape, UsesAreServed
    <2>7. Stands
      <3> SUFFICES ASSUME NEW u \in Tokens, revokedAt[u] # 0
                   PROVE  revokedAt'[u] # 0 /\ (revokedAt'[u] = revokedAt[u] \/ stale[h])
        BY DEF Stands
      <3>1. CASE u # t
        BY <2>3, <3>1
      <3>2. CASE u = t
        <4>1. CASE req[h].revoked
          BY <2>3, <3>2, <4>1
        <4>2. CASE ~req[h].revoked
          <5>1. revokedAt'[u] = moment /\ moment # 0
            BY <1>0, <2>3, <3>2, <4>2 DEF TokenShape
          <5>2. stale[h]
            BY <2>4, <3>2, <4>2
          <5> QED BY <5>1, <5>2
        <4> QED BY <4>1, <4>2
      <3> QED BY <3>1, <3>2
    <2> QED BY <1>b, <2>1, <2>6, <2>7
  <1>5. ASSUME NEW h \in Handlers, NEW t \in Tokens, ResolveToken(h, t)
        PROVE  TokenIInv' /\ Stands /\ Refused
    <2> DEFINE r == [op |-> "use", token |-> t, uses |-> uses[t]]
    <2>1. r \in TokenRequests /\ r.op = "use" /\ r.token = t
      BY <1>0 DEF TokenRequests, TokenShape
    <2>2. Begin(h, r) /\ UNCHANGED <<revokedAt, uses, served, moment, miscounted>>
          /\ revokedAt[t] = 0
      BY <1>5 DEF ResolveToken, tokenVars
    <2> HIDE DEF r
    <2>3. req'[h] = r
      BY <1>0, <2>2 DEF Begin, TokenShape
    <2>4. TokenRequestHolds(h)'
      BY <2>1, <2>2, <2>3 DEF TokenRequestHolds, Busy
    <2> QED BY <1>a, <1>b, <2>1, <2>2, <2>4, TokenBegins
  <1>6. ASSUME NEW h \in Handlers, Deliver(h) PROVE TokenIInv' /\ Stands /\ Refused
    <2> DEFINE t == req[h].token
    <2>1. /\ Busy(h, "use") /\ CommitToken(h, t)
          /\ uses' = [uses EXCEPT ![t] = req[h].uses + 1]
          /\ served' = [served EXCEPT ![t] = @ + 1]
          /\ miscounted' = (miscounted \/ uses[t] # req[h].uses)
          /\ UNCHANGED <<revokedAt, moment>>
      BY <1>6 DEF Deliver, RecordUse
    <2>2. t \in Tokens /\ req[h].uses \in Nat
      BY <1>0, <2>1, TokenFields
    <2>3. /\ uses' \in [Tokens -> Nat] /\ served' \in [Tokens -> Nat]
          /\ \A u \in Tokens \ {t} : served'[u] = served[u]
      BY <1>0, <2>1, <2>2 DEF TokenShape
    <2>4. ~stale[h] => revokedAt[t] = 0
      BY <1>0, <2>1 DEF TokenRequestHolds
    <2>5. UsesAreServed'
      <3> SUFFICES ASSUME ~miscounted' PROVE uses' = served'
        BY DEF UsesAreServed
      <3>1. uses = served /\ uses[t] = req[h].uses
        BY <1>0, <2>1 DEF UsesAreServed
      <3> QED BY <2>1, <3>1
    <2> HIDE DEF t
    <2>6. /\ req' \in [Handlers -> TokenRequests] /\ stale' \in [Handlers -> BOOLEAN]
          /\ \A g \in Handlers : TokenRequestHolds(g)'
      BY <1>0, <2>1, <2>2, TokenCommits
    <2>7. TokenIInv'
      BY <1>0, <2>1, <2>3, <2>5, <2>6 DEF TokenIInv, TokenShape
    <2>8. Refused
      BY <2>3, <2>4 DEF Refused
    <2> QED BY <1>a, <2>1, <2>7, <2>8
  <1>7. ASSUME NEW h \in Handlers, Lost(h), UNCHANGED <<tokenVars, served, moment, miscounted>>
        PROVE  TokenIInv' /\ Stands /\ Refused
    BY <1>a, <1>b, <1>7, TokenEnds DEF Lost, tokenVars
  <1>8. CASE UNCHANGED calendarVars
    <2>1. moment' \in Nat \ {0}
      BY <1>0, <1>8 DEF calendarVars, TokenShape
    <2> QED BY <1>8, <1>c, <2>1 DEF calendarVars, tokenVars
  <1> QED
    BY <1>1, <1>2, <1>3, <1>4, <1>5, <1>6, <1>7, <1>8 DEF CalendarNext, RevokeToken, TokenizedIcs

\* Whatever links are polled and revoked at once: a revocation is for good, what was revoked
\* is refused to a request that begins afterwards, and the use counter is the number of
\* calendars delivered unless two deliveries overlapped (CalendarExportService).
THEOREM TokensStayBounded == CalendarSpec => TokensAreBounded
  <1>1. TokenIInv => miscounted \/ uses = served
    BY DEF TokenIInv, UsesAreServed
  <1>2. TokenIInv /\ [CalendarNext]_calendarVars =>
           TokenIInv' /\ [Stands]_calendarVars /\ [Refused]_calendarVars
    BY TokenSteps
  <1>3. CalendarSpec => /\ [](miscounted \/ uses = served)
                        /\ [][Stands]_calendarVars /\ [][Refused]_calendarVars
    BY TokenInitially, <1>1, <1>2, PTL DEF CalendarSpec
  <1> QED BY <1>3 DEF TokensAreBounded, RevocationStands, RevokedIsRefused, Stands, Refused

-----------------------------------------------------------------------------
(* Scores and suggestions. *)

\* At most one row.
Single(rows) == rows = {} \/ \E x : rows = {x}

\* The columns the argument looks at, and what each request says it reads.
ScoringShape ==
    /\ current = [e \in ScoredEvents |-> current[e]]
    /\ decision = [s \in Suggestions |-> decision[s]]
    /\ proposed = [s \in Suggestions |-> proposed[s]]
    /\ req = [h \in Handlers |-> req[h]]
    /\ stale \in [Handlers -> BOOLEAN]
    /\ doubled \in BOOLEAN

\* What a request has read is so until another one writes it.
RescoreHolds(h) ==
    /\ Busy(h, "rescore") => req[h].event \in ScoredEvents
    /\ Busy(h, "rescore_looked") =>
          /\ req[h].event \in ScoredEvents /\ req[h].event \in req[h].reads
          /\ ~stale[h] => req[h].seen = current[req[h].event]

ScoreAllHolds(h) ==
    /\ Busy(h, "score_all") => req[h].event \in ScoredEvents
    /\ Busy(h, "score_all_looked") =>
          /\ req[h].event \in ScoredEvents /\ req[h].event \in req[h].reads
          /\ ~stale[h] => req[h].seen = current[req[h].event]

ApproveHolds(h) ==
    Busy(h, "approve") =>
        /\ req[h].on \in Suggestions /\ req[h].on \in req[h].reads /\ "campaign" \in req[h].reads
        /\ ~stale[h] => /\ decision[req[h].on] = "pending_review"
                        /\ MayMove(weights, proposed[req[h].on])

RejectHolds(h) ==
    Busy(h, "reject") =>
        /\ req[h].on \in Suggestions /\ req[h].on \in req[h].reads
        /\ ~stale[h] => decision[req[h].on] = "pending_review"

ScoringHolds(h) == RescoreHolds(h) /\ ScoreAllHolds(h) /\ ApproveHolds(h) /\ RejectHolds(h)

OneRow == doubled \/ \A e \in ScoredEvents : Single(current[e])

ScoringIInv == ScoringShape /\ OneRow /\ \A h \in Handlers : ScoringHolds(h)

\* What the action property says of one step.
Bounded ==
    \A s \in Suggestions :
        /\ decision[s] = "pending_review" /\ decision'[s] = "approved" =>
               doubled' \/ MayMove(weights, weights')
        /\ decision[s] \in {"approved", "rejected"} =>
               doubled' \/ decision'[s] = decision[s]

ScoringKept == ScoringIInv' /\ Bounded

-----------------------------------------------------------------------------
\* Who is idle relies on nothing.
LEMMA IdleScoringHolds ==
  ASSUME NEW h \in Handlers, req[h] = Idle
  PROVE  ScoringHolds(h)
  <1>1. Idle.op = "idle"
    BY DEF Idle
  <1> QED BY <1>1 DEF ScoringHolds, RescoreHolds, ScoreAllHolds, ApproveHolds, RejectHolds, Busy

\* A request of which nothing it reads has changed.
LEMMA ScoringUntouched ==
  ASSUME NEW h \in Handlers, ScoringHolds(h), req'[h] = req[h],
         stale'[h] \/ /\ stale'[h] = stale[h]
                      /\ \A e \in ScoredEvents \cap req[h].reads : current'[e] = current[e]
                      /\ \A s \in Suggestions \cap req[h].reads :
                            decision'[s] = decision[s] /\ proposed'[s] = proposed[s]
                      /\ "campaign" \in req[h].reads => weights' = weights
  PROVE  ScoringHolds(h)'
  <1>1. RescoreHolds(h)'
    BY DEF ScoringHolds, RescoreHolds, Busy
  <1>2. ScoreAllHolds(h)'
    BY DEF ScoringHolds, ScoreAllHolds, Busy
  <1>3. ApproveHolds(h)'
    BY DEF ScoringHolds, ApproveHolds, Busy
  <1>4. RejectHolds(h)'
    BY DEF ScoringHolds, RejectHolds, Busy
  <1> QED BY <1>1, <1>2, <1>3, <1>4 DEF ScoringHolds

\* A commit tells those that have read what it changes.
LEMMA CommitTells ==
  ASSUME ScoringShape, \A g \in Handlers : ScoringHolds(g),
         NEW h \in Handlers, NEW changed, CommitScoring(h, changed),
         \A e \in ScoredEvents \ changed : current'[e] = current[e],
         \A s \in Suggestions \ changed : decision'[s] = decision[s] /\ proposed'[s] = proposed[s],
         "campaign" \in changed \/ weights' = weights
  PROVE  /\ req' = [g \in Handlers |-> req'[g]] /\ stale' \in [Handlers -> BOOLEAN]
         /\ doubled' \in BOOLEAN
         /\ \A g \in Handlers : ScoringHolds(g)'
  <1>1. /\ req' = [g \in Handlers |-> req'[g]] /\ req'[h] = Idle
        /\ \A g \in Handlers \ {h} : req'[g] = req[g]
    BY DEF CommitScoring, ScoringShape
  <1>2. stale' \in [Handlers -> BOOLEAN]
    BY DEF CommitScoring
  <1>3. doubled' \in BOOLEAN
    BY DEF CommitScoring, ScoringShape
  <1>4. ASSUME NEW g \in Handlers \ {h} PROVE ScoringHolds(g)'
    <2>1. CASE req[g] = Idle
      <3>1. req'[g] = Idle
        BY <1>1, <2>1
      <3>2. Idle.op = "idle"
        BY DEF Idle
      <3> QED BY <3>1, <3>2 DEF ScoringHolds, RescoreHolds, ScoreAllHolds, ApproveHolds, RejectHolds, Busy
    <2>2. CASE req[g] # Idle
      <3>1. stale'[g] = (stale[g] \/ req[g].reads \cap changed # {})
        <4>1. stale'[g] <=> (stale[g] \/ req[g].reads \cap changed # {})
          BY <2>2 DEF CommitScoring
        <4> QED BY <1>2, <4>1
      <3>2. CASE req[g].reads \cap changed # {}
        <4>1. stale'[g]
          BY <3>1, <3>2
        <4> QED BY <1>1, <4>1, ScoringUntouched
      <3>3. CASE req[g].reads \cap changed = {}
        <4>1. stale'[g] = stale[g]
          BY <3>1, <3>3 DEF ScoringShape
        <4>2. \A e \in ScoredEvents \cap req[g].reads : current'[e] = current[e]
          BY <3>3
        <4>3. \A s \in Suggestions \cap req[g].reads :
                 decision'[s] = decision[s] /\ proposed'[s] = proposed[s]
          BY <3>3
        <4>4. "campaign" \in req[g].reads => weights' = weights
          BY <3>3
        <4>5. req'[g] = req[g] /\ ScoringHolds(g)
          BY <1>1
        <4> QED BY <4>1, <4>2, <4>3, <4>4, <4>5, ScoringUntouched
      <3> QED BY <3>2, <3>3
    <2> QED BY <2>1, <2>2
  <1>5. ScoringHolds(h)'
    <2>1. Idle.op = "idle"
      BY DEF Idle
    <2> QED BY <1>1, <2>1 DEF ScoringHolds, RescoreHolds, ScoreAllHolds, ApproveHolds, RejectHolds, Busy
  <1> QED BY <1>1, <1>2, <1>3, <1>4, <1>5

\* A request that begins changes no row.
LEMMA ScoringBegins ==
  ASSUME ScoringIInv, NEW h \in Handlers, NEW r, ScoringHolds(h)',
         req' = [req EXCEPT ![h] = r], stale' = [stale EXCEPT ![h] = FALSE],
         UNCHANGED <<weights, current, inserted, decision, proposed, doubled>>
  PROVE  ScoringKept
  <1>1. /\ req' = [g \in Handlers |-> req'[g]] /\ stale' \in [Handlers -> BOOLEAN]
        /\ \A g \in Handlers \ {h} : req'[g] = req[g] /\ stale'[g] = stale[g]
    BY DEF ScoringIInv, ScoringShape
  <1>2. \A g \in Handlers \ {h} : ScoringHolds(g)'
    BY <1>1, ScoringUntouched DEF ScoringIInv
  <1>3. ScoringShape'
    BY <1>1 DEF ScoringIInv, ScoringShape
  <1>4. OneRow'
    BY DEF ScoringIInv, OneRow
  <1>5. Bounded
    BY DEF Bounded
  <1> QED BY <1>2, <1>3, <1>4, <1>5 DEF ScoringIInv, ScoringKept

\* One row replaces those there were.
LEMMA AppendedIsSingle ==
  \A rows, i, w : Single(AppendScore(rows, rows, i, w))
  BY DEF AppendScore, Single

\* A request that looks at the scores of an event finds what it will supersede.
LEMMA LookKeeps ==
  ASSUME ScoringIInv, NEW h \in Handlers, NEW op \in {"rescore_looked", "score_all_looked"},
         NEW e \in ScoredEvents, Look(h, op, e)
  PROVE  ScoringKept
  <1> DEFINE r == [op |-> op, reads |-> {e}, event |-> e,
                   weights |-> req[h].weights, seen |-> current[e]]
  <1>1. r.op = op /\ r.event = e /\ e \in r.reads /\ r.seen = current[e]
    OBVIOUS
  <1>2. /\ req' = [req EXCEPT ![h] = r] /\ stale' = [stale EXCEPT ![h] = FALSE]
        /\ UNCHANGED <<weights, current, inserted, decision, proposed, doubled>>
    BY DEF Look, scoringRows
  <1> HIDE DEF r
  <1>3. req'[h] = r
    BY <1>2 DEF ScoringIInv, ScoringShape
  <1>4. ScoringHolds(h)'
    BY <1>1, <1>2, <1>3 DEF ScoringHolds, RescoreHolds, ScoreAllHolds, ApproveHolds, RejectHolds, Busy
  <1> QED BY <1>2, <1>4, ScoringBegins

\* At the start there are no scores and no requests.
LEMMA ScoringInitially == ScoringInit => ScoringIInv
  <1> SUFFICES ASSUME ScoringInit PROVE ScoringIInv
    OBVIOUS
  <1>1. ScoringShape
    BY DEF ScoringInit, NoRequests, ScoringShape
  <1>2. OneRow
    BY DEF ScoringInit, OneRow, Single
  <1>3. \A h \in Handlers : req[h] = Idle
    BY DEF ScoringInit, NoRequests
  <1> QED BY <1>1, <1>2, <1>3, IdleScoringHolds DEF ScoringIInv

\* One event is rescored.
LEMMA RescoreSteps ==
  ASSUME ScoringIInv, NEW h \in Handlers, Rescore(h)
  PROVE  ScoringKept
  <1>0. ScoringShape /\ OneRow /\ \A g \in Handlers : ScoringHolds(g)
    BY DEF ScoringIInv
  <1>1. ASSUME NEW e \in ScoredEvents, RescoreRead(h, e) PROVE ScoringKept
    <2> DEFINE r == [op |-> "rescore", reads |-> {}, event |-> e, weights |-> weights]
    <2>1. r.op = "rescore" /\ r.event = e
      OBVIOUS
    <2>2. Begin(h, r) /\ UNCHANGED <<weights, current, inserted, decision, proposed, doubled>>
      BY <1>1 DEF RescoreRead, scoringRows
    <2> HIDE DEF r
    <2>3. req'[h] = r
      BY <1>0, <2>2 DEF Begin, ScoringShape
    <2>4. ScoringHolds(h)'
      BY <2>1, <2>2, <2>3 DEF ScoringHolds, RescoreHolds, ScoreAllHolds, ApproveHolds, RejectHolds, Busy
    <2> QED BY <2>2, <2>4, ScoringBegins DEF Begin
  <1>2. CASE RescoreWrite(h)
    <2> DEFINE e == req[h].event
    <2>1. /\ Busy(h, "rescore_looked") /\ CommitScoring(h, {e})
          /\ current' = [current EXCEPT ![e] =
                            AppendScore(@, req[h].seen, inserted', req[h].weights)]
          /\ UNCHANGED <<weights, decision, proposed>>
      BY <1>2 DEF RescoreWrite
    <2>2. e \in ScoredEvents /\ (~stale[h] => req[h].seen = current[e])
      BY <1>0, <2>1 DEF ScoringHolds, RescoreHolds
    <2>3. /\ current' = [x \in ScoredEvents |-> current'[x]]
          /\ current'[e] = AppendScore(current[e], req[h].seen, inserted', req[h].weights)
          /\ \A x \in ScoredEvents \ {e} : current'[x] = current[x]
      BY <1>0, <2>1, <2>2 DEF ScoringShape
    <2>4. /\ req' = [g \in Handlers |-> req'[g]] /\ stale' \in [Handlers -> BOOLEAN]
          /\ doubled' \in BOOLEAN
          /\ \A g \in Handlers : ScoringHolds(g)'
      <3> HIDE DEF e
      <3> QED BY <1>0, <2>1, <2>3, CommitTells
    <2>5. OneRow'
      <3> SUFFICES ASSUME ~doubled', NEW x \in ScoredEvents PROVE Single(current'[x])
        BY DEF OneRow
      <3>1. ~doubled /\ ~stale[h]
        BY <2>1 DEF CommitScoring
      <3>2. Single(current[x])
        BY <1>0, <3>1 DEF OneRow
      <3>3. req[h].seen = current[e]
        BY <2>2, <3>1
      <3> QED BY <2>3, <3>2, <3>3, AppendedIsSingle
    <2>6. ScoringShape'
      BY <1>0, <2>1, <2>3, <2>4 DEF ScoringShape
    <2>7. Bounded
      BY <2>1 DEF Bounded
    <2> QED BY <2>4, <2>5, <2>6, <2>7 DEF ScoringKept, ScoringIInv
  <1>3. CASE RescoreLook(h)
    <2>1. req[h].event \in ScoredEvents
      BY <1>0, <1>3 DEF RescoreLook, ScoringHolds, RescoreHolds
    <2> QED BY <1>3, <2>1, LookKeeps DEF RescoreLook
  <1> QED BY <1>1, <1>2, <1>3 DEF Rescore

\* The worker scores the events that have no score.
LEMMA ScoreAllSteps ==
  ASSUME ScoringIInv, NEW h \in Handlers, ScoreAll(h)
  PROVE  ScoringKept
  <1>0. ScoringShape /\ OneRow /\ \A g \in Handlers : ScoringHolds(g)
    BY DEF ScoringIInv
  <1>1. ASSUME NEW e \in ScoredEvents, ScoreAllRead(h, e) PROVE ScoringKept
    <2> DEFINE r == [op |-> "score_all", reads |-> {}, event |-> e, weights |-> weights]
    <2>1. r.op = "score_all" /\ r.event = e
      OBVIOUS
    <2>2. Begin(h, r)
          /\ UNCHANGED <<weights, current, inserted, decision, proposed, doubled>>
      BY <1>1 DEF ScoreAllRead, scoringRows
    <2> HIDE DEF r
    <2>3. req'[h] = r
      BY <1>0, <2>2 DEF Begin, ScoringShape
    <2>4. ScoringHolds(h)'
      BY <2>1, <2>2, <2>3 DEF ScoringHolds, RescoreHolds, ScoreAllHolds, ApproveHolds, RejectHolds, Busy
    <2> QED BY <2>2, <2>4, ScoringBegins DEF Begin
  <1>2. CASE ScoreAllWrite(h)
    <2> DEFINE e == req[h].event
               scored == {e} \cup {x \in ScoredEvents : current[x] = {}}
               seen == [x \in scored |-> IF x = e THEN req[h].seen ELSE {}]
    <2>1. Busy(h, "score_all_looked") /\ CommitScoring(h, scored) /\ UNCHANGED <<weights, decision, proposed>>
      BY <1>2 DEF ScoreAllWrite
    <2>2. PICK number \in [scored -> inserted + 1 .. inserted'] :
             current' = [x \in ScoredEvents |->
                            IF x \in scored
                            THEN AppendScore(current[x], seen[x], number[x], req[h].weights)
                            ELSE current[x]]
      BY <1>2 DEF ScoreAllWrite
    <2>3. e \in ScoredEvents /\ (~stale[h] => req[h].seen = current[e])
      BY <1>0, <2>1 DEF ScoringHolds, ScoreAllHolds
    <2>4. \A x \in scored : x = e \/ current[x] = {}
      OBVIOUS
    <2>10. \A x \in scored : seen[x] = IF x = e THEN req[h].seen ELSE {}
      OBVIOUS
    <2> HIDE DEF e, scored, seen
    <2>5. current' = [x \in ScoredEvents |-> current'[x]]
          /\ \A x \in ScoredEvents \ scored : current'[x] = current[x]
      BY <2>2
    <2>6. /\ req' = [g \in Handlers |-> req'[g]] /\ stale' \in [Handlers -> BOOLEAN]
          /\ doubled' \in BOOLEAN
          /\ \A g \in Handlers : ScoringHolds(g)'
      BY <1>0, <2>1, <2>5, CommitTells
    <2>7. OneRow'
      <3> SUFFICES ASSUME ~doubled', NEW x \in ScoredEvents PROVE Single(current'[x])
        BY DEF OneRow
      <3>1. ~doubled /\ ~stale[h]
        BY <2>1 DEF CommitScoring
      <3>2. CASE x \in scored
        <4>1. seen[x] = current[x]
          BY <2>3, <2>4, <2>10, <3>1, <3>2
        <4>2. current'[x] = AppendScore(current[x], current[x], number[x], req[h].weights)
          BY <2>2, <3>2, <4>1
        <4> QED BY <4>2, AppendedIsSingle
      <3>3. CASE x \notin scored
        BY <1>0, <2>5, <3>1, <3>3 DEF OneRow
      <3> QED BY <3>2, <3>3
    <2>8. ScoringShape'
      BY <1>0, <2>1, <2>5, <2>6 DEF ScoringShape
    <2>9. Bounded
      BY <2>1 DEF Bounded
    <2> QED BY <2>6, <2>7, <2>8, <2>9 DEF ScoringKept, ScoringIInv
  <1>3. CASE ScoreAllLook(h)
    <2>1. req[h].event \in ScoredEvents
      BY <1>0, <1>3 DEF ScoreAllLook, ScoringHolds, ScoreAllHolds
    <2> QED BY <1>3, <2>1, LookKeeps DEF ScoreAllLook
  <1> QED BY <1>1, <1>2, <1>3 DEF ScoreAll

\* The weights are edited, or a suggestion for them is generated.
LEMMA WeightSteps ==
  ASSUME ScoringIInv, NEW h \in Handlers,
         \/ \E w \in Weights : PatchWeights(h, w)
         \/ \E s \in Suggestions, w \in Weights : GenerateSuggestion(h, s, w)
  PROVE  ScoringKept
  <1>0. ScoringShape /\ OneRow /\ \A g \in Handlers : ScoringHolds(g)
    BY DEF ScoringIInv
  <1>1. ASSUME NEW w \in Weights, PatchWeights(h, w) PROVE ScoringKept
    <2>1. CommitScoring(h, {"campaign"}) /\ UNCHANGED <<current, inserted, decision, proposed>>
      BY <1>1 DEF PatchWeights
    <2>2. /\ req' = [g \in Handlers |-> req'[g]] /\ stale' \in [Handlers -> BOOLEAN]
          /\ doubled' \in BOOLEAN
          /\ \A g \in Handlers : ScoringHolds(g)'
      <3>1. /\ \A e \in ScoredEvents \ {"campaign"} : current'[e] = current[e]
            /\ \A s \in Suggestions \ {"campaign"} :
                  decision'[s] = decision[s] /\ proposed'[s] = proposed[s]
        BY <2>1
      <3> QED BY <1>0, <2>1, <3>1, CommitTells
    <2>3. OneRow'
      BY <1>0, <2>1 DEF OneRow, CommitScoring
    <2>4. ScoringShape'
      BY <1>0, <2>1, <2>2 DEF ScoringShape
    <2>5. Bounded
      BY <2>1 DEF Bounded
    <2> QED BY <2>2, <2>3, <2>4, <2>5 DEF ScoringKept, ScoringIInv
  <1>2. ASSUME NEW s \in Suggestions, NEW w \in Weights, GenerateSuggestion(h, s, w) PROVE ScoringKept
    <2>1. /\ CommitScoring(h, {s}) /\ decision[s] = "none"
          /\ decision' = [decision EXCEPT ![s] = "pending_review"]
          /\ proposed' = [proposed EXCEPT ![s] = w]
          /\ UNCHANGED <<weights, current, inserted>>
      BY <1>2 DEF GenerateSuggestion
    <2>2. /\ decision' = [x \in Suggestions |-> decision'[x]]
          /\ proposed' = [x \in Suggestions |-> proposed'[x]]
          /\ \A x \in Suggestions \ {s} : decision'[x] = decision[x] /\ proposed'[x] = proposed[x]
      BY <1>0, <2>1 DEF ScoringShape
    <2>3. /\ req' = [g \in Handlers |-> req'[g]] /\ stale' \in [Handlers -> BOOLEAN]
          /\ doubled' \in BOOLEAN
          /\ \A g \in Handlers : ScoringHolds(g)'
      <3>1. \A e \in ScoredEvents \ {s} : current'[e] = current[e]
        BY <2>1
      <3> QED BY <1>0, <2>1, <2>2, <3>1, CommitTells
    <2>4. OneRow'
      BY <1>0, <2>1 DEF OneRow, CommitScoring
    <2>5. ScoringShape'
      BY <1>0, <2>1, <2>2, <2>3 DEF ScoringShape
    <2>6. Bounded
      <3> SUFFICES ASSUME NEW x \in Suggestions PROVE
            /\ decision[x] = "pending_review" /\ decision'[x] = "approved" =>
                   doubled' \/ MayMove(weights, weights')
            /\ decision[x] \in {"approved", "rejected"} => doubled' \/ decision'[x] = decision[x]
        BY DEF Bounded
      <3>1. CASE x = s
        BY <2>1, <3>1
      <3>2. CASE x # s
        BY <2>2, <3>2
      <3> QED BY <3>1, <3>2
    <2> QED BY <2>3, <2>4, <2>5, <2>6 DEF ScoringKept, ScoringIInv
  <1> QED BY <1>1, <1>2

\* A suggestion is approved.
LEMMA ApproveSteps ==
  ASSUME ScoringIInv, NEW h \in Handlers, ApproveSuggestion(h)
  PROVE  ScoringKept
  <1>0. ScoringShape /\ OneRow /\ \A g \in Handlers : ScoringHolds(g)
    BY DEF ScoringIInv
  <1>1. ASSUME NEW s \in Suggestions, ApproveRead(h, s) PROVE ScoringKept
    <2> DEFINE r == [op |-> "approve", reads |-> {s, "campaign"}, on |-> s]
    <2>1. r.op = "approve" /\ r.on = s /\ s \in r.reads /\ "campaign" \in r.reads
      OBVIOUS
    <2>2. /\ Begin(h, r) /\ decision[s] = "pending_review" /\ MayMove(weights, proposed[s])
          /\ UNCHANGED <<weights, current, inserted, decision, proposed, doubled>>
      BY <1>1 DEF ApproveRead, scoringRows
    <2> HIDE DEF r
    <2>3. req'[h] = r
      BY <1>0, <2>2 DEF Begin, ScoringShape
    <2>4. ScoringHolds(h)'
      BY <2>1, <2>2, <2>3
         DEF ScoringHolds, RescoreHolds, ScoreAllHolds, ApproveHolds, RejectHolds, Busy, MayMove
    <2> QED BY <2>2, <2>4, ScoringBegins DEF Begin
  <1>2. CASE ApproveWrite(h)
    <2> DEFINE s == req[h].on
    <2>1. /\ Busy(h, "approve") /\ CommitScoring(h, {s, "campaign"})
          /\ weights' = proposed[s]
          /\ decision' = [decision EXCEPT ![s] = "approved"]
          /\ UNCHANGED <<current, inserted, proposed>>
      BY <1>2 DEF ApproveWrite, EditWeights
    <2>2. /\ s \in Suggestions
          /\ ~stale[h] => decision[s] = "pending_review" /\ MayMove(weights, proposed[s])
      BY <1>0, <2>1 DEF ScoringHolds, ApproveHolds
    <2> HIDE DEF s
    <2>3. /\ decision' = [x \in Suggestions |-> decision'[x]]
          /\ \A x \in Suggestions \ {s} : decision'[x] = decision[x]
      BY <1>0, <2>1 DEF ScoringShape
    <2>4. /\ req' = [g \in Handlers |-> req'[g]] /\ stale' \in [Handlers -> BOOLEAN]
          /\ doubled' \in BOOLEAN
          /\ \A g \in Handlers : ScoringHolds(g)'
      <3>1. /\ \A e \in ScoredEvents \ {s, "campaign"} : current'[e] = current[e]
            /\ \A x \in Suggestions \ {s, "campaign"} :
                  decision'[x] = decision[x] /\ proposed'[x] = proposed[x]
        BY <2>1, <2>3
      <3> QED BY <1>0, <2>1, <3>1, CommitTells
    <2>5. OneRow'
      BY <1>0, <2>1 DEF OneRow, CommitScoring
    <2>6. ScoringShape'
      BY <1>0, <2>1, <2>3, <2>4 DEF ScoringShape
    <2>7. Bounded
      <3>1. ~doubled' => decision[s] = "pending_review" /\ MayMove(weights, weights')
        BY <2>1, <2>2 DEF CommitScoring, MayMove
      <3> QED BY <2>3, <3>1 DEF Bounded
    <2> QED BY <2>4, <2>5, <2>6, <2>7 DEF ScoringKept, ScoringIInv
  <1> QED BY <1>1, <1>2 DEF ApproveSuggestion

\* A suggestion is rejected.
LEMMA RejectSteps ==
  ASSUME ScoringIInv, NEW h \in Handlers, RejectSuggestion(h)
  PROVE  ScoringKept
  <1>0. ScoringShape /\ OneRow /\ \A g \in Handlers : ScoringHolds(g)
    BY DEF ScoringIInv
  <1>1. ASSUME NEW s \in Suggestions, RejectRead(h, s) PROVE ScoringKept
    <2> DEFINE r == [op |-> "reject", reads |-> {s}, on |-> s]
    <2>1. r.op = "reject" /\ r.on = s /\ s \in r.reads
      OBVIOUS
    <2>2. /\ Begin(h, r) /\ decision[s] = "pending_review"
          /\ UNCHANGED <<weights, current, inserted, decision, proposed, doubled>>
      BY <1>1 DEF RejectRead, scoringRows
    <2> HIDE DEF r
    <2>3. req'[h] = r
      BY <1>0, <2>2 DEF Begin, ScoringShape
    <2>4. ScoringHolds(h)'
      BY <2>1, <2>2, <2>3 DEF ScoringHolds, RescoreHolds, ScoreAllHolds, ApproveHolds, RejectHolds, Busy
    <2> QED BY <2>2, <2>4, ScoringBegins DEF Begin
  <1>2. CASE RejectWrite(h)
    <2> DEFINE s == req[h].on
    <2>1. /\ Busy(h, "reject") /\ CommitScoring(h, {s})
          /\ decision' = [decision EXCEPT ![s] = "rejected"]
          /\ UNCHANGED <<weights, current, inserted, proposed>>
      BY <1>2 DEF RejectWrite
    <2>2. s \in Suggestions /\ (~stale[h] => decision[s] = "pending_review")
      BY <1>0, <2>1 DEF ScoringHolds, RejectHolds
    <2> HIDE DEF s
    <2>3. /\ decision' = [x \in Suggestions |-> decision'[x]]
          /\ decision'[s] = "rejected"
          /\ \A x \in Suggestions \ {s} : decision'[x] = decision[x]
      BY <1>0, <2>1, <2>2 DEF ScoringShape
    <2>4. /\ req' = [g \in Handlers |-> req'[g]] /\ stale' \in [Handlers -> BOOLEAN]
          /\ doubled' \in BOOLEAN
          /\ \A g \in Handlers : ScoringHolds(g)'
      <3>1. /\ \A e \in ScoredEvents \ {s} : current'[e] = current[e]
            /\ \A x \in Suggestions \ {s} :
                  decision'[x] = decision[x] /\ proposed'[x] = proposed[x]
        BY <2>1, <2>3
      <3> QED BY <1>0, <2>1, <3>1, CommitTells
    <2>5. OneRow'
      BY <1>0, <2>1 DEF OneRow, CommitScoring
    <2>6. ScoringShape'
      BY <1>0, <2>1, <2>3, <2>4 DEF ScoringShape
    <2>7. Bounded
      <3>1. ~doubled' => decision[s] = "pending_review"
        BY <2>1, <2>2 DEF CommitScoring
      <3> QED BY <2>3, <3>1 DEF Bounded
    <2> QED BY <2>4, <2>5, <2>6, <2>7 DEF ScoringKept, ScoringIInv
  <1> QED BY <1>1, <1>2 DEF RejectSuggestion

\* Every step keeps the invariant and does what the action property allows.
LEMMA ScoringSteps == ScoringIInv /\ [ScoringNext]_scoringVars => ScoringKept
  <1> SUFFICES ASSUME ScoringIInv, [ScoringNext]_scoringVars PROVE ScoringKept
    OBVIOUS
  <1>0. ScoringShape /\ OneRow /\ \A g \in Handlers : ScoringHolds(g)
    BY DEF ScoringIInv
  <1>1. ASSUME NEW h \in Handlers, Lost(h),
               UNCHANGED <<weights, current, inserted, decision, proposed, doubled>>
        PROVE  ScoringKept
    <2>1. /\ req' = [g \in Handlers |-> req'[g]] /\ stale' \in [Handlers -> BOOLEAN]
          /\ req'[h] = Idle
          /\ \A g \in Handlers \ {h} : req'[g] = req[g] /\ stale'[g] = stale[g]
      BY <1>0, <1>1 DEF Lost, End, ScoringShape
    <2>2. \A g \in Handlers \ {h} : ScoringHolds(g)'
      BY <1>0, <1>1, <2>1, ScoringUntouched
    <2>3. ScoringHolds(h)'
      <3>1. Idle.op = "idle"
        BY DEF Idle
      <3> QED BY <2>1, <3>1
           DEF ScoringHolds, RescoreHolds, ScoreAllHolds, ApproveHolds, RejectHolds, Busy
    <2>4. ScoringShape'
      BY <1>0, <1>1, <2>1 DEF ScoringShape
    <2>5. OneRow' /\ Bounded
      BY <1>0, <1>1 DEF OneRow, Bounded
    <2> QED BY <2>2, <2>3, <2>4, <2>5 DEF ScoringKept, ScoringIInv
  <1>2. CASE UNCHANGED scoringVars
    <2>1. UNCHANGED <<weights, current, decision, proposed, doubled, req, stale>>
      BY <1>2 DEF scoringVars, scoringRows, requestVars
    <2>2. \A g \in Handlers : ScoringHolds(g)'
      BY <1>0, <2>1, ScoringUntouched
    <2>3. ScoringShape'
      BY <1>0, <2>1 DEF ScoringShape
    <2>4. OneRow' /\ Bounded
      BY <1>0, <2>1 DEF OneRow, Bounded
    <2> QED BY <2>2, <2>3, <2>4 DEF ScoringKept, ScoringIInv
  <1> QED
    BY <1>1, <1>2, RescoreSteps, ScoreAllSteps, WeightSteps, ApproveSteps, RejectSteps DEF ScoringNext

-----------------------------------------------------------------------------
\* What a request scores with are the weights in force, until they are edited.
ReadWeights(h) ==
    req[h].op \in ScoringOps /\ h \notin edited => req[h].weights = weights

\* The scores there are were inserted, and are of the weights in force unless dated.
Inserted == \A e \in ScoredEvents : \A x \in current[e] : x.id \in 1 .. inserted

WeightsIInv ==
    /\ inserted \in Nat
    /\ req = [h \in Handlers |-> req[h]]
    /\ current = [e \in ScoredEvents |-> current[e]]
    /\ \A h \in Handlers : ReadWeights(h)
    /\ Inserted
    /\ ScoresAreOfTheWeights

\* At the start there are no scores.
LEMMA WeightsInitially == ScoringInit => WeightsIInv
  <1> SUFFICES ASSUME ScoringInit PROVE WeightsIInv
    OBVIOUS
  <1>1. \A h \in Handlers : req[h] = Idle
    BY DEF ScoringInit, NoRequests
  <1>2. Idle.op \notin ScoringOps
    BY DEF Idle, ScoringOps
  <1>3. /\ req = [h \in Handlers |-> req[h]] /\ current = [e \in ScoredEvents |-> current[e]]
    BY DEF ScoringInit, NoRequests
  <1>4. inserted \in Nat /\ \A e \in ScoredEvents : current[e] = {}
    BY DEF ScoringInit
  <1> QED BY <1>1, <1>2, <1>3, <1>4 DEF WeightsIInv, ReadWeights, Inserted, ScoresAreOfTheWeights

\* A request moves on, and writes neither weights nor scores.
LEMMA WeightsRead ==
  ASSUME WeightsIInv, NEW h \in Handlers, NEW r, req' = [req EXCEPT ![h] = r],
         UNCHANGED <<weights, current, inserted, dated>>, edited \ {h} \subseteq edited',
         r.op \in ScoringOps /\ h \notin edited' => r.weights = weights
  PROVE  WeightsIInv'
  <1>1. /\ req' = [g \in Handlers |-> req'[g]] /\ req'[h] = r
        /\ \A g \in Handlers \ {h} : req'[g] = req[g]
    BY DEF WeightsIInv
  <1>2. ASSUME NEW g \in Handlers PROVE ReadWeights(g)'
    BY <1>1 DEF WeightsIInv, ReadWeights
  <1>3. Inserted' /\ ScoresAreOfTheWeights'
    BY DEF WeightsIInv, Inserted, ScoresAreOfTheWeights
  <1> QED BY <1>1, <1>2, <1>3 DEF WeightsIInv

\* An edit dates the scores there are and those that are being calculated.
LEMMA WeightsEdited ==
  ASSUME WeightsIInv, NEW h \in Handlers, NEW w, EditWeights(w),
         req' = [req EXCEPT ![h] = Idle], UNCHANGED <<current, inserted>>
  PROVE  WeightsIInv'
  <1>1. /\ req' = [g \in Handlers |-> req'[g]] /\ req'[h] = Idle
        /\ \A g \in Handlers \ {h} : req'[g] = req[g]
    BY DEF WeightsIInv
  <1>2. Idle.op \notin ScoringOps
    BY DEF Idle, ScoringOps
  <1>3. ASSUME NEW g \in Handlers PROVE ReadWeights(g)'
    BY <1>1, <1>2 DEF ReadWeights, EditWeights
  <1>4. Inserted' /\ ScoresAreOfTheWeights'
    <2>1. dated' = 1 .. inserted
      BY DEF EditWeights
    <2> QED BY <2>1 DEF WeightsIInv, Inserted, ScoresAreOfTheWeights
  <1> QED BY <1>1, <1>3, <1>4 DEF WeightsIInv

\* The scores a request adds are of the weights it has read.
LEMMA WeightsScored ==
  ASSUME WeightsIInv, NEW h \in Handlers, NEW n \in Nat, req[h].op \in ScoringOps,
         AddScores(h, n), weights' = weights, req' = [req EXCEPT ![h] = Idle],
         current' = [e \in ScoredEvents |-> current'[e]],
         \A e \in ScoredEvents : \A x \in current'[e] :
             \/ x \in current[e]
             \/ (x.id \in inserted + 1 .. inserted' /\ x.weights = req[h].weights)
  PROVE  WeightsIInv'
  <1>1. /\ req' = [g \in Handlers |-> req'[g]] /\ req'[h] = Idle
        /\ \A g \in Handlers \ {h} : req'[g] = req[g]
    BY DEF WeightsIInv
  <1>2. Idle.op \notin ScoringOps
    BY DEF Idle, ScoringOps
  <1>3. /\ inserted \in Nat /\ inserted' = inserted + n /\ inserted' \in Nat
        /\ edited' = edited \ {h}
        /\ dated' = dated \cup {i \in inserted + 1 .. inserted' : h \in edited}
    BY DEF WeightsIInv, AddScores
  <1>4. ASSUME NEW g \in Handlers PROVE ReadWeights(g)'
    BY <1>1, <1>2, <1>3 DEF ReadWeights, WeightsIInv
  <1>5. Inserted'
    <2>1. \A i : i \in 1 .. inserted \/ i \in inserted + 1 .. inserted' => i \in 1 .. inserted'
      BY <1>3
    <2> QED BY <2>1 DEF WeightsIInv, Inserted
  <1>6. ScoresAreOfTheWeights'
    <2> SUFFICES ASSUME NEW e \in ScoredEvents, NEW x \in current'[e]
                 PROVE  x.weights = weights \/ x.id \in dated'
      BY DEF ScoresAreOfTheWeights
    <2>1. CASE x \in current[e]
      BY <1>3, <2>1 DEF WeightsIInv, ScoresAreOfTheWeights
    <2>2. CASE x.id \in inserted + 1 .. inserted' /\ x.weights = req[h].weights
      <3>1. CASE h \in edited
        BY <1>3, <2>2, <3>1
      <3>2. CASE h \notin edited
        BY <2>2, <3>2 DEF WeightsIInv, ReadWeights
      <3> QED BY <3>1, <3>2
    <2> QED BY <2>1, <2>2
  <1> QED BY <1>1, <1>3, <1>4, <1>5, <1>6 DEF WeightsIInv

\* Scoring: a request reads the weights, looks, and adds what it has calculated.
LEMMA ScoringKeepsWeights ==
  ASSUME WeightsIInv, ScoringIInv, NEW h \in Handlers, Rescore(h) \/ ScoreAll(h)
  PROVE  WeightsIInv'
  <1>0. ScoringHolds(h) /\ current = [e \in ScoredEvents |-> current[e]]
    BY DEF ScoringIInv, WeightsIInv
  <1>1. ASSUME NEW e \in ScoredEvents, NEW op,
               Begin(h, [op |-> op, reads |-> {}, event |-> e, weights |-> weights]),
               UNCHANGED scoringRows
        PROVE  WeightsIInv'
    <2> DEFINE r == [op |-> op, reads |-> {}, event |-> e, weights |-> weights]
    <2>1. r.weights = weights
      OBVIOUS
    <2>2. /\ req' = [req EXCEPT ![h] = r]
          /\ UNCHANGED <<weights, current, inserted, edited, dated>>
      BY <1>1 DEF Begin, scoringRows
    <2> HIDE DEF r
    <2> QED BY <2>1, <2>2, WeightsRead
  <1>2. ASSUME NEW e, NEW op, req[h].op \in ScoringOps, Look(h, op, e) PROVE WeightsIInv'
    <2> DEFINE r == [op |-> op, reads |-> {e}, event |-> e,
                     weights |-> req[h].weights, seen |-> current[e]]
    <2>1. h \notin edited => r.weights = weights
      BY <1>2 DEF WeightsIInv, ReadWeights
    <2>2. /\ req' = [req EXCEPT ![h] = r]
          /\ UNCHANGED <<weights, current, inserted, edited, dated>>
      BY <1>2 DEF Look, scoringRows
    <2> HIDE DEF r
    <2> QED BY <2>1, <2>2, WeightsRead
  <1>3. CASE RescoreWrite(h)
    <2> DEFINE e == req[h].event
               w == req[h].weights
    <2>1. /\ Busy(h, "rescore_looked") /\ AddScores(h, 1) /\ CommitScoring(h, {e})
          /\ current' = [current EXCEPT ![e] = AppendScore(@, req[h].seen, inserted', w)]
          /\ weights' = weights
      BY <1>3 DEF RescoreWrite
    <2>2. e \in ScoredEvents /\ req[h].op \in ScoringOps
      BY <1>0, <2>1 DEF ScoringHolds, RescoreHolds, Busy, ScoringOps
    <2>3. req' = [req EXCEPT ![h] = Idle]
      BY <2>1 DEF CommitScoring
    <2> HIDE DEF e, w
    <2>4. /\ current' = [x \in ScoredEvents |-> current'[x]]
          /\ current'[e] = AppendScore(current[e], req[h].seen, inserted', w)
          /\ \A x \in ScoredEvents \ {e} : current'[x] = current[x]
      BY <1>0, <2>1, <2>2
    <2>5. inserted' \in inserted + 1 .. inserted'
      BY <2>1 DEF AddScores, WeightsIInv
    <2>6. \A d \in ScoredEvents : \A x \in current'[d] :
             x \in current[d] \/ (x.id \in inserted + 1 .. inserted' /\ x.weights = w)
      <3>1. \A x \in current'[e] : x \in current[e] \/ x = [id |-> inserted', weights |-> w]
        BY <2>4 DEF AppendScore
      <3>2. \A x \in current'[e] :
               x \in current[e] \/ (x.id \in inserted + 1 .. inserted' /\ x.weights = w)
        BY <2>5, <3>1
      <3> QED BY <2>4, <3>2
    <2> QED BY <2>1, <2>2, <2>3, <2>4, <2>6, WeightsScored DEF w
  <1>4. CASE ScoreAllWrite(h)
    <2> DEFINE e == req[h].event
               w == req[h].weights
               scored == {e} \cup {x \in ScoredEvents : current[x] = {}}
               seen == [x \in scored |-> IF x = e THEN req[h].seen ELSE {}]
               n == Cardinality(scored)
    <2>1. /\ Busy(h, "score_all_looked") /\ AddScores(h, n) /\ CommitScoring(h, scored)
          /\ weights' = weights
      BY <1>4 DEF ScoreAllWrite
    <2>2. PICK number \in [scored -> inserted + 1 .. inserted'] :
             current' = [x \in ScoredEvents |->
                            IF x \in scored
                            THEN AppendScore(current[x], seen[x], number[x], w)
                            ELSE current[x]]
      BY <1>4 DEF ScoreAllWrite
    <2>3. req[h].op \in ScoringOps /\ e \in ScoredEvents
      BY <1>0, <2>1 DEF ScoringHolds, ScoreAllHolds, Busy, ScoringOps
    <2>4. n \in Nat
      <3>1. scored \in SUBSET ScoredEvents
        BY <2>3
      <3> QED BY <3>1, FS_Subset, FS_CardinalityType, ScoringAssumption
    <2>5. req' = [req EXCEPT ![h] = Idle]
      BY <2>1 DEF CommitScoring
    <2> HIDE DEF e, w, scored, seen, n
    <2>6. /\ current' = [x \in ScoredEvents |-> current'[x]]
          /\ \A x \in ScoredEvents \ scored : current'[x] = current[x]
          /\ \A x \in ScoredEvents \cap scored :
                current'[x] = AppendScore(current[x], seen[x], number[x], w)
      BY <2>2
    <2>7. \A d \in ScoredEvents : \A x \in current'[d] :
             x \in current[d] \/ (x.id \in inserted + 1 .. inserted' /\ x.weights = w)
      <3>1. ASSUME NEW d \in ScoredEvents \cap scored, NEW x \in current'[d]
            PROVE  x \in current[d] \/ (x.id \in inserted + 1 .. inserted' /\ x.weights = w)
        <4>1. x \in current[d] \/ x = [id |-> number[d], weights |-> w]
          BY <2>6, <3>1 DEF AppendScore
        <4>2. number[d] \in inserted + 1 .. inserted'
          BY <2>2, <3>1
        <4> QED BY <4>1, <4>2
      <3> QED BY <2>6, <3>1
    <2> QED BY <2>1, <2>3, <2>4, <2>5, <2>6, <2>7, WeightsScored DEF w
  <1>5. CASE RescoreLook(h) \/ ScoreAllLook(h)
    BY <1>2, <1>5 DEF RescoreLook, ScoreAllLook, Busy, ScoringOps
  <1>6. CASE \E e \in ScoredEvents : RescoreRead(h, e) \/ ScoreAllRead(h, e)
    BY <1>1, <1>6 DEF RescoreRead, ScoreAllRead
  <1> QED BY <1>3, <1>4, <1>5, <1>6 DEF Rescore, ScoreAll

\* Every step keeps the scores those of the weights.
LEMMA WeightsSteps ==
  ASSUME WeightsIInv, ScoringIInv, [ScoringNext]_scoringVars
  PROVE  WeightsIInv'
  <1>0. Idle.op \notin ScoringOps
    BY DEF Idle, ScoringOps
  <1>1. ASSUME NEW h \in Handlers, NEW r, Begin(h, r), r.op \in {"approve", "reject"},
               UNCHANGED scoringRows
        PROVE  WeightsIInv'
    <2>1. /\ req' = [req EXCEPT ![h] = r] /\ r.op \notin ScoringOps
          /\ UNCHANGED <<weights, current, inserted, edited, dated>>
      BY <1>1 DEF Begin, scoringRows, ScoringOps
    <2> QED BY <2>1, WeightsRead
  <1>2. ASSUME NEW h \in Handlers, NEW s, ApproveRead(h, s) \/ RejectRead(h, s)
        PROVE  WeightsIInv'
    <2>1. ASSUME ApproveRead(h, s) PROVE WeightsIInv'
      <3> DEFINE r == [op |-> "approve", reads |-> {s, "campaign"}, on |-> s]
      <3>1. r.op \in {"approve", "reject"}
        OBVIOUS
      <3>2. Begin(h, r) /\ UNCHANGED scoringRows
        BY <2>1 DEF ApproveRead
      <3> HIDE DEF r
      <3> QED BY <1>1, <3>1, <3>2
    <2>2. ASSUME RejectRead(h, s) PROVE WeightsIInv'
      <3> DEFINE r == [op |-> "reject", reads |-> {s}, on |-> s]
      <3>1. r.op \in {"approve", "reject"}
        OBVIOUS
      <3>2. Begin(h, r) /\ UNCHANGED scoringRows
        BY <2>2 DEF RejectRead
      <3> HIDE DEF r
      <3> QED BY <1>1, <3>1, <3>2
    <2> QED BY <1>2, <2>1, <2>2
  <1>3. ASSUME NEW h \in Handlers, req' = [req EXCEPT ![h] = Idle],
               UNCHANGED <<weights, current, inserted, dated>>, edited \ {h} \subseteq edited'
        PROVE  WeightsIInv'
    BY <1>0, <1>3, WeightsRead
  <1>4. ASSUME NEW h \in Handlers, RejectWrite(h) PROVE WeightsIInv'
    BY <1>3, <1>4 DEF RejectWrite, CommitScoring
  <1>5. ASSUME NEW h \in Handlers, NEW s, NEW w, GenerateSuggestion(h, s, w) PROVE WeightsIInv'
    BY <1>3, <1>5 DEF GenerateSuggestion, CommitScoring
  <1>6. ASSUME NEW h \in Handlers, Lost(h), edited' = edited \ {h},
               UNCHANGED <<weights, current, inserted, decision, proposed, doubled, dated>>
        PROVE  WeightsIInv'
    BY <1>3, <1>6 DEF Lost, End
  <1>7. ASSUME NEW h \in Handlers, NEW w, PatchWeights(h, w) PROVE WeightsIInv'
    BY <1>7, WeightsEdited DEF PatchWeights, CommitScoring
  <1>8. ASSUME NEW h \in Handlers, ApproveWrite(h) PROVE WeightsIInv'
    BY <1>8, WeightsEdited DEF ApproveWrite, CommitScoring
  <1>9. CASE UNCHANGED scoringVars
    <2>1. UNCHANGED <<weights, current, inserted, edited, dated, req>>
      BY <1>9 DEF scoringVars, scoringRows, requestVars
    <2> QED BY <2>1 DEF WeightsIInv, ReadWeights, Inserted, ScoresAreOfTheWeights
  <1> QED BY <1>2, <1>4, <1>5, <1>6, <1>7, <1>8, <1>9, ScoringKeepsWeights
          DEF ScoringNext, ApproveSuggestion, RejectSuggestion

\* The worker and any number of users that score, edit weights and decide suggestions:
\* one current score unless two wrote over each other, of the weights in force unless they
\* were edited after they had been read to calculate it, and a suggestion moves the weights
\* that are in force when it is approved by no more than it may, and is decided once.
THEOREM ScoresStayCurrent == ScoringSpec => ScoresAreCurrent
  <1>1. ScoringIInv => OneCurrentScore
    <2> SUFFICES ASSUME ScoringIInv, ~doubled, NEW e \in ScoredEvents
                 PROVE  Cardinality(current[e]) <= 1
      BY DEF OneCurrentScore
    <2>1. Single(current[e])
      BY DEF ScoringIInv, OneRow
    <2>2. CASE current[e] = {}
      BY <2>2, FS_EmptySet
    <2>3. ASSUME NEW x, current[e] = {x} PROVE Cardinality(current[e]) <= 1
      <3>1. Cardinality({x}) = 1
        BY FS_Singleton
      <3> QED BY <2>3, <3>1
    <2> QED BY <2>1, <2>2, <2>3 DEF Single
  <1>2. ScoringIInv /\ [ScoringNext]_scoringVars => ScoringIInv' /\ [Bounded]_scoringVars
    BY ScoringSteps DEF ScoringKept
  <1>3. ScoringSpec => []OneCurrentScore /\ [][Bounded]_scoringVars
    BY ScoringInitially, <1>1, <1>2, PTL DEF ScoringSpec
  <1>5. ScoringSpec => []ScoresAreOfTheWeights
    <2>1. WeightsIInv => ScoresAreOfTheWeights
      BY DEF WeightsIInv
    <2>2. WeightsIInv /\ ScoringIInv /\ [ScoringNext]_scoringVars => WeightsIInv'
      BY WeightsSteps
    <2> QED BY ScoringInitially, WeightsInitially, <1>2, <2>1, <2>2, PTL DEF ScoringSpec
  <1>4. SuggestionsAreBounded <=> [][Bounded]_scoringVars
    BY DEF SuggestionsAreBounded, Bounded
  <1> QED BY <1>3, <1>4, <1>5, PTL DEF ScoresAreCurrent

-----------------------------------------------------------------------------
(* A browser's profile. *)

Consents == {"none", "granted", "revoked"}
ProfileOps == {"lock", "renew", "expire", "delete", "grant", "revoke", "store"}

ProfileRequests ==
    {Idle} \cup [op : ProfileOps, lifecycle : Lifecycles \ TerminalProfile,
                 consent : Consents, material : BOOLEAN]

\* The columns the argument looks at; no request loads a profile that has ended.
ProfileShape ==
    /\ lifecycle \in Lifecycles \cup {"absent"}
    /\ consent \in Consents
    /\ material \in BOOLEAN
    /\ outdone \in BOOLEAN
    /\ req \in [Handlers -> ProfileRequests]
    /\ stale \in [Handlers -> BOOLEAN]

\* What a request has loaded is the row until another one commits, and one that stores a
\* login has seen the consent.
ProfileHolds(h) ==
    req[h] # Idle /\ ~stale[h] =>
        /\ req[h].lifecycle = lifecycle
        /\ req[h].consent = consent
        /\ req[h].material = material
        /\ req[h].op = "store" => consent = "granted"

ProfileIInv ==
    /\ ProfileShape
    /\ MaterialHasConsent
    /\ outdone \/ \A h \in Handlers : ProfileHolds(h)

\* At the start there is no profile.
LEMMA ProfileInitially == ProfileInit => ProfileIInv
  <1> SUFFICES ASSUME ProfileInit PROVE ProfileIInv
    OBVIOUS
  <1>1. ProfileShape
    BY DEF ProfileInit, NoRequests, ProfileShape, ProfileRequests, Consents
  <1>2. \A h \in Handlers : ProfileHolds(h)
    BY DEF ProfileInit, NoRequests, ProfileHolds
  <1> QED BY <1>1, <1>2 DEF ProfileInit, ProfileIInv, MaterialHasConsent

\* The fields of a request under way.
LEMMA ProfileFields ==
  ASSUME ProfileShape, NEW h \in Handlers, req[h].op \in ProfileOps
  PROVE  /\ req[h] # Idle
         /\ req[h].lifecycle \in Lifecycles \ TerminalProfile
         /\ req[h].consent \in Consents
         /\ req[h].material \in BOOLEAN
  <1>1. req[h] # Idle
    BY DEF Idle, ProfileOps
  <1> QED BY <1>1 DEF ProfileShape, ProfileRequests

\* A request that begins has loaded the row.
LEMMA ProfileBegins ==
  ASSUME ProfileIInv, NEW h \in Handlers, NEW op \in ProfileOps, LoadProfile(h, op),
         lifecycle \notin TerminalProfile, op = "store" => consent = "granted"
  PROVE  ProfileIInv'
  <1> DEFINE r == [op |-> op, lifecycle |-> lifecycle, consent |-> consent, material |-> material]
  <1>1. /\ UNCHANGED <<lifecycle, elapsed, consent, material, lastUsed, outdone>>
        /\ req' = [req EXCEPT ![h] = r] /\ stale' = [stale EXCEPT ![h] = FALSE]
        /\ lifecycle # "absent"
    BY DEF LoadProfile, Begin, profileRow
  <1>2. r \in ProfileRequests
    BY <1>1 DEF ProfileRequests, ProfileIInv, ProfileShape
  <1>3. ProfileShape'
    BY <1>1, <1>2 DEF ProfileIInv, ProfileShape
  <1>4. /\ r.lifecycle = lifecycle /\ r.consent = consent /\ r.material = material /\ r.op = op
    OBVIOUS
  <1> HIDE DEF r
  <1>5. ASSUME \A g \in Handlers : ProfileHolds(g), NEW g \in Handlers PROVE ProfileHolds(g)'
    <2>1. CASE g = h
      BY <1>1, <1>4, <2>1 DEF ProfileIInv, ProfileShape, ProfileHolds
    <2>2. CASE g # h
      BY <1>1, <1>5, <2>2 DEF ProfileIInv, ProfileShape, ProfileHolds
    <2> QED BY <2>1, <2>2
  <1> QED BY <1>1, <1>3, <1>5 DEF ProfileIInv, MaterialHasConsent

\* After a commit nobody's reading is known to hold, and one that was not overtaken
\* had seen the row.
LEMMA ProfileCommits ==
  ASSUME ProfileIInv, NEW h \in Handlers, req[h].op \in ProfileOps, CommitProfile(h)
  PROVE  /\ req' \in [Handlers -> ProfileRequests]
         /\ stale' \in [Handlers -> BOOLEAN]
         /\ outdone' \in BOOLEAN
         /\ \A g \in Handlers : req'[g] # Idle => stale'[g]
         /\ ~outdone' => ~outdone /\ ProfileHolds(h) /\ ~stale[h]
  <1>1. req' \in [Handlers -> ProfileRequests]
    BY DEF CommitProfile, EndAndOvertake, ProfileIInv, ProfileShape, ProfileRequests
  <1>2. stale' \in [Handlers -> BOOLEAN]
    BY DEF CommitProfile, EndAndOvertake
  <1>3. \A g \in Handlers : req'[g] # Idle => stale'[g]
    BY DEF CommitProfile, EndAndOvertake, ProfileIInv, ProfileShape
  <1>4. outdone' \in BOOLEAN /\ (~outdone' => ~outdone /\ ProfileHolds(h) /\ ~stale[h])
    BY DEF CommitProfile, ProfileIInv, ProfileShape
  <1> QED BY <1>1, <1>2, <1>3, <1>4

\* A commit keeps the invariant if, not overtaken, it keeps a login only with consent.
LEMMA ProfileCommitKeeps ==
  ASSUME ProfileIInv, NEW h \in Handlers, req[h].op \in ProfileOps, CommitProfile(h),
         lifecycle' \in Lifecycles \cup {"absent"}, consent' \in Consents, material' \in BOOLEAN,
         ~outdone' => (material' => consent' = "granted" /\ lifecycle' \notin TerminalProfile)
  PROVE  ProfileIInv'
  <1>1. ProfileShape'
    BY ProfileCommits DEF ProfileShape
  <1>2. \A g \in Handlers : ProfileHolds(g)'
    BY ProfileCommits DEF ProfileHolds
  <1>3. MaterialHasConsent'
    BY DEF MaterialHasConsent
  <1> QED BY <1>1, <1>2, <1>3 DEF ProfileIInv

\* What is left of a deleted profile, unless a request was overtaken.
ProfileEnds == lifecycle = "deleted" => outdone' \/ lifecycle' = "deleted"

\* Each request that commits.
LEMMA ProfileWrites ==
  ASSUME ProfileIInv, NEW h \in Handlers,
         \/ LockWrite(h) \/ RenewWrite(h) \/ ExpireProfileWrite(h) \/ DeleteWrite(h)
         \/ GrantConsentWrite(h) \/ RevokeConsentWrite(h) \/ StoreMaterialWrite(h)
  PROVE  ProfileIInv' /\ ProfileEnds
  <1>1. req[h].op \in ProfileOps /\ CommitProfile(h)
    BY DEF LockWrite, RenewWrite, ExpireProfileWrite, DeleteWrite, GrantConsentWrite,
           RevokeConsentWrite, StoreMaterialWrite, Busy, ProfileOps
  <1>2. /\ req[h] # Idle /\ req[h].lifecycle \in Lifecycles \ TerminalProfile
        /\ req[h].consent \in Consents /\ req[h].material \in BOOLEAN
    BY <1>1, ProfileFields DEF ProfileIInv
  <1>3. ~outdone' => ~outdone /\ ~stale[h] /\ ProfileHolds(h)
    BY <1>1, ProfileCommits
  <1>4. ~outdone' => /\ lifecycle \in Lifecycles \ TerminalProfile
                     /\ req[h].lifecycle = lifecycle /\ req[h].consent = consent
                     /\ req[h].material = material
                     /\ req[h].op = "store" => consent = "granted"
                     /\ material => consent = "granted"
    <2>1. ~outdone' => MaterialHasConsent /\ ~outdone
      BY <1>3 DEF ProfileIInv
    <2> QED BY <1>2, <1>3, <2>1 DEF ProfileHolds, MaterialHasConsent
  <1>5. /\ lifecycle \in Lifecycles \cup {"absent"} /\ consent \in Consents /\ material \in BOOLEAN
    BY DEF ProfileIInv, ProfileShape
  <1>6. ProfileEnds
    BY <1>4 DEF ProfileEnds, TerminalProfile
  <1>7. CASE LockWrite(h) \/ RenewWrite(h) \/ ExpireProfileWrite(h)
    <2>1. /\ consent' = consent /\ material' = material
          /\ lifecycle' \in {lifecycle, "locked", "active", "expired"}
      BY <1>7 DEF LockWrite, RenewWrite, ExpireProfileWrite, WriteLifecycle
    <2> QED BY <1>1, <1>4, <1>5, <1>6, <2>1, ProfileCommitKeeps DEF Lifecycles, TerminalProfile
  <1>8. CASE DeleteWrite(h)
    <2>1. /\ lifecycle' \in {lifecycle, "deleted"} /\ consent' \in {consent, "revoked"}
          /\ material' = (material /\ ~req[h].material)
      BY <1>8 DEF DeleteWrite, WriteLifecycle, WriteConsent, ClearMaterial
    <2>2. ~outdone' => ~material'
      BY <1>4, <2>1
    <2>3. material' \in BOOLEAN
      BY <2>1
    <2> QED BY <1>1, <1>5, <1>6, <2>1, <2>2, <2>3, ProfileCommitKeeps DEF Lifecycles, Consents
  <1>9. CASE GrantConsentWrite(h)
    <2>1. /\ lifecycle' = lifecycle /\ material' = material
          /\ consent' = IF req[h].consent = "granted" THEN consent ELSE "granted"
      BY <1>9 DEF GrantConsentWrite, WriteConsent
    <2> QED BY <1>1, <1>4, <1>5, <1>6, <2>1, ProfileCommitKeeps DEF Consents
  <1>10. CASE RevokeConsentWrite(h)
    <2>1. /\ lifecycle' = lifecycle /\ consent' \in {consent, "revoked"}
          /\ material' = (material /\ ~req[h].material)
      BY <1>10 DEF RevokeConsentWrite, WriteConsent, ClearMaterial
    <2>2. ~outdone' => ~material'
      BY <1>4, <2>1
    <2>3. material' \in BOOLEAN
      BY <2>1
    <2> QED BY <1>1, <1>5, <1>6, <2>1, <2>2, <2>3, ProfileCommitKeeps DEF Consents
  <1>11. CASE StoreMaterialWrite(h)
    <2>1. lifecycle' = lifecycle /\ consent' = consent /\ material' = TRUE /\ req[h].op = "store"
      BY <1>11 DEF StoreMaterialWrite, Busy
    <2> QED BY <1>1, <1>4, <1>5, <1>6, <2>1, ProfileCommitKeeps
  <1> QED BY <1>7, <1>8, <1>9, <1>10, <1>11

\* Every step keeps the invariant, and a deleted profile deleted.
LEMMA ProfileSteps ==
  ASSUME ProfileIInv, [ProfileNext]_profileVars
  PROVE  ProfileIInv' /\ ProfileEnds
  <1>1. CASE CreateProfile
    <2>1. /\ lifecycle = "absent" /\ lifecycle' = "active"
          /\ UNCHANGED <<consent, material, outdone, req, stale>>
      BY <1>1 DEF CreateProfile, requestVars
    <2>2. ProfileShape'
      BY <2>1 DEF ProfileIInv, ProfileShape, Lifecycles
    <2>3. ASSUME NEW h \in Handlers, req[h] # Idle
          PROVE  req[h].lifecycle # "absent"
      BY <2>3 DEF ProfileIInv, ProfileShape, ProfileRequests, Lifecycles
    <2>4. ASSUME \A h \in Handlers : ProfileHolds(h), NEW h \in Handlers PROVE ProfileHolds(h)'
      BY <2>1, <2>3, <2>4 DEF ProfileHolds
    <2>5. MaterialHasConsent'
      BY <2>1 DEF ProfileIInv, MaterialHasConsent, TerminalProfile
    <2> QED BY <2>1, <2>2, <2>4, <2>5 DEF ProfileIInv, ProfileEnds
  <1>2. CASE LaunchWithProfile \/ ProfileElapses \/ UNCHANGED profileVars
    <2>1. UNCHANGED <<lifecycle, consent, material, outdone, req, stale>>
      BY <1>2 DEF LaunchWithProfile, ProfileElapses, profileVars, profileRow, requestVars
    <2> QED BY <2>1 DEF ProfileIInv, ProfileShape, MaterialHasConsent, ProfileHolds, ProfileEnds
  <1>3. ASSUME NEW h \in Handlers, NEW op \in ProfileOps, LoadProfile(h, op),
               lifecycle \notin TerminalProfile, op = "store" => consent = "granted"
        PROVE  ProfileIInv' /\ ProfileEnds
    <2>1. lifecycle' = lifecycle
      BY <1>3 DEF LoadProfile, profileRow
    <2> QED BY <1>3, <2>1, ProfileBegins DEF ProfileEnds
  <1>4. ASSUME NEW h \in Handlers, Lost(h), UNCHANGED <<profileRow, outdone>>
        PROVE  ProfileIInv' /\ ProfileEnds
    <2>1. /\ UNCHANGED <<lifecycle, consent, material, outdone>>
          /\ req' = [req EXCEPT ![h] = Idle] /\ stale' = [stale EXCEPT ![h] = FALSE]
      BY <1>4 DEF Lost, End, profileRow
    <2>2. ProfileShape'
      BY <2>1 DEF ProfileIInv, ProfileShape, ProfileRequests
    <2>3. ASSUME \A g \in Handlers : ProfileHolds(g), NEW g \in Handlers PROVE ProfileHolds(g)'
      BY <2>1, <2>3 DEF ProfileIInv, ProfileShape, ProfileHolds
    <2> QED BY <2>1, <2>2, <2>3 DEF ProfileIInv, MaterialHasConsent, ProfileEnds
  <1>5. ASSUME NEW h \in Handlers,
               \/ LockProfile(h) \/ RenewProfile(h) \/ ExpireProfile(h) \/ DeleteProfile(h)
               \/ RecordConsent(h) \/ StoreMaterial(h)
        PROVE  ProfileIInv' /\ ProfileEnds
    <2>1. CASE \/ LockWrite(h) \/ RenewWrite(h) \/ ExpireProfileWrite(h) \/ DeleteWrite(h)
               \/ GrantConsentWrite(h) \/ RevokeConsentWrite(h) \/ StoreMaterialWrite(h)
      BY <2>1, ProfileWrites
    <2>2. CASE \E op \in ProfileOps : /\ LoadProfile(h, op)
                                      /\ lifecycle \notin TerminalProfile
                                      /\ op = "store" => consent = "granted"
      BY <1>3, <2>2
    <2> QED BY <1>5, <2>1, <2>2 DEF LockProfile, RenewProfile, RenewRead, ExpireProfile, DeleteProfile,
          RecordConsent, StoreMaterial, CanLock, CanExpire, CanDelete, RequireMutable,
          CanStoreMaterial, ProfileOps, TerminalProfile
  <1> QED BY <1>1, <1>2, <1>4, <1>5 DEF ProfileNext

\* A login is kept only with consent, and a deleted profile stays so, however requests
\* overlap that see what they write over (BrowserProfileService).
THEOREM ProfilesStayConsented == ProfileSpec => ProfilesAreConsented
  <1>1. ProfileIInv /\ [ProfileNext]_profileVars => ProfileIInv' /\ ProfileEnds
    BY ProfileSteps
  <1>2. ProfileSpec => []ProfileIInv
    BY <1>1, ProfileInitially, PTL DEF ProfileSpec
  <1>3. ProfileIInv => MaterialHasConsent
    BY DEF ProfileIInv
  <1>4. ProfileIInv /\ [ProfileNext]_profileVars
           => [(lifecycle = "deleted") => outdone' \/ lifecycle' = "deleted"]_profileVars
    BY <1>1 DEF ProfileEnds
  <1>5. ProfileSpec => [][(lifecycle = "deleted") => outdone' \/ lifecycle' = "deleted"]_profileVars
    BY <1>2, <1>4, PTL DEF ProfileSpec
  <1>6. ProfileSpec => DeletedIsFinal
    BY <1>5 DEF DeletedIsFinal
  <1> QED BY <1>2, <1>3, <1>6, PTL DEF ProfilesAreConsented

-----------------------------------------------------------------------------
(* The policy of an engine. *)

PolicyOps == {"request", "owner", "compliance", "withdraw"}

PolicyRequests ==
    {Idle} \cup [op : PolicyOps, purpose : Nat, revoked : BOOLEAN, owner : BOOLEAN,
                 compliance : BOOLEAN]

\* The columns the argument looks at.
PolicyShape ==
    /\ purpose \in Nat
    /\ revoked \in BOOLEAN
    /\ ownerOk \in BOOLEAN
    /\ complianceOk \in BOOLEAN
    /\ overruled \in BOOLEAN
    /\ withdrawn \in Nat
    /\ req \in [Handlers -> PolicyRequests]
    /\ stale \in [Handlers -> BOOLEAN]

\* What a request has loaded is the row until another one commits.
PolicyHolds(h) ==
    req[h] # Idle /\ ~stale[h] =>
        /\ req[h].purpose = purpose
        /\ req[h].revoked = revoked
        /\ req[h].owner = ownerOk
        /\ req[h].compliance = complianceOk

\* An approval is of the purpose in the row, and a purpose that was withdrawn is
\* revoked or an older one.
DecisionsAreCurrent ==
    /\ ownerOk => ownerSaw = purpose
    /\ complianceOk => complianceSaw = purpose
    /\ withdrawn <= purpose
    /\ withdrawn = purpose /\ purpose # 0 => revoked

PolicyIInv ==
    /\ PolicyShape
    /\ overruled \/ (DecisionsAreCurrent /\ \A h \in Handlers : PolicyHolds(h))

\* At the start nothing is requested.
LEMMA PolicyInitially == PolicyInit => PolicyIInv
  <1> SUFFICES ASSUME PolicyInit PROVE PolicyIInv
    OBVIOUS
  <1>1. PolicyShape
    BY DEF PolicyInit, NoRequests, PolicyShape, PolicyRequests
  <1>2. \A h \in Handlers : PolicyHolds(h)
    BY DEF PolicyInit, NoRequests, PolicyHolds
  <1>3. DecisionsAreCurrent
    BY DEF PolicyInit, DecisionsAreCurrent
  <1> QED BY <1>1, <1>2, <1>3 DEF PolicyIInv

\* The fields of a request under way.
LEMMA PolicyFields ==
  ASSUME PolicyShape, NEW h \in Handlers, req[h].op \in PolicyOps
  PROVE  /\ req[h] # Idle
         /\ req[h].purpose \in Nat
         /\ req[h].revoked \in BOOLEAN
         /\ req[h].owner \in BOOLEAN
         /\ req[h].compliance \in BOOLEAN
  <1>1. req[h] # Idle
    BY DEF Idle, PolicyOps
  <1> QED BY <1>1 DEF PolicyShape, PolicyRequests

\* A request that begins has loaded the row.
LEMMA PolicyBegins ==
  ASSUME PolicyIInv, NEW h \in Handlers, NEW op \in PolicyOps, LoadPolicy(h, op),
         UNCHANGED <<policyRow, pinMatches, killSwitch, policyHistory>>
  PROVE  PolicyIInv'
  <1> DEFINE r == [op |-> op, purpose |-> purpose, revoked |-> revoked,
                   owner |-> ownerOk, compliance |-> complianceOk]
  <1>1. /\ UNCHANGED <<purpose, revoked, ownerOk, complianceOk, ownerSaw, complianceSaw,
                       withdrawn, overruled>>
        /\ req' = [req EXCEPT ![h] = r] /\ stale' = [stale EXCEPT ![h] = FALSE]
    BY DEF LoadPolicy, Begin, policyRow, policyHistory
  <1>2. r \in PolicyRequests
    BY DEF PolicyRequests, PolicyIInv, PolicyShape
  <1>3. PolicyShape'
    BY <1>1, <1>2 DEF PolicyIInv, PolicyShape
  <1>4. /\ r.purpose = purpose /\ r.revoked = revoked /\ r.owner = ownerOk
        /\ r.compliance = complianceOk
    OBVIOUS
  <1> HIDE DEF r
  <1>5. ASSUME \A g \in Handlers : PolicyHolds(g), NEW g \in Handlers PROVE PolicyHolds(g)'
    <2>1. CASE g = h
      BY <1>1, <1>4, <2>1 DEF PolicyIInv, PolicyShape, PolicyHolds
    <2>2. CASE g # h
      BY <1>1, <1>5, <2>2 DEF PolicyIInv, PolicyShape, PolicyHolds
    <2> QED BY <2>1, <2>2
  <1>6. DecisionsAreCurrent => DecisionsAreCurrent'
    BY <1>1 DEF DecisionsAreCurrent
  <1> QED BY <1>1, <1>3, <1>5, <1>6 DEF PolicyIInv

\* A commit keeps the invariant if, not overtaken, its decisions are current.
LEMMA PolicyCommits ==
  ASSUME PolicyIInv, NEW h \in Handlers, req[h].op \in PolicyOps, CommitPolicy(h),
         purpose' \in Nat, revoked' \in BOOLEAN, ownerOk' \in BOOLEAN, complianceOk' \in BOOLEAN,
         withdrawn' \in Nat,
         PolicyHolds(h) /\ DecisionsAreCurrent /\ ~stale[h] => DecisionsAreCurrent'
  PROVE  PolicyIInv'
  <1>1. req' \in [Handlers -> PolicyRequests]
    BY DEF CommitPolicy, EndAndOvertake, PolicyIInv, PolicyShape, PolicyRequests
  <1>2. stale' \in [Handlers -> BOOLEAN]
    BY DEF CommitPolicy, EndAndOvertake
  <1>3. \A g \in Handlers : req'[g] # Idle => stale'[g]
    BY DEF CommitPolicy, EndAndOvertake, PolicyIInv, PolicyShape
  <1>4. overruled' \in BOOLEAN /\ (~overruled' => ~overruled /\ ~stale[h])
    BY DEF CommitPolicy, PolicyIInv, PolicyShape
  <1>5. PolicyShape'
    BY <1>1, <1>2, <1>4 DEF PolicyShape
  <1>6. \A g \in Handlers : PolicyHolds(g)'
    BY <1>3 DEF PolicyHolds
  <1>7. ~overruled' => DecisionsAreCurrent'
    BY <1>4 DEF PolicyIInv
  <1> QED BY <1>4, <1>5, <1>6, <1>7 DEF PolicyIInv

\* A new purpose clears the decisions on the old one.
LEMMA UpsertKeeps ==
  ASSUME PolicyIInv, NEW h \in Handlers, UpsertRequest(h)
  PROVE  PolicyIInv'
  <1>1. /\ req[h].op \in PolicyOps /\ CommitPolicy(h) /\ purpose' = purpose + 1
        /\ withdrawn' = withdrawn
        /\ revoked' = Flag(revoked, req[h].revoked, FALSE)
        /\ ownerOk' = Flag(ownerOk, req[h].owner, FALSE)
        /\ complianceOk' = Flag(complianceOk, req[h].compliance, FALSE)
    BY DEF UpsertRequest, Busy, PolicyOps
  <1>2. PolicyShape /\ req[h] # Idle
    BY <1>1, PolicyFields DEF PolicyIInv
  <1>3. /\ revoked' \in BOOLEAN /\ ownerOk' \in BOOLEAN /\ complianceOk' \in BOOLEAN
    BY <1>1, <1>2 DEF PolicyShape, Flag
  <1>4. ASSUME PolicyHolds(h), DecisionsAreCurrent, ~stale[h] PROVE DecisionsAreCurrent'
    <2>1. ~ownerOk' /\ ~complianceOk'
      BY <1>1, <1>2, <1>4 DEF PolicyHolds, PolicyShape, Flag
    <2>2. withdrawn' <= purpose' /\ withdrawn' # purpose'
      BY <1>1, <1>2, <1>4 DEF PolicyShape, DecisionsAreCurrent
    <2> QED BY <2>1, <2>2 DEF DecisionsAreCurrent
  <1>5. purpose' \in Nat /\ withdrawn' \in Nat
    BY <1>1, <1>2 DEF PolicyShape
  <1>6. revoked' \in BOOLEAN
    BY <1>1, <1>2 DEF PolicyShape, Flag
  <1> QED BY <1>1, <1>3, <1>4, <1>5, <1>6, PolicyCommits

\* An approval is of the purpose that was loaded.
LEMMA ApprovalsKeep ==
  ASSUME PolicyIInv, NEW h \in Handlers, OwnerApproval(h) \/ ComplianceApproval(h)
  PROVE  PolicyIInv'
  <1>1. /\ req[h].op \in PolicyOps /\ CommitPolicy(h)
        /\ purpose' = purpose /\ withdrawn' = withdrawn /\ revoked' = revoked
    BY DEF OwnerApproval, ComplianceApproval, Busy, PolicyOps
  <1>2. PolicyShape /\ req[h] # Idle
    BY <1>1, PolicyFields DEF PolicyIInv
  <1>3. ownerOk' \in BOOLEAN /\ complianceOk' \in BOOLEAN
    BY <1>2 DEF PolicyShape, OwnerApproval, ComplianceApproval, Flag
  <1>4. ASSUME PolicyHolds(h), DecisionsAreCurrent, ~stale[h] PROVE DecisionsAreCurrent'
    <2>1. req[h].purpose = purpose
      BY <1>2, <1>4 DEF PolicyHolds
    <2>2. ownerOk' => ownerSaw' = purpose
      BY <1>4, <2>1 DEF DecisionsAreCurrent, OwnerApproval, ComplianceApproval
    <2>3. complianceOk' => complianceSaw' = purpose
      BY <1>4, <2>1 DEF DecisionsAreCurrent, OwnerApproval, ComplianceApproval
    <2>4. withdrawn' <= purpose'
      BY <1>1, <1>4 DEF DecisionsAreCurrent
    <2>5. withdrawn' = purpose' /\ purpose' # 0 => revoked'
      BY <1>1, <1>4 DEF DecisionsAreCurrent
    <2> QED BY <1>1, <2>2, <2>3, <2>4, <2>5 DEF DecisionsAreCurrent
  <1>5. purpose' \in Nat /\ withdrawn' \in Nat
    BY <1>1, <1>2 DEF PolicyShape
  <1>6. revoked' \in BOOLEAN
    BY <1>1, <1>2 DEF PolicyShape, Flag
  <1> QED BY <1>1, <1>3, <1>4, <1>5, <1>6, PolicyCommits

\* A revocation clears the approvals and marks the row.
LEMMA WithdrawalKeeps ==
  ASSUME PolicyIInv, NEW h \in Handlers, RevokeWrite(h)
  PROVE  PolicyIInv'
  <1>1. /\ req[h].op \in PolicyOps /\ CommitPolicy(h)
        /\ purpose' = purpose /\ withdrawn' = purpose /\ revoked' = TRUE
        /\ ownerOk' = Flag(ownerOk, req[h].owner, FALSE)
        /\ complianceOk' = Flag(complianceOk, req[h].compliance, FALSE)
    BY DEF RevokeWrite, Busy, PolicyOps
  <1>2. PolicyShape /\ req[h] # Idle
    BY <1>1, PolicyFields DEF PolicyIInv
  <1>3. ownerOk' \in BOOLEAN /\ complianceOk' \in BOOLEAN
    BY <1>1, <1>2 DEF PolicyShape, Flag
  <1>4. ASSUME PolicyHolds(h), DecisionsAreCurrent, ~stale[h] PROVE DecisionsAreCurrent'
    <2>1. ~ownerOk' /\ ~complianceOk'
      BY <1>1, <1>2, <1>4 DEF PolicyHolds, PolicyShape, Flag
    <2>2. withdrawn' <= purpose'
      BY <1>1, <1>2 DEF PolicyShape
    <2>3. revoked'
      BY <1>1
    <2> QED BY <2>1, <2>2, <2>3 DEF DecisionsAreCurrent
  <1>5. purpose' \in Nat /\ withdrawn' \in Nat
    BY <1>1, <1>2 DEF PolicyShape
  <1>6. revoked' \in BOOLEAN
    BY <1>1, <1>2 DEF PolicyShape, Flag
  <1> QED BY <1>1, <1>3, <1>4, <1>5, <1>6, PolicyCommits

\* Every step keeps the invariant.
LEMMA PolicySteps == PolicyIInv /\ [PolicyNext]_policyVars => PolicyIInv'
  <1> SUFFICES ASSUME PolicyIInv, [PolicyNext]_policyVars PROVE PolicyIInv'
    OBVIOUS
  <1>1. CASE SetKillSwitch \/ UNCHANGED policyVars
    <2>1. UNCHANGED <<purpose, revoked, ownerOk, complianceOk, ownerSaw, complianceSaw,
                      withdrawn, overruled, req, stale>>
      BY <1>1 DEF SetKillSwitch, policyVars, policyRow, policyHistory, requestVars
    <2> QED BY <2>1 DEF PolicyIInv, PolicyShape, PolicyHolds, DecisionsAreCurrent
  <1>2. ASSUME NEW h \in Handlers, NEW op \in PolicyOps, LoadPolicy(h, op),
               UNCHANGED <<policyRow, pinMatches, killSwitch, policyHistory>>
        PROVE  PolicyIInv'
    BY <1>2, PolicyBegins
  <1>3. ASSUME NEW h \in Handlers, Lost(h),
               UNCHANGED <<policyRow, pinMatches, killSwitch, policyHistory>>
        PROVE  PolicyIInv'
    <2>1. /\ UNCHANGED <<purpose, revoked, ownerOk, complianceOk, ownerSaw, complianceSaw,
                         withdrawn, overruled>>
          /\ req' = [req EXCEPT ![h] = Idle] /\ stale' = [stale EXCEPT ![h] = FALSE]
      BY <1>3 DEF Lost, End, policyRow, policyHistory
    <2>2. PolicyShape'
      BY <2>1 DEF PolicyIInv, PolicyShape, PolicyRequests
    <2>3. ASSUME \A g \in Handlers : PolicyHolds(g), NEW g \in Handlers PROVE PolicyHolds(g)'
      BY <2>1, <2>3 DEF PolicyIInv, PolicyShape, PolicyHolds
    <2>4. DecisionsAreCurrent => DecisionsAreCurrent'
      BY <2>1 DEF DecisionsAreCurrent
    <2> QED BY <2>1, <2>2, <2>3, <2>4 DEF PolicyIInv
  <1>4. ASSUME NEW h \in Handlers,
               \/ RequestEnablement(h) \/ ApproveOwnerAdmin(h) \/ ApproveCompliance(h)
               \/ RevokePolicy(h)
        PROVE  PolicyIInv'
    BY <1>2, <1>4, UpsertKeeps, ApprovalsKeep, WithdrawalKeeps DEF RequestEnablement,
       ApproveOwnerAdmin, ApproveCompliance, RevokePolicy, RequirePolicy, PolicyOps
  <1> QED BY <1>1, <1>3, <1>4 DEF PolicyNext

\* What the invariant says of a launch.
LEMMA LaunchWasApproved == PolicyIInv => LaunchesAreApproved /\ WithdrawnStaysOff
  <1> SUFFICES ASSUME PolicyIInv, CloakLaunchAllowed, ~overruled
               PROVE  ownerSaw = purpose /\ complianceSaw = purpose /\ purpose # withdrawn
    BY DEF LaunchesAreApproved, WithdrawnStaysOff
  <1>1. ~revoked /\ purpose # 0 /\ ownerOk /\ complianceOk
    BY DEF CloakLaunchAllowed, PolicyState
  <1> QED BY <1>1 DEF PolicyIInv, DecisionsAreCurrent

\* An engine is launched for a purpose both have approved, and one that was withdrawn
\* only after a new request, however requests overlap that see what they write over
\* (CloakBrowserPolicyService).
THEOREM EngineStaysApproved == PolicySpec => [](LaunchesAreApproved /\ WithdrawnStaysOff)
  BY PolicyInitially, PolicySteps, LaunchWasApproved, PTL DEF PolicySpec

-----------------------------------------------------------------------------
(* Both, among the components of a team's work. *)

\* Which component runs is decided once; until it is the profile's turn there is none,
\* and no policy either.
PermitIInv ==
    /\ part = "profile" => ProfileIInv
    /\ part # "profile" => lifecycle = "absent" /\ ~material
    /\ part = "cloak" => PolicyIInv
    /\ part # "cloak" => purpose = 0

\* Each starts as it would alone.
LEMMA PermitInitially == ReviewInit => PermitIInv
  BY ProfileInitially, PolicyInitially DEF ReviewInit, PermitIInv, ProfileInit, PolicyInit

\* Each component's steps leave the other's columns alone.
LEMMA PermitSteps ==
  ASSUME PermitIInv, [ReviewNext]_reviewVars
  PROVE  PermitIInv' /\ (ProfileEnds \/ UNCHANGED profileVars)
  <1>1. CASE UNCHANGED reviewVars
    <2>1. UNCHANGED <<part, profileVars, policyVars>>
      BY <1>1 DEF reviewVars
    <2>2. UNCHANGED <<part, lifecycle, material, purpose>>
      BY <2>1 DEF profileVars, profileRow, policyVars, policyRow
    <2> QED BY <2>1, <2>2, ProfileSteps, PolicySteps DEF PermitIInv
  <1>2. CASE part = "profile" /\ ProfileNext /\ Alone("profile")
    <2>1. part' = part /\ purpose' = purpose
      BY <1>2 DEF Alone, policyRow
    <2> QED BY <1>2, <2>1, ProfileSteps DEF PermitIInv
  <1>3. CASE part = "cloak" /\ PolicyNext /\ Alone("cloak")
    <2>1. part' = part /\ lifecycle' = lifecycle /\ material' = material
      BY <1>3 DEF Alone, profileRow
    <2> QED BY <1>3, <2>1, PolicySteps DEF PermitIInv, ProfileEnds
  <1>4. ASSUME NEW p \in Parts \ {"profile", "cloak"}, part = p, Alone(p)
        PROVE  PermitIInv' /\ (ProfileEnds \/ UNCHANGED profileVars)
    <2>1. part' = part /\ lifecycle' = lifecycle /\ material' = material /\ purpose' = purpose
      BY <1>4 DEF Alone, profileRow, policyRow, Parts
    <2> QED BY <1>4, <2>1 DEF PermitIInv, ProfileEnds
  <1> QED BY <1>1, <1>2, <1>3, <1>4 DEF ReviewNext, Parts

\* The browser starts with a login somebody consented to, and with the engine that was
\* approved (BrowserProfileService, CloakBrowserPolicyService).
THEOREM BrowserStaysPermitted == ReviewSpec => BrowserIsPermitted
  <1>1. ReviewSpec => []PermitIInv
    BY PermitInitially, PermitSteps, PTL DEF ReviewSpec
  <1>2. PermitIInv => MaterialHasConsent /\ LaunchesAreApproved /\ WithdrawnStaysOff
    <2>1. purpose = 0 => ~CloakLaunchAllowed
      BY DEF CloakLaunchAllowed, PolicyState
    <2> QED BY <2>1, LaunchWasApproved DEF PermitIInv, ProfileIInv, MaterialHasConsent,
              LaunchesAreApproved, WithdrawnStaysOff
  <1>3. PermitIInv /\ [ReviewNext]_reviewVars
           => [(lifecycle = "deleted") => outdone' \/ lifecycle' = "deleted"]_profileVars
    BY PermitSteps DEF ProfileEnds
  <1>4. ReviewSpec => [][(lifecycle = "deleted") => outdone' \/ lifecycle' = "deleted"]_profileVars
    BY <1>1, <1>3, PTL DEF ReviewSpec
  <1>5. ReviewSpec => DeletedIsFinal
    BY <1>4 DEF DeletedIsFinal
  <1> QED BY <1>1, <1>2, <1>5, PTL DEF BrowserIsPermitted, ProfilesAreConsented

-----------------------------------------------------------------------------
(* A watch and its history. *)

\* What a request has seen is the row until another one commits.
WatchHolds(h) ==
    req[h] # Idle /\ ~stale[h] => req[h].from = watch /\ req[h].row = row

WatchIInv ==
    /\ WatchlistTypeOK
    /\ behind \/ (~gap /\ story = watch)
    /\ behind \/ \A h \in Handlers : WatchHolds(h)

\* At the start nothing is watched.
LEMMA WatchInitially == WatchlistInit => WatchIInv
  <1> SUFFICES ASSUME WatchlistInit PROVE WatchIInv
    OBVIOUS
  <1>1. WatchlistTypeOK
    BY DEF WatchlistInit, NoRequests, WatchlistTypeOK, Reminder
  <1>2. \A h \in Handlers : WatchHolds(h)
    BY DEF WatchlistInit, NoRequests, WatchHolds
  <1> QED BY <1>1, <1>2 DEF WatchlistInit, WatchIInv

\* The fields of a request under way.
LEMMA WatchFields ==
  ASSUME WatchlistTypeOK, NEW h \in Handlers, req[h].op \in {"upsert", "remove"}
  PROVE  /\ req[h] # Idle
         /\ req[h].to \in Reminder /\ req[h].from \in Reminder
         /\ req[h].row \in Nat
  <1>1. req[h] # Idle
    BY DEF Idle
  <1> QED BY <1>1 DEF WatchlistTypeOK

\* A request that begins has seen the row.
LEMMA WatchBegins ==
  ASSUME WatchIInv, NEW h \in Handlers, NEW op \in {"upsert", "remove"}, NEW to \in Reminder,
         Begin(h, [op |-> op, to |-> to, from |-> watch, row |-> row]),
         UNCHANGED <<watch, row, story, gap, behind>>
  PROVE  WatchIInv'
  <1> DEFINE r == [op |-> op, to |-> to, from |-> watch, row |-> row]
  <1>1. /\ req' = [req EXCEPT ![h] = r] /\ stale' = [stale EXCEPT ![h] = FALSE]
        /\ UNCHANGED <<watch, row, story, gap, behind>>
    BY DEF Begin
  <1>2. r \in [op : {"upsert", "remove"}, to : Reminder, from : Reminder, row : Nat]
    BY DEF WatchIInv, WatchlistTypeOK
  <1>3. r.from = watch /\ r.row = row
    OBVIOUS
  <1> HIDE DEF r
  <1>4. WatchlistTypeOK'
    BY <1>1, <1>2 DEF WatchIInv, WatchlistTypeOK
  <1>5. behind \/ \A g \in Handlers : WatchHolds(g)'
    BY <1>1, <1>3 DEF WatchIInv, WatchlistTypeOK, WatchHolds
  <1> QED BY <1>1, <1>4, <1>5 DEF WatchIInv

\* A commit that is not behind has told what it found and left what it told.
LEMMA WatchCommits ==
  ASSUME WatchIInv, NEW h \in Handlers, req[h].op \in {"upsert", "remove"},
         CommitWatch(h), watch' \in Reminder, row' \in Nat,
         NEW to \in Reminder, AppendHistory(req[h].from, to),
         WatchHolds(h) /\ ~stale[h] => watch' = to
  PROVE  WatchIInv'
  <1>1. /\ WatchlistTypeOK /\ req[h] # Idle /\ req[h].from \in Reminder
    BY WatchFields DEF WatchIInv
  <1>2. behind' = (behind \/ stale[h]) /\ EndAndOvertake(h)
    BY DEF CommitWatch
  <1>3. story' = to /\ gap' = (gap \/ req[h].from # story)
    BY DEF AppendHistory
  <1>4. behind' \in BOOLEAN /\ gap' \in BOOLEAN /\ story' \in Reminder
    BY <1>1, <1>2, <1>3 DEF WatchlistTypeOK
  <1>5. stale' \in [Handlers -> BOOLEAN]
    BY <1>2 DEF EndAndOvertake
  <1>6. req' \in [Handlers -> {Idle} \cup [op : {"upsert", "remove"}, to : Reminder,
                                           from : Reminder, row : Nat]]
    BY <1>1, <1>2 DEF WatchlistTypeOK, EndAndOvertake
  <1>7. WatchlistTypeOK'
    BY <1>4, <1>5, <1>6 DEF WatchlistTypeOK
  <1>8. \A g \in Handlers : WatchHolds(g)'
    BY <1>1, <1>2 DEF EndAndOvertake, WatchHolds, WatchlistTypeOK
  <1>9. ASSUME ~behind' PROVE ~gap' /\ story' = watch'
    <2>1. ~behind /\ ~stale[h] /\ WatchHolds(h)
      BY <1>2, <1>9 DEF WatchIInv
    <2>2. ~gap /\ story = watch
      BY <2>1 DEF WatchIInv
    <2>3. req[h].from = watch
      BY <1>1, <2>1 DEF WatchHolds
    <2> QED BY <1>3, <2>1, <2>2, <2>3
  <1> QED BY <1>7, <1>8, <1>9 DEF WatchIInv

\* Every step keeps the invariant.
LEMMA WatchSteps == WatchIInv /\ [WatchlistNext]_watchlistVars => WatchIInv'
  <1> SUFFICES ASSUME WatchIInv, [WatchlistNext]_watchlistVars PROVE WatchIInv'
    OBVIOUS
  <1>1. CASE UNCHANGED watchlistVars
    BY <1>1 DEF watchlistVars, requestVars, WatchIInv, WatchlistTypeOK, WatchHolds
  <1>2. ASSUME NEW h \in Handlers, UpsertWatch(h) PROVE WatchIInv'
    <2>1. ASSUME NEW t \in Times \cup {NoTime}, UpsertRead(h, t) PROVE WatchIInv'
      BY <2>1, WatchBegins DEF UpsertRead, Reminder
    <2>2. CASE UpsertWrite(h)
      <3>1. req[h].op = "upsert"
        BY <2>2 DEF UpsertWrite, Busy
      <3>2. req[h].to \in Reminder
        BY <3>1, WatchFields DEF WatchIInv
      <3>3. row' \in Nat
        BY <2>2 DEF UpsertWrite, UpdateEntry, InsertEntry, WatchIInv, WatchlistTypeOK
      <3> QED BY <2>2, <3>1, <3>2, <3>3, WatchCommits DEF UpsertWrite
    <2> QED BY <1>2, <2>1, <2>2 DEF UpsertWatch
  <1>3. ASSUME NEW h \in Handlers, RemoveWatch(h) PROVE WatchIInv'
    <2>1. CASE RemoveRead(h)
      BY <2>1, WatchBegins DEF RemoveRead, Reminder
    <2>2. CASE RemoveWrite(h)
      <3>1. req[h].op = "remove"
        BY <2>2 DEF RemoveWrite, Busy
      <3>2. watch' \in Reminder /\ row' \in Nat /\ Unwatched \in Reminder
        BY <2>2 DEF RemoveWrite, WatchIInv, WatchlistTypeOK, Reminder
      <3>3. WatchHolds(h) /\ ~stale[h] => watch' = Unwatched
        BY <2>2, <3>1, WatchFields DEF RemoveWrite, WatchHolds, WatchIInv
      <3> QED BY <2>2, <3>1, <3>2, <3>3, WatchCommits DEF RemoveWrite
    <2> QED BY <1>3, <2>1, <2>2 DEF RemoveWatch
  <1>4. ASSUME NEW h \in Handlers, Lost(h), UNCHANGED <<watch, row, story, gap, behind>>
        PROVE  WatchIInv'
    BY <1>4 DEF Lost, End, WatchIInv, WatchlistTypeOK, WatchHolds
  <1> QED BY <1>1, <1>2, <1>3, <1>4 DEF WatchlistNext

\* The history of a watch is a chain that ends in the row, however requests overlap
\* that see what they write over (EventWatchlistService).
THEOREM HistoryStaysTold == WatchlistSpec => [](HistoryIsAChain /\ HistoryTells)
  <1>1. WatchIInv => HistoryIsAChain /\ HistoryTells
    BY DEF WatchIInv, HistoryIsAChain, HistoryTells
  <1> QED BY <1>1, WatchInitially, WatchSteps, PTL DEF WatchlistSpec

-----------------------------------------------------------------------------
(* Leads and their reminders. *)

IsOpen(r) == about[r] # NoLead /\ status[r] # "completed"

\* The columns the argument looks at.
LeadShape ==
    /\ key \in [LeadIds -> Keys \cup {NoKey}]
    /\ stage \in [LeadIds -> LeadStages]
    /\ followUp \in [LeadIds -> Nat]
    /\ about \in [ReminderIds -> LeadIds \cup {NoLead}]
    /\ status \in [ReminderIds -> ReminderStates]
    /\ due \in [ReminderIds -> Nat]
    /\ overtook \in BOOLEAN

\* A request under way is about the rows it names, which stay: a lead that has a key
\* keeps one, a reminder that is about a lead stays so.
Names(h) ==
    /\ req[h].op \in {"idle", "create", "patch", "outcome", "complete", "reschedule", "queue"}
    /\ req[h].op = "create" =>
          /\ req[h].key \in Keys
          /\ req[h].date \in Nat
          /\ \A l \in LeadIds : key[l] = NoKey => l \in req[h].leads
    /\ req[h].op \in {"patch", "outcome"} =>
          /\ req[h].on \in LeadIds
          /\ req[h].on \in req[h].leads
          /\ req[h].stage \in LeadStages \cup {"kept"}
    /\ req[h].op = "patch" => req[h].date \in Nat
    /\ req[h].op = "patch" => req[h].key \in Keys \cup {NoKey}
    /\ req[h].op \in {"complete", "reschedule", "queue"} =>
          /\ req[h].on \in ReminderIds
          /\ about[req[h].on] \in req[h].leads
          /\ about[req[h].on] # NoLead
    /\ req[h].op = "reschedule" => req[h].date \in Nat
    /\ req[h].op = "queue" => req[h].state \in {"scheduled", "due", "overdue"}

\* What a request has found out, until another one commits a change of a row it names.
FoundOut(h) ==
    /\ req[h].op = "create" => \A l \in LeadIds \ renamed : key[l] # req[h].key
    /\ req[h].op \in {"patch", "outcome"} /\ stage[req[h].on] = "not_fit" =>
          req[h].stage \in {"kept", "not_fit"}
    /\ req[h].op \in {"complete", "reschedule", "queue"} => status[req[h].on] # "completed"

RequestsShape ==
    /\ DOMAIN req = Handlers
    /\ stale \in [Handlers -> BOOLEAN]
    /\ \A h \in Handlers : Names(h)

\* The two tables are in step, and no lead is there twice under the names it was
\* created with.
InStep ==
    /\ \A l, m \in LeadIds \ renamed : key[l] = key[m] => l = m \/ key[l] = NoKey
    /\ \A p, r \in ReminderIds : IsOpen(p) /\ IsOpen(r) /\ about[p] = about[r] => p = r
    /\ \A r \in ReminderIds : IsOpen(r) => due[r] = followUp[about[r]]

LeadIInv ==
    /\ LeadShape
    /\ RequestsShape
    /\ ~overtook => InStep
    /\ ~overtook => \A h \in Handlers : ~stale[h] => FoundOut(h)

\* No record ends: what a step may do to the rows.
RowsStay ==
    /\ \A l \in LeadIds : key[l] # NoKey => key'[l] # NoKey
    /\ \A l \in LeadIds \ renamed' : key[l] # NoKey => key'[l] = key[l]
    /\ renamed \subseteq renamed'
    /\ \A r \in ReminderIds : about[r] # NoLead => about'[r] = about[r]

\* It changes only what belongs to lead l.
ChangesOnly(l) ==
    /\ RowsStay
    /\ \A m \in LeadIds \ {l} : key'[m] = key[m] /\ stage'[m] = stage[m]
    /\ \A r \in ReminderIds : about[r] \notin {l, NoLead} => status'[r] = status[r]

\* What has ended stays so.
EndedStay ==
    /\ \A r \in ReminderIds : about[r] # NoLead /\ status[r] = "completed" =>
                                 status'[r] = "completed"
    /\ \A l \in LeadIds : stage[l] = "not_fit" => stage'[l] = "not_fit"

-----------------------------------------------------------------------------
\* At the start there are no leads.
LEMMA LeadInitially == LeadsInit => LeadIInv
  <1> SUFFICES ASSUME LeadsInit PROVE LeadIInv
    OBVIOUS
  <1>1. LeadShape
    BY LeadsAssumption DEF LeadsInit, LeadShape, ReminderStates
  <1>6. NoRequests
    BY DEF LeadsInit
  <1>2. \A h \in Handlers : req[h].op = "idle"
    BY <1>6 DEF NoRequests, Idle
  <1>5. ASSUME NEW h \in Handlers PROVE Names(h)
    BY <1>2 DEF Names
  <1>3. RequestsShape
    BY <1>5, <1>6 DEF NoRequests, RequestsShape
  <1>4. InStep
    BY DEF LeadsInit, InStep, IsOpen
  <1> QED BY <1>1, <1>2, <1>3, <1>4 DEF LeadIInv, FoundOut

\* Day by day: the state of a date is never that of a completed reminder.
LEMMA Classified == \A d : Classify(d) \in {"scheduled", "due", "overdue"}
  BY DEF Classify

\* A request that begins names what it has found out.
LEMMA LeadBegins ==
  ASSUME LeadIInv, NEW h \in Handlers, NEW r, Begin(h, r),
         UNCHANGED <<leadVars, reminderVars, renamed, overtook>>,
         LeadIInv /\ req'[h] = r => Names(h)' /\ FoundOut(h)'
  PROVE  LeadIInv'
  <1>1. /\ req' = [req EXCEPT ![h] = r] /\ stale' = [stale EXCEPT ![h] = FALSE]
        /\ UNCHANGED <<key, stage, followUp, about, status, due, renamed, overtook>>
    BY DEF Begin, leadVars, reminderVars
  <1>2. req'[h] = r /\ DOMAIN req' = Handlers /\ stale' \in [Handlers -> BOOLEAN]
    BY <1>1 DEF LeadIInv, RequestsShape
  <1>3. Names(h)' /\ FoundOut(h)'
    BY <1>2
  <1>4. ASSUME NEW g \in Handlers, g # h PROVE Names(g)' /\ (FoundOut(g) => FoundOut(g)')
    <2>1. req'[g] = req[g]
      BY <1>1, <1>4 DEF LeadIInv, RequestsShape
    <2>2. Names(g)
      BY DEF LeadIInv, RequestsShape
    <2>3. Names(g)'
      BY <1>1, <2>1, <2>2 DEF Names
    <2> QED BY <1>1, <2>1, <2>3 DEF FoundOut
  <1>5. RequestsShape'
    BY <1>2, <1>3, <1>4 DEF RequestsShape
  <1>6. \A g \in Handlers : g # h => stale'[g] = stale[g]
    BY <1>1 DEF LeadIInv, RequestsShape
  <1>7. ~overtook' => \A g \in Handlers : ~stale'[g] => FoundOut(g)'
    BY <1>1, <1>3, <1>4, <1>6 DEF LeadIInv
  <1>8. LeadShape' /\ (~overtook' => InStep')
    BY <1>1 DEF LeadIInv, LeadShape, InStep, IsOpen
  <1> QED BY <1>5, <1>7, <1>8 DEF LeadIInv

\* A commit about lead l leaves to the others what they have found out of other leads.
LEMMA LeadCommits ==
  ASSUME LeadIInv, NEW h \in Handlers, NEW l \in LeadIds, req[h].op # "idle",
         CommitLead(h, l), LeadShape', ChangesOnly(l),
         ~overtook /\ ~stale[h] => InStep'
  PROVE  LeadIInv'
  <1>1. /\ overtook' = (overtook \/ stale[h])
        /\ req' = [req EXCEPT ![h] = Idle]
        /\ \A x \in Handlers : stale'[x] = (/\ x # h
                                            /\ req[x] # Idle
                                            /\ stale[x] \/ l \in req[x].leads)
        /\ stale' \in [Handlers -> BOOLEAN]
    BY DEF CommitLead
  <1>2. DOMAIN req' = Handlers /\ DOMAIN req = Handlers
    BY <1>1 DEF LeadIInv, RequestsShape
  <1>3. Names(h)' /\ FoundOut(h)'
    <2>1. req'[h].op = "idle"
      BY <1>1, <1>2 DEF Idle
    <2> QED BY <2>1 DEF Names, FoundOut
  <1>4. ASSUME NEW g \in Handlers, g # h PROVE Names(g)'
    <2>1. req'[g] = req[g] /\ Names(g)
      BY <1>1, <1>2, <1>4 DEF LeadIInv, RequestsShape
    <2>2. \A m \in LeadIds : key'[m] = NoKey => key[m] = NoKey
      BY DEF ChangesOnly, RowsStay
    <2>3. \A r \in ReminderIds : about[r] # NoLead => about'[r] = about[r]
      BY DEF ChangesOnly, RowsStay
    <2> QED BY <2>1, <2>2, <2>3 DEF Names
  <1>5. ASSUME NEW g \in Handlers, g # h, ~stale'[g], ~overtook', req[g] # Idle
        PROVE  FoundOut(g)'
    <2>1. req'[g] = req[g] /\ Names(g)
      BY <1>1, <1>2, <1>5 DEF LeadIInv, RequestsShape
    <2>2. ~stale[g] /\ l \notin req[g].leads /\ ~overtook
      BY <1>1, <1>5
    <2>3. FoundOut(g)
      BY <2>2 DEF LeadIInv
    <2>4. CASE req[g].op = "create"
      <3>1. \A m \in LeadIds \ renamed' : key'[m] = key[m]
        BY <2>1, <2>2, <2>4 DEF Names, ChangesOnly, RowsStay
      <3>2. renamed \subseteq renamed'
        BY DEF ChangesOnly, RowsStay
      <3> QED BY <2>1, <2>3, <2>4, <3>1, <3>2 DEF FoundOut
    <2>5. CASE req[g].op \in {"patch", "outcome"}
      <3>1. stage'[req[g].on] = stage[req[g].on]
        BY <2>1, <2>2, <2>5 DEF Names, ChangesOnly
      <3> QED BY <2>1, <2>3, <2>5, <3>1 DEF FoundOut
    <2>6. CASE req[g].op \in {"complete", "reschedule", "queue"}
      <3>1. status'[req[g].on] = status[req[g].on]
        BY <2>1, <2>2, <2>6 DEF Names, ChangesOnly
      <3> QED BY <2>1, <2>3, <2>6, <3>1 DEF FoundOut
    <2> QED BY <2>1, <2>4, <2>5, <2>6 DEF FoundOut, Names
  <1>6. ASSUME NEW g \in Handlers, g # h, req[g] = Idle PROVE FoundOut(g)'
    <2>1. req'[g].op = "idle"
      BY <1>1, <1>2, <1>6 DEF Idle
    <2> QED BY <2>1 DEF FoundOut
  <1>7. RequestsShape'
    BY <1>1, <1>2, <1>3, <1>4 DEF RequestsShape
  <1>8. ~overtook' => InStep'
    BY <1>1
  <1> QED BY <1>3, <1>5, <1>6, <1>7, <1>8 DEF LeadIInv

-----------------------------------------------------------------------------
\* What a step leaves of the reminders, when it changes r, which belongs to l, and the
\* date of l.
LEMMA OneReminderMoves ==
  ASSUME LeadShape, InStep, NEW l \in LeadIds, NEW r \in ReminderIds, about[r] \in {l, NoLead},
         \A p \in ReminderIds : IsOpen(p) /\ about[p] = l => p = r,
         about' = [about EXCEPT ![r] = l],
         \A p \in ReminderIds : p # r => status'[p] = status[p] /\ due'[p] = due[p],
         \A m \in LeadIds : m # l => followUp'[m] = followUp[m],
         status'[r] # "completed" => due'[r] = followUp'[l]
  PROVE  /\ \A p, q \in ReminderIds : IsOpen(p)' /\ IsOpen(q)' /\ about'[p] = about'[q] => p = q
         /\ \A p \in ReminderIds : IsOpen(p)' => due'[p] = followUp'[about'[p]]
  <1>1. about'[r] = l /\ \A p \in ReminderIds : p # r => about'[p] = about[p]
    BY DEF LeadShape
  <1>2. \A p \in ReminderIds : p # r => (IsOpen(p)' <=> IsOpen(p))
    BY <1>1 DEF IsOpen
  <1>3. \A p \in ReminderIds : p # r /\ IsOpen(p)' => about'[p] # l /\ about[p] \in LeadIds
    BY <1>1, <1>2 DEF IsOpen, LeadShape
  <1>4. ASSUME NEW p \in ReminderIds, NEW q \in ReminderIds, IsOpen(p)', IsOpen(q)',
               about'[p] = about'[q]
        PROVE  p = q
    BY <1>1, <1>2, <1>3, <1>4 DEF InStep
  <1>5. ASSUME NEW p \in ReminderIds, IsOpen(p)' PROVE due'[p] = followUp'[about'[p]]
    <2>1. CASE p = r
      BY <1>1, <1>5, <2>1 DEF IsOpen
    <2>2. CASE p # r
      BY <1>1, <1>2, <1>3, <1>5, <2>2 DEF InStep
    <2> QED BY <2>1, <2>2
  <1> QED BY <1>4, <1>5

\* A reminder of l is brought in line with its date.
LEMMA SyncKeepsStep ==
  ASSUME LeadShape, NEW l \in LeadIds, NEW d \in Nat, SyncFromLead(l, d),
         followUp' = [followUp EXCEPT ![l] = d]
  PROVE  /\ about' \in [ReminderIds -> LeadIds \cup {NoLead}]
         /\ status' \in [ReminderIds -> ReminderStates]
         /\ due' \in [ReminderIds -> Nat]
         /\ \A r \in ReminderIds : about[r] # NoLead => about'[r] = about[r]
         /\ \A r \in ReminderIds : about[r] \notin {l, NoLead} => status'[r] = status[r]
         /\ \A r \in ReminderIds : about[r] # NoLead /\ status[r] = "completed" =>
                                      status'[r] = "completed"
         /\ InStep =>
              /\ \A p, q \in ReminderIds :
                    IsOpen(p)' /\ IsOpen(q)' /\ about'[p] = about'[q] => p = q
              /\ \A p \in ReminderIds : IsOpen(p)' => due'[p] = followUp'[about'[p]]
  <1> DEFINE Goal ==
         /\ about' \in [ReminderIds -> LeadIds \cup {NoLead}]
         /\ status' \in [ReminderIds -> ReminderStates]
         /\ due' \in [ReminderIds -> Nat]
         /\ \A r \in ReminderIds : about[r] # NoLead => about'[r] = about[r]
         /\ \A r \in ReminderIds : about[r] \notin {l, NoLead} => status'[r] = status[r]
         /\ \A r \in ReminderIds : about[r] # NoLead /\ status[r] = "completed" =>
                                      status'[r] = "completed"
         /\ InStep =>
              /\ \A p, q \in ReminderIds :
                    IsOpen(p)' /\ IsOpen(q)' /\ about'[p] = about'[q] => p = q
              /\ \A p \in ReminderIds : IsOpen(p)' => due'[p] = followUp'[about'[p]]
  <1> SUFFICES Goal
    OBVIOUS
  <1>1. followUp'[l] = d /\ \A m \in LeadIds : m # l => followUp'[m] = followUp[m]
    BY DEF LeadShape
  <1>2. NoLead \notin LeadIds
    BY LeadsAssumption
  <1>3. ASSUME OpenReminders(l) = {}, UNCHANGED reminderVars PROVE Goal
    <2>1. UNCHANGED <<about, status, due>>
      BY <1>3 DEF reminderVars
    <2>2. \A p \in ReminderIds : IsOpen(p) => about[p] \in LeadIds /\ about[p] # l
      BY <1>3 DEF OpenReminders, IsOpen, LeadShape
    <2>3. \A p \in ReminderIds : IsOpen(p)' <=> IsOpen(p)
      BY <2>1 DEF IsOpen
    <2>4. InStep => \A p \in ReminderIds : IsOpen(p)' => due'[p] = followUp'[about'[p]]
      BY <1>1, <2>1, <2>2, <2>3 DEF InStep
    <2>5. InStep => \A p, q \in ReminderIds :
                       IsOpen(p)' /\ IsOpen(q)' /\ about'[p] = about'[q] => p = q
      BY <2>1, <2>3 DEF InStep
    <2> QED BY <2>1, <2>4, <2>5 DEF LeadShape
  <1>4. ASSUME NEW r \in ReminderIds, IsActive(r, l), NEW st \in ReminderStates, NEW e \in Nat,
               SaveReminder(r, st, e), st = "completed" \/ e = d
        PROVE  Goal
    <2>1. about[r] = l /\ status[r] # "completed"
      BY <1>4 DEF IsActive, OpenReminders
    <2>2. /\ about' = about /\ status' = [status EXCEPT ![r] = st]
          /\ due' = [due EXCEPT ![r] = e]
      BY <1>4 DEF SaveReminder
    <2>3. /\ about' \in [ReminderIds -> LeadIds \cup {NoLead}]
          /\ status' \in [ReminderIds -> ReminderStates]
          /\ due' \in [ReminderIds -> Nat]
      BY <2>2 DEF LeadShape
    <2>4. /\ status'[r] = st /\ due'[r] = e
          /\ \A p \in ReminderIds : p # r => status'[p] = status[p] /\ due'[p] = due[p]
      BY <2>2 DEF LeadShape
    <2>5. ASSUME InStep
          PROVE  /\ \A p, q \in ReminderIds :
                       IsOpen(p)' /\ IsOpen(q)' /\ about'[p] = about'[q] => p = q
                 /\ \A p \in ReminderIds : IsOpen(p)' => due'[p] = followUp'[about'[p]]
      <3>1. about' = [about EXCEPT ![r] = l]
        BY <2>1, <2>2 DEF LeadShape
      <3>2. \A p \in ReminderIds : IsOpen(p) /\ about[p] = l => p = r
        BY <1>2, <2>1, <2>5 DEF InStep, IsOpen
      <3>3. status'[r] # "completed" => due'[r] = followUp'[l]
        BY <1>1, <1>4, <2>4
      <3> QED BY <1>1, <2>1, <2>4, <2>5, <3>1, <3>2, <3>3, OneReminderMoves
    <2> QED BY <2>1, <2>2, <2>3, <2>4, <2>5
  <1>5. ASSUME NEW r \in ReminderIds, OpenReminders(l) = {}, CreateReminder(r, l, d) PROVE Goal
    <2>1. /\ about[r] = NoLead /\ about' = [about EXCEPT ![r] = l]
          /\ status' = [status EXCEPT ![r] = Classify(d)] /\ due' = [due EXCEPT ![r] = d]
      BY <1>5 DEF CreateReminder
    <2>2. Classify(d) \in ReminderStates
      BY Classified DEF ReminderStates
    <2>3. /\ about' \in [ReminderIds -> LeadIds \cup {NoLead}]
          /\ status' \in [ReminderIds -> ReminderStates]
          /\ due' \in [ReminderIds -> Nat]
      BY <2>1, <2>2 DEF LeadShape
    <2>4. /\ due'[r] = d
          /\ \A p \in ReminderIds : p # r => /\ status'[p] = status[p] /\ due'[p] = due[p]
                                             /\ about'[p] = about[p]
      BY <2>1 DEF LeadShape
    <2>5. ASSUME InStep
          PROVE  /\ \A p, q \in ReminderIds :
                       IsOpen(p)' /\ IsOpen(q)' /\ about'[p] = about'[q] => p = q
                 /\ \A p \in ReminderIds : IsOpen(p)' => due'[p] = followUp'[about'[p]]
      <3>1. \A p \in ReminderIds : IsOpen(p) /\ about[p] = l => p = r
        BY <1>5 DEF OpenReminders, IsOpen
      <3>2. about[r] \in {l, NoLead}
        BY <2>1
      <3>3. \A p \in ReminderIds : p # r => status'[p] = status[p] /\ due'[p] = due[p]
        BY <2>4
      <3>4. due'[r] = followUp'[l]
        BY <1>1, <2>4
      <3> QED BY <1>1, <2>1, <2>5, <3>1, <3>2, <3>3, <3>4, OneReminderMoves
    <2> QED BY <2>1, <2>3, <2>4, <2>5
  <1>6. ASSUME NEW r \in ReminderIds, IsActive(r, l), SaveReminder(r, "completed", due[r])
        PROVE  Goal
    <2>1. due[r] \in Nat /\ "completed" \in ReminderStates
      BY DEF LeadShape, ReminderStates
    <2> QED BY <1>4, <1>6, <2>1
  <1>7. ASSUME NEW r \in ReminderIds, IsActive(r, l), RefreshReminder(r, d) PROVE Goal
    <2>1. SaveReminder(r, Classify(d), d)
      BY <1>7 DEF RefreshReminder, SaveReminder
    <2>2. Classify(d) \in ReminderStates
      BY Classified DEF ReminderStates
    <2> QED BY <1>4, <1>7, <2>1, <2>2
  <1> QED BY <1>3, <1>5, <1>6, <1>7 DEF SyncFromLead

-----------------------------------------------------------------------------
(* The requests. *)

\* What is left of the lead's rows by the requests that end.
LEMMA CreateKeeps ==
  ASSUME LeadIInv, NEW h \in Handlers, NEW l \in LeadIds, CreateLeadWrite(h, l)
  PROVE  LeadIInv' /\ (overtook' \/ EndedStay)
  <1>1. /\ req[h].op = "create" /\ key[l] = NoKey
        /\ key' = [key EXCEPT ![l] = req[h].key]
        /\ followUp' = [followUp EXCEPT ![l] = req[h].date]
        /\ SyncFromLead(l, req[h].date) /\ CommitLead(h, l) /\ stage' = stage
        /\ renamed' = renamed
    BY DEF CreateLeadWrite, Busy
  <1>2. LeadShape /\ Names(h)
    BY DEF LeadIInv, RequestsShape
  <1>3. req[h].key \in Keys /\ req[h].date \in Nat
    BY <1>1, <1>2 DEF Names
  <1>4. /\ key' \in [LeadIds -> Keys \cup {NoKey}] /\ stage' \in [LeadIds -> LeadStages]
        /\ followUp' \in [LeadIds -> Nat]
    BY <1>1, <1>2, <1>3 DEF LeadShape
  <1>5. overtook' = (overtook \/ stale[h]) /\ overtook' \in BOOLEAN
    BY <1>1, <1>2 DEF CommitLead, LeadShape
  <1>6. LeadShape'
    BY <1>1, <1>2, <1>3, <1>4, <1>5, SyncKeepsStep DEF LeadShape
  <1>7. key'[l] = req[h].key /\ \A m \in LeadIds : m # l => key'[m] = key[m]
    BY <1>1, <1>2 DEF LeadShape
  <1>8. RowsStay
    BY <1>1, <1>2, <1>3, <1>7, SyncKeepsStep DEF RowsStay
  <1>9. ChangesOnly(l)
    BY <1>1, <1>2, <1>3, <1>7, <1>8, SyncKeepsStep DEF ChangesOnly
  <1>10. ASSUME ~overtook, ~stale[h] PROVE InStep'
    <2>1. InStep /\ FoundOut(h)
      BY <1>10 DEF LeadIInv
    <2>2. \A m \in LeadIds \ renamed : key[m] # req[h].key
      BY <1>1, <2>1 DEF FoundOut
    <2>3. \A m, n \in LeadIds \ renamed' : key'[m] = key'[n] => m = n \/ key'[m] = NoKey
      BY <1>1, <1>7, <2>1, <2>2 DEF InStep
    <2> QED BY <1>1, <1>2, <1>3, <2>1, <2>3, SyncKeepsStep DEF InStep
  <1>11. EndedStay
    BY <1>1, <1>2, <1>3, SyncKeepsStep DEF EndedStay
  <1> QED BY <1>1, <1>6, <1>9, <1>10, <1>11, LeadCommits

\* A saved patch: the stage and the follow-up of a lead, and its reminder.
LEMMA PatchKeeps ==
  ASSUME LeadIInv, NEW h \in Handlers, UpdateLeadWrite(h)
  PROVE  LeadIInv' /\ (overtook' \/ EndedStay)
  <1> DEFINE l == req[h].on
  <1>1. /\ req[h].op = "patch" /\ SetKey(l, req[h].key)
        /\ followUp' = [followUp EXCEPT ![l] = req[h].date]
        /\ SetStage(l, req[h].stage)
        /\ SyncFromLead(l, req[h].date) /\ CommitLead(h, l)
    BY DEF UpdateLeadWrite, Busy
  <1>2. LeadShape /\ Names(h)
    BY DEF LeadIInv, RequestsShape
  <1>3. /\ l \in LeadIds /\ req[h].date \in Nat /\ req[h].stage \in LeadStages \cup {"kept"}
        /\ req[h].key \in Keys \cup {NoKey}
    BY <1>1, <1>2 DEF Names
  <1>4. ASSUME ~overtook, ~stale[h], stage[l] = "not_fit" PROVE req[h].stage \in {"kept", "not_fit"}
    BY <1>1, <1>4 DEF LeadIInv, FoundOut
  <1> HIDE DEF l
  <1>5. /\ key' \in [LeadIds -> Keys \cup {NoKey}] /\ stage' \in [LeadIds -> LeadStages]
        /\ followUp' \in [LeadIds -> Nat]
    BY <1>1, <1>2, <1>3 DEF LeadShape, SetStage, SetKey
  <1>13. /\ key' = key \/ (key'[l] # NoKey /\ l \in renamed')
         /\ \A m \in LeadIds : m # l => key'[m] = key[m]
         /\ renamed \subseteq renamed'
    BY <1>1, <1>2, <1>3 DEF LeadShape, SetKey
  <1>6. /\ stage'[l] = stage[l] \/ (stage'[l] = req[h].stage /\ req[h].stage # "kept")
        /\ \A m \in LeadIds : m # l => stage'[m] = stage[m]
    BY <1>1, <1>2, <1>3 DEF LeadShape, SetStage
  <1>7. overtook' = (overtook \/ stale[h]) /\ overtook' \in BOOLEAN
    BY <1>1, <1>2 DEF CommitLead, LeadShape
  <1>8. LeadShape'
    BY <1>1, <1>2, <1>3, <1>5, <1>7, SyncKeepsStep DEF LeadShape
  <1>9. ChangesOnly(l)
    BY <1>1, <1>2, <1>3, <1>6, <1>13, SyncKeepsStep DEF ChangesOnly, RowsStay
  <1>10. ASSUME ~overtook, ~stale[h] PROVE InStep'
    <2>1. InStep
      BY <1>10 DEF LeadIInv
    <2>2. \A m, n \in LeadIds \ renamed' : key'[m] = key'[n] => m = n \/ key'[m] = NoKey
      BY <1>13, <2>1 DEF InStep
    <2> QED BY <1>1, <1>2, <1>3, <2>1, <2>2, SyncKeepsStep DEF InStep
  <1>11. overtook' \/ EndedStay
    BY <1>1, <1>2, <1>3, <1>4, <1>6, <1>7, SyncKeepsStep DEF EndedStay
  <1>12. req[h].op # "idle"
    BY <1>1
  <1> QED BY <1>1, <1>3, <1>8, <1>9, <1>10, <1>11, <1>12, LeadCommits

\* A recorded outcome: the stage of a lead.
LEMMA OutcomeKeeps ==
  ASSUME LeadIInv, NEW h \in Handlers, RecordOutcomeWrite(h)
  PROVE  LeadIInv' /\ (overtook' \/ EndedStay)
  <1> DEFINE l == req[h].on
  <1>1. /\ req[h].op = "outcome" /\ SetStage(l, req[h].stage) /\ CommitLead(h, l)
        /\ UNCHANGED <<key, followUp, about, status, due, renamed>>
    BY DEF RecordOutcomeWrite, Busy, reminderVars
  <1>2. LeadShape /\ Names(h)
    BY DEF LeadIInv, RequestsShape
  <1>3. l \in LeadIds /\ req[h].stage \in LeadStages \cup {"kept"}
    BY <1>1, <1>2 DEF Names
  <1>4. ASSUME ~overtook, ~stale[h], stage[l] = "not_fit" PROVE req[h].stage \in {"kept", "not_fit"}
    BY <1>1, <1>4 DEF LeadIInv, FoundOut
  <1> HIDE DEF l
  <1>5. stage' \in [LeadIds -> LeadStages]
    BY <1>1, <1>2, <1>3 DEF LeadShape, SetStage
  <1>6. /\ stage'[l] = stage[l] \/ (stage'[l] = req[h].stage /\ req[h].stage # "kept")
        /\ \A m \in LeadIds : m # l => stage'[m] = stage[m]
    BY <1>1, <1>2, <1>3 DEF LeadShape, SetStage
  <1>7. overtook' = (overtook \/ stale[h]) /\ overtook' \in BOOLEAN
    BY <1>1, <1>2 DEF CommitLead, LeadShape
  <1>8. LeadShape'
    BY <1>1, <1>2, <1>5, <1>7 DEF LeadShape
  <1>9. ChangesOnly(l)
    BY <1>1, <1>6 DEF ChangesOnly, RowsStay
  <1>10. ASSUME ~overtook, ~stale[h] PROVE InStep'
    BY <1>1, <1>10 DEF LeadIInv, InStep, IsOpen
  <1>11. overtook' \/ EndedStay
    BY <1>1, <1>4, <1>6, <1>7 DEF EndedStay
  <1>12. req[h].op # "idle"
    BY <1>1
  <1> QED BY <1>1, <1>3, <1>8, <1>9, <1>10, <1>11, <1>12, LeadCommits

\* A request about a reminder saves it, and perhaps the date of its lead.
LEMMA SaveKeeps ==
  ASSUME LeadIInv, NEW h \in Handlers,
         req[h].op \in {"complete", "reschedule", "queue"},
         NEW st \in ReminderStates, NEW d \in Nat, SaveReminder(req[h].on, st, d),
         CommitLead(h, about[req[h].on]), UNCHANGED <<key, stage, renamed>>,
         \/ followUp' = followUp /\ d = due[req[h].on]
         \/ followUp' = [followUp EXCEPT ![about[req[h].on]] = d]
  PROVE  LeadIInv' /\ (overtook' \/ EndedStay)
  <1> DEFINE r == req[h].on
             l == about[r]
  <1>1. /\ about' = about /\ status' = [status EXCEPT ![r] = st] /\ due' = [due EXCEPT ![r] = d]
        /\ CommitLead(h, l) /\ UNCHANGED <<key, stage, renamed>>
    BY DEF SaveReminder
  <1>2. \/ followUp' = followUp /\ d = due[r]
        \/ followUp' = [followUp EXCEPT ![l] = d]
    OBVIOUS
  <1>3. LeadShape /\ Names(h)
    BY DEF LeadIInv, RequestsShape
  <1>4. r \in ReminderIds /\ l # NoLead
    BY <1>3 DEF Names
  <1>5. ASSUME ~overtook, ~stale[h] PROVE status[r] # "completed"
    BY <1>5 DEF LeadIInv, FoundOut
  <1> HIDE DEF r
  <1>6. l \in LeadIds
    BY <1>3, <1>4 DEF LeadShape
  <1>7. about' = [about EXCEPT ![r] = l] /\ about[r] = l
    BY <1>1, <1>3, <1>4 DEF LeadShape
  <1>8. /\ \A p \in ReminderIds : p # r => status'[p] = status[p] /\ due'[p] = due[p]
        /\ status'[r] = st /\ due'[r] = d
    BY <1>1, <1>3, <1>4 DEF LeadShape
  <1> HIDE DEF l
  <1>9. /\ followUp' \in [LeadIds -> Nat] /\ \A m \in LeadIds : m # l => followUp'[m] = followUp[m]
    BY <1>2, <1>3, <1>6 DEF LeadShape
  <1>10. /\ status' \in [ReminderIds -> ReminderStates] /\ due' \in [ReminderIds -> Nat]
    BY <1>1, <1>3 DEF LeadShape
  <1>11. overtook' = (overtook \/ stale[h]) /\ overtook' \in BOOLEAN
    BY <1>1, <1>3 DEF CommitLead, LeadShape
  <1>12. LeadShape'
    BY <1>1, <1>3, <1>9, <1>10, <1>11 DEF LeadShape
  <1>13. ChangesOnly(l)
    BY <1>1, <1>7, <1>8 DEF ChangesOnly, RowsStay
  <1>14. ASSUME ~overtook, ~stale[h] PROVE InStep'
    <2>1. InStep /\ status[r] # "completed" /\ IsOpen(r)
      BY <1>4, <1>5, <1>7, <1>14 DEF LeadIInv, IsOpen
    <2>2. \A p \in ReminderIds : IsOpen(p) /\ about[p] = l => p = r
      BY <1>4, <1>7, <2>1 DEF InStep
    <2>3. d = followUp'[l]
      BY <1>2, <1>3, <1>4, <1>6, <1>7, <2>1 DEF InStep, LeadShape
    <2>4. /\ \A p, q \in ReminderIds : IsOpen(p)' /\ IsOpen(q)' /\ about'[p] = about'[q] => p = q
          /\ \A p \in ReminderIds : IsOpen(p)' => due'[p] = followUp'[about'[p]]
      <3>1. about[r] \in {l, NoLead} /\ due'[r] = followUp'[l]
        BY <1>7, <1>8, <2>3
      <3>2. \A p \in ReminderIds : p # r => status'[p] = status[p] /\ due'[p] = due[p]
        BY <1>8
      <3> QED BY <1>3, <1>4, <1>6, <1>7, <1>9, <2>1, <2>2, <3>1, <3>2, OneReminderMoves
    <2> QED BY <1>1, <2>1, <2>4 DEF InStep
  <1>15. overtook' \/ EndedStay
    BY <1>1, <1>5, <1>8, <1>11 DEF EndedStay
  <1> QED BY <1>1, <1>6, <1>12, <1>13, <1>14, <1>15, LeadCommits

\* Every step keeps the invariant, and what has ended ended.
LEMMA LeadSteps ==
  ASSUME LeadIInv, [LeadsNext]_leadsVars
  PROVE  LeadIInv' /\ (UNCHANGED leadsVars \/ overtook' \/ EndedStay)
  <1> USE DEF LeadIInv
  <1>1. CASE UNCHANGED leadsVars \/ DayPasses
    <2>1. UNCHANGED <<key, stage, followUp, about, status, due, renamed, overtook, req, stale>>
      BY <1>1 DEF leadsVars, leadVars, reminderVars, requestVars, DayPasses
    <2>2. LeadShape' /\ (~overtook' => InStep')
      BY <2>1 DEF LeadShape, InStep, IsOpen
    <2>3. RequestsShape' /\ \A h \in Handlers : FoundOut(h) => FoundOut(h)'
      BY <2>1 DEF RequestsShape, Names, FoundOut
    <2> QED BY <2>1, <2>2, <2>3 DEF EndedStay
  <1>2. ASSUME NEW h \in Handlers, Lost(h), UNCHANGED <<leadVars, reminderVars, today, renamed, overtook>>
        PROVE  LeadIInv' /\ EndedStay
    <2>1. /\ req' = [req EXCEPT ![h] = Idle] /\ stale' = [stale EXCEPT ![h] = FALSE]
          /\ UNCHANGED <<key, stage, followUp, about, status, due, renamed, overtook>>
      BY <1>2 DEF Lost, End, leadVars, reminderVars
    <2>2. /\ DOMAIN req' = Handlers /\ stale' \in [Handlers -> BOOLEAN] /\ req'[h].op = "idle"
          /\ \A g \in Handlers : g # h => req'[g] = req[g] /\ stale'[g] = stale[g]
      BY <2>1 DEF RequestsShape, Idle
    <2>3. LeadShape' /\ (~overtook' => InStep') /\ EndedStay
      BY <2>1 DEF LeadShape, InStep, IsOpen, EndedStay
    <2>4. Names(h)' /\ FoundOut(h)'
      BY <2>2 DEF Names, FoundOut
    <2>5. ASSUME NEW g \in Handlers, g # h PROVE Names(g)' /\ (FoundOut(g) => FoundOut(g)')
      BY <2>1, <2>2, <2>5 DEF RequestsShape, Names, FoundOut
    <2> QED BY <2>1, <2>2, <2>3, <2>4, <2>5 DEF RequestsShape
  <1>3. ASSUME NEW h \in Handlers, CreateLead(h) PROVE LeadIInv' /\ (overtook' \/ EndedStay)
    <2>1. ASSUME NEW k \in Keys, NEW d \in Days \cup {0}, CreateLeadRead(h, k, d)
          PROVE  LeadIInv' /\ EndedStay
      <3> DEFINE r == [op |-> "create", leads |-> FreeIds, key |-> k, date |-> d]
      <3>1. /\ Begin(h, r) /\ UNCHANGED <<leadVars, reminderVars, renamed, overtook>>
            /\ \A l \in LeadIds : key[l] # k
        BY <2>1 DEF CreateLeadRead, Duplicate
      <3>2. /\ r.op = "create" /\ r.key = k /\ r.date = d
            /\ \A l \in LeadIds : key[l] = NoKey => l \in r.leads
        BY DEF FreeIds
      <3>3. d \in Nat
        BY LeadsAssumption DEF Days
      <3> HIDE DEF r
      <3>4. key' = key /\ stage' = stage /\ status' = status /\ renamed' = renamed
        BY <3>1 DEF leadVars, reminderVars
      <3>5. req'[h] = r => Names(h)' /\ FoundOut(h)'
        BY <3>1, <3>2, <3>3, <3>4 DEF Names, FoundOut
      <3> QED BY <3>1, <3>4, <3>5, LeadBegins DEF EndedStay
    <2> QED BY <1>3, <2>1, CreateKeeps DEF CreateLead
  <1>4. ASSUME NEW h \in Handlers, PatchLead(h) PROVE LeadIInv' /\ (overtook' \/ EndedStay)
    <2>1. ASSUME NEW l \in LeadIds, NEW d \in Days \cup {0}, NEW s \in LeadStages,
                 NEW k \in Keys \cup {NoKey}, UpdateLeadRead(h, l, d, s, k)
          PROVE  LeadIInv' /\ EndedStay
      <3> DEFINE r == [op |-> "patch", leads |-> {l}, on |-> l, date |-> d, key |-> k,
                       stage |-> IF s = stage[l] THEN "kept" ELSE s]
      <3>1. /\ Begin(h, r) /\ UNCHANGED <<leadVars, reminderVars, renamed, overtook>>
            /\ stage[l] = "not_fit" => s = "not_fit"
        BY <2>1 DEF UpdateLeadRead, MayTransition
      <3>2. /\ r.op = "patch" /\ r.date = d /\ r.key = k /\ r.on = l /\ l \in r.leads
            /\ r.stage \in {"kept", s}
        OBVIOUS
      <3>3. d \in Nat
        BY LeadsAssumption DEF Days
      <3> HIDE DEF r
      <3>4. key' = key /\ stage' = stage /\ status' = status /\ renamed' = renamed
        BY <3>1 DEF leadVars, reminderVars
      <3>5. req'[h] = r => Names(h)' /\ FoundOut(h)'
        BY <3>1, <3>2, <3>3, <3>4 DEF Names, FoundOut
      <3> QED BY <3>1, <3>4, <3>5, LeadBegins DEF EndedStay
    <2> QED BY <1>4, <2>1, PatchKeeps DEF PatchLead
  <1>5. ASSUME NEW h \in Handlers, RecordOutcome(h) PROVE LeadIInv' /\ (overtook' \/ EndedStay)
    <2>1. ASSUME NEW l \in LeadIds, NEW o \in OutcomeTypes, StageHint[o] \in LeadStages,
                 RecordOutcomeRead(h, l, o)
          PROVE  LeadIInv' /\ EndedStay
      <3> DEFINE r == [op |-> "outcome", leads |-> {l}, on |-> l, outcome |-> o,
                       stage |-> IF StageHint[o] = stage[l] THEN "kept" ELSE StageHint[o]]
      <3>1. /\ Begin(h, r) /\ UNCHANGED <<leadVars, reminderVars, renamed, overtook>>
            /\ stage[l] # "not_fit"
        BY <2>1 DEF RecordOutcomeRead, MayRecordOutcome
      <3>2. /\ r.op = "outcome" /\ r.on = l /\ l \in r.leads
            /\ r.stage \in LeadStages \cup {"kept"}
        BY <2>1
      <3> HIDE DEF r
      <3>3. key' = key /\ stage' = stage /\ status' = status /\ renamed' = renamed
        BY <3>1 DEF leadVars, reminderVars
      <3>4. req'[h] = r => Names(h)' /\ FoundOut(h)'
        BY <3>1, <3>2, <3>3 DEF Names, FoundOut
      <3> QED BY <3>1, <3>3, <3>4, LeadBegins DEF EndedStay
    <2> QED BY <1>5, <2>1, OutcomeKeeps DEF RecordOutcome
  <1>6. ASSUME NEW h \in Handlers, CompleteReminder(h) \/ RescheduleReminder(h)
        PROVE  LeadIInv' /\ (overtook' \/ EndedStay)
    <2>1. ASSUME NEW op \in {"complete", "reschedule"}, NEW q \in ReminderIds, NEW d \in Nat,
                 ReminderRead(h, op, q, d)
          PROVE  LeadIInv' /\ EndedStay
      <3> DEFINE r == [op |-> op, leads |-> {about[q]}, on |-> q, date |-> d]
      <3>1. /\ Begin(h, r) /\ UNCHANGED <<leadVars, reminderVars, renamed, overtook>>
            /\ about[q] # NoLead /\ status[q] # "completed"
        BY <2>1 DEF ReminderRead
      <3>2. /\ r.op = op /\ r.on = q /\ about[q] \in r.leads /\ r.date = d
        OBVIOUS
      <3> HIDE DEF r
      <3>3. UNCHANGED <<key, stage, status, about, renamed>>
        BY <3>1 DEF leadVars, reminderVars
      <3>4. req'[h] = r => Names(h)' /\ FoundOut(h)'
        BY <3>1, <3>2, <3>3 DEF Names, FoundOut
      <3> QED BY <3>1, <3>3, <3>4, LeadBegins DEF EndedStay
    <2>2. CASE CompleteWrite(h)
      <3>1. /\ req[h].op = "complete" /\ SaveReminder(req[h].on, "completed", due[req[h].on])
            /\ CommitLead(h, about[req[h].on]) /\ UNCHANGED <<key, stage, followUp, renamed>>
        BY <2>2 DEF CompleteWrite, Busy, leadVars
      <3>2. "completed" \in ReminderStates /\ due[req[h].on] \in Nat
        BY <3>1 DEF ReminderStates, LeadShape, RequestsShape, Names
      <3> QED BY <3>1, <3>2, SaveKeeps
    <2>3. CASE RescheduleWrite(h)
      <3>1. /\ req[h].op = "reschedule"
            /\ SaveReminder(req[h].on, Classify(req[h].date), req[h].date)
            /\ followUp' = [followUp EXCEPT ![about[req[h].on]] = req[h].date]
            /\ CommitLead(h, about[req[h].on]) /\ UNCHANGED <<key, stage, renamed>>
        BY <2>3 DEF RescheduleWrite, Busy
      <3>2. req[h].date \in Nat
        BY <3>1 DEF RequestsShape, Names
      <3>3. Classify(req[h].date) \in ReminderStates
        BY Classified DEF ReminderStates
      <3> QED BY <3>1, <3>2, <3>3, SaveKeeps
    <2>4. \A d \in Days : d \in Nat
      BY LeadsAssumption DEF Days
    <2> QED BY <1>6, <2>1, <2>2, <2>3, <2>4 DEF CompleteReminder, RescheduleReminder
  <1>7. ASSUME NEW h \in Handlers, ReminderQueue(h) PROVE LeadIInv' /\ (overtook' \/ EndedStay)
    <2>1. ASSUME NEW q \in ReminderIds, QueueRead(h, q) PROVE LeadIInv' /\ EndedStay
      <3> DEFINE r == [op |-> "queue", leads |-> {about[q]}, on |-> q, state |-> Classify(due[q])]
      <3>1. /\ Begin(h, r) /\ UNCHANGED <<leadVars, reminderVars, renamed, overtook>>
            /\ about[q] # NoLead /\ status[q] # "completed"
        BY <2>1 DEF QueueRead
      <3>2. /\ r.op = "queue" /\ r.on = q /\ about[q] \in r.leads
            /\ r.state \in {"scheduled", "due", "overdue"}
        BY Classified
      <3> HIDE DEF r
      <3>3. UNCHANGED <<key, stage, status, about, renamed>>
        BY <3>1 DEF leadVars, reminderVars
      <3>4. req'[h] = r => Names(h)' /\ FoundOut(h)'
        BY <3>1, <3>2, <3>3 DEF Names, FoundOut
      <3> QED BY <3>1, <3>3, <3>4, LeadBegins DEF EndedStay
    <2>2. CASE QueueWrite(h)
      <3>1. /\ req[h].op = "queue" /\ SaveReminder(req[h].on, req[h].state, due[req[h].on])
            /\ CommitLead(h, about[req[h].on]) /\ UNCHANGED <<key, stage, followUp, renamed>>
        BY <2>2 DEF QueueWrite, Busy, leadVars
      <3>2. due[req[h].on] \in Nat
        BY <3>1 DEF LeadShape, RequestsShape, Names
      <3>3. req[h].state \in ReminderStates
        BY <3>1 DEF RequestsShape, Names, ReminderStates
      <3> QED BY <3>1, <3>2, <3>3, SaveKeeps
    <2> QED BY <1>7, <2>1, <2>2 DEF ReminderQueue
  <1> QED BY <1>1, <1>2, <1>3, <1>4, <1>5, <1>6, <1>7 DEF LeadsNext

\* What the invariant says of leads and reminders.
LEMMA LeadsAgree == LeadIInv => NoDuplicates /\ ReminderIsTheLeads
  <1> SUFFICES ASSUME LeadIInv, ~overtook PROVE NoDuplicates /\ ReminderIsTheLeads
    BY DEF NoDuplicates, ReminderIsTheLeads
  <1>1. InStep
    BY DEF LeadIInv
  <1>2. NoDuplicates
    BY <1>1 DEF InStep, NoDuplicates
  <1>3. ASSUME NEW r \in ReminderIds, about[r] # NoLead, status[r] # "completed"
        PROVE  OpenReminders(about[r]) = {r} /\ due[r] = followUp[about[r]]
    <2>1. \A p \in ReminderIds : about[p] = about[r] /\ status[p] # "completed" => p = r
      BY <1>1, <1>3 DEF InStep, IsOpen
    <2>2. due[r] = followUp[about[r]]
      BY <1>1, <1>3 DEF InStep, IsOpen
    <2> QED BY <1>3, <2>1, <2>2 DEF OpenReminders
  <1> QED BY <1>2, <1>3 DEF ReminderIsTheLeads

\* Leads and reminders agree, and what ended has ended, however requests overlap that
\* see what they write over (LeadService, ReminderService).
THEOREM FollowUpsStayAgreed == LeadsSpec => FollowUpsAgree
  <1>1. LeadsSpec => []LeadIInv
    BY LeadInitially, LeadSteps, PTL DEF LeadsSpec
  <1>2. LeadIInv /\ [LeadsNext]_leadsVars =>
           [\A r \in ReminderIds :
               about[r] # NoLead /\ status[r] = "completed" =>
                   overtook' \/ status'[r] = "completed"]_leadsVars
    BY LeadSteps DEF EndedStay
  <1>3. LeadIInv /\ [LeadsNext]_leadsVars =>
           [\A l \in LeadIds :
               stage[l] = "not_fit" => overtook' \/ stage'[l] = "not_fit"]_leadsVars
    BY LeadSteps DEF EndedStay
  <1>4. LeadsSpec => CompletedStays /\ NotFitIsFinal
    BY <1>1, <1>2, <1>3, PTL DEF LeadsSpec, CompletedStays, NotFitIsFinal
  <1> QED BY <1>1, <1>4, LeadsAgree, PTL DEF FollowUpsAgree

-----------------------------------------------------------------------------
(* Leads, reminders and watches, in the composed specification. *)

\* Which component runs is decided once; of one that does not there is nothing.
FollowUpIInv ==
    /\ part = "leads" => LeadIInv
    /\ part # "leads" => /\ \A l \in LeadIds : key[l] = NoKey /\ stage[l] # "not_fit"
                         /\ \A r \in ReminderIds : about[r] = NoLead
    /\ part = "watchlist" => WatchIInv
    /\ part # "watchlist" => ~gap /\ story = watch

\* Each starts as it would alone.
LEMMA FollowUpInitially == ReviewInit => FollowUpIInv
  BY LeadInitially, WatchInitially DEF ReviewInit, FollowUpIInv, LeadsInit, WatchlistInit

\* Each component's steps leave the other's rows alone.
LEMMA FollowUpSteps ==
  ASSUME FollowUpIInv, [ReviewNext]_reviewVars
  PROVE  FollowUpIInv' /\ (UNCHANGED leadsVars \/ overtook' \/ EndedStay)
  <1>1. CASE UNCHANGED reviewVars
    <2>1. UNCHANGED <<part, leadsVars, watchlistVars>>
      BY <1>1 DEF reviewVars
    <2>2. UNCHANGED <<part, key, stage, about, gap, story, watch>>
      BY <2>1 DEF leadsVars, leadVars, reminderVars, watchlistVars
    <2> QED BY <2>1, <2>2, LeadSteps, WatchSteps DEF FollowUpIInv
  <1>2. CASE part = "leads" /\ LeadsNext /\ Alone("leads")
    <2>1. UNCHANGED <<part, gap, story, watch>>
      BY <1>2 DEF Alone
    <2> QED BY <1>2, <2>1, LeadSteps DEF FollowUpIInv
  <1>3. CASE part = "watchlist" /\ WatchlistNext /\ Alone("watchlist")
    <2>1. UNCHANGED <<part, key, stage, about, status>>
      BY <1>3 DEF Alone, leadVars, reminderVars
    <2> QED BY <1>3, <2>1, WatchSteps DEF FollowUpIInv, EndedStay
  <1>4. ASSUME NEW p \in Parts \ {"leads", "watchlist"}, part = p, Alone(p)
        PROVE  FollowUpIInv' /\ (UNCHANGED leadsVars \/ overtook' \/ EndedStay)
    <2>1. UNCHANGED <<part, key, stage, about, status, gap, story, watch>>
      BY <1>4 DEF Alone, leadVars, reminderVars, Parts
    <2> QED BY <1>4, <2>1 DEF FollowUpIInv, EndedStay
  <1> QED BY <1>1, <1>2, <1>3, <1>4 DEF ReviewNext, Parts

\* Leads, their reminders and the watches of their events keep their records straight
\* (LeadService, ReminderService, EventWatchlistService).
THEOREM FollowUpStaysKept == ReviewSpec => FollowUpIsKept
  <1>1. ReviewSpec => []FollowUpIInv
    BY FollowUpInitially, FollowUpSteps, PTL DEF ReviewSpec
  <1>2. FollowUpIInv => NoDuplicates /\ ReminderIsTheLeads
    BY LeadsAgree DEF FollowUpIInv, NoDuplicates, ReminderIsTheLeads
  <1>3. FollowUpIInv => HistoryIsAChain /\ HistoryTells
    BY DEF FollowUpIInv, WatchIInv, HistoryIsAChain, HistoryTells
  <1>4. FollowUpIInv /\ [ReviewNext]_reviewVars =>
           [\A r \in ReminderIds :
               about[r] # NoLead /\ status[r] = "completed" =>
                   overtook' \/ status'[r] = "completed"]_leadsVars
    BY FollowUpSteps DEF EndedStay
  <1>5. FollowUpIInv /\ [ReviewNext]_reviewVars =>
           [\A l \in LeadIds :
               stage[l] = "not_fit" => overtook' \/ stage'[l] = "not_fit"]_leadsVars
    BY FollowUpSteps DEF EndedStay
  <1>6. ReviewSpec => CompletedStays /\ NotFitIsFinal
    BY <1>1, <1>4, <1>5, PTL DEF ReviewSpec, CompletedStays, NotFitIsFinal
  <1> QED BY <1>1, <1>2, <1>3, <1>6, PTL DEF FollowUpIsKept, FollowUpsAgree

-----------------------------------------------------------------------------
(* A browser session's row, runtime and thread. *)

SyncedOps == {"status", "act", "ask", "expire", "confirm"}
SessionOps == {"idle", "open", "stop", "close", "stopped", "cancel"} \cup SyncedOps

Holding(h) == req[h].op # "idle" /\ req[h].holds

OneHolder == \A g, h \in Handlers : Holding(g) /\ Holding(h) => g = h

\* What row, runtime and thread have to do with each other.
SessionRow ==
    /\ state \in SessionStates \cup {"absent"}
    /\ live \in SessionStates \cup {"gone"}
    /\ liveStop \in BOOLEAN
    /\ outran \in BOOLEAN
    /\ state = "absent" => \A c \in Confirmations : conf[c] = "none"
    /\ live = "gone" => thread \in {"new", "ended"} /\ page = "none"
    /\ thread = "new" => live = "gone" /\ state = "absent"
    /\ live = "failed" => thread = "ended"
    /\ live \in {"stopping", "stopped"} => liveStop
    /\ outran \/ (state \in Terminal => live \in {state, "gone"})
    /\ page = "open" => \/ outran
                        \/ thread = "acting" /\ ~liveStop
                        \/ \E h \in Handlers : Busy(h, "close")

\* What a request knows of them: one that is to write what it has seen does not write
\* over an end, one that is to stop the session is about one that has not ended, unless
\* the runtime has something to say.
Informed(h) ==
    /\ req[h].op \in SessionOps
    /\ req[h].op \in {"open", "close", "stopped"} => req[h].holds
    /\ req[h].op \in {"stop", "cancel"} => ~req[h].holds
    /\ req[h].op = "close" => req[h] = [op |-> "close", holds |-> TRUE]
    /\ Holding(h) => live # "gone"
    /\ Holding(h) /\ req[h].op \in SyncedOps =>
          /\ req[h].view.state \in SessionStates
          /\ outran \/ (state \in Terminal => req[h].view.state = state)
          /\ outran \/ (req[h].view.state \in Terminal => live = req[h].view.state)
    /\ req[h].op = "open" => state = "absent"
    /\ req[h].op = "stop" /\ live = "gone" => state \notin Terminal
    /\ state = "absent" => req[h].op \in {"idle", "open"}

LifeIInv ==
    /\ DOMAIN req = Handlers
    /\ SessionRow
    /\ OneHolder
    /\ \A h \in Handlers : Informed(h)

\* What a step may do to those it is not about.
Undisturbed(H) ==
    /\ DOMAIN req' = Handlers
    /\ \A g \in Handlers \ H : req'[g] = req[g]
    /\ \A h \in H : Holding(h)' => Holding(h) \/ \A g \in Handlers \ H : ~Holding(g)
    /\ state' = state \/ \A g \in Handlers \ H : ~Holding(g)
    /\ state' = "absent" => state = "absent"
    /\ live' = "gone" => live = "gone"
    /\ outran => outran'
    /\ live \in Terminal => live' = live \/ outran'
    /\ live = "gone" /\ state \notin Terminal => state' \notin Terminal

\* An end is not taken back.
EndStands == state \in Terminal => outran' \/ (state' = state /\ live' \in {state, "gone"})

\* At the start there is no session.
LEMMA LifeInitially == SessionInit => LifeIInv
  <1> SUFFICES ASSUME SessionInit PROVE LifeIInv
    OBVIOUS
  <1>1. DOMAIN req = Handlers /\ \A h \in Handlers : req[h].op = "idle"
    BY DEF SessionInit, NoRequests, Idle
  <1>2. SessionRow
    BY DEF SessionInit, SessionRow, Terminal, SessionStates
  <1>3. OneHolder /\ \A h \in Handlers : Informed(h)
    BY <1>1 DEF OneHolder, Holding, Informed, SessionOps, SyncedOps
  <1> QED BY <1>1, <1>2, <1>3 DEF LifeIInv

\* Those a step is not about stay informed.
LEMMA OthersInformed ==
  ASSUME LifeIInv, NEW H \in SUBSET Handlers, \A g, h \in H : g = h, Undisturbed(H),
         SessionRow', \A h \in H : Informed(h)'
  PROVE  LifeIInv'
  <1>1. ASSUME NEW g \in Handlers \ H PROVE Informed(g)' /\ (Holding(g)' <=> Holding(g))
    <2>1. req'[g] = req[g] /\ Informed(g)
      BY DEF Undisturbed, LifeIInv
    <2>2. Holding(g)' <=> Holding(g)
      BY <2>1 DEF Holding
    <2>3. Holding(g) => live' # "gone"
      BY <2>1 DEF Informed, Undisturbed
    <2>4. ASSUME Holding(g), req[g].op \in SyncedOps
          PROVE  /\ req[g].view.state \in SessionStates
                 /\ outran' \/ (state' \in Terminal => req[g].view.state = state')
                 /\ outran' \/ (req[g].view.state \in Terminal => live' = req[g].view.state)
      <3>1. state' = state
        BY <2>4 DEF Undisturbed
      <3> QED BY <2>1, <2>4, <3>1 DEF Informed, Undisturbed
    <2>5. req[g].op = "open" => state' = "absent"
      BY <2>1 DEF Informed, Undisturbed, Holding
    <2>6. req[g].op = "stop" /\ live' = "gone" => state' \notin Terminal
      BY <2>1 DEF Informed, Undisturbed
    <2>7. state' = "absent" => req[g].op \in {"idle", "open"}
      BY <2>1 DEF Informed, Undisturbed
    <2> QED BY <2>1, <2>2, <2>3, <2>4, <2>5, <2>6, <2>7 DEF Informed
  <1>2. OneHolder'
    BY <1>1 DEF OneHolder, LifeIInv, Undisturbed
  <1> QED BY <1>1, <1>2 DEF LifeIInv, Undisturbed

\* A request that is over leaves nothing to know.
LEMMA IdleInformed ==
  ASSUME NEW h \in Handlers, DOMAIN req = Handlers, req' = [req EXCEPT ![h] = Idle]
  PROVE  /\ DOMAIN req' = Handlers /\ req'[h].op = "idle" /\ ~Holding(h)'
         /\ \A g \in Handlers \ {h} : req'[g] = req[g]
         /\ Informed(h)'
  <1>1. DOMAIN req' = Handlers /\ req'[h].op = "idle"
    BY DEF Idle
  <1> QED BY <1>1 DEF Informed, Holding, SessionOps, SyncedOps

\* No request but the one that opens it is about a session that is not there.
LEMMA ThereIsARow ==
  ASSUME LifeIInv, NEW h \in Handlers, req[h].op \in SessionOps \ {"idle", "open"}
  PROVE  state # "absent" /\ thread # "new"
  BY DEF LifeIInv, Informed, SessionRow

\* Two do not hold the lock.
LEMMA LockFreed ==
  ASSUME NEW h \in Handlers, LockFree(h)
  PROVE  \A g \in Handlers \ {h} : ~Holding(g)
  BY DEF LockFree, Holding, Idle

\* A request that begins without a write.
LEMMA BeginsInformed ==
  ASSUME LifeIInv, NEW h \in Handlers, NEW r, Begin(h, r),
         UNCHANGED <<rowVars, liveVars, conf, outran>>,
         r.op \in SessionOps \ {"open", "close", "stopped"},
         r.op \in {"stop", "cancel"} => ~r.holds,
         r.holds => LockFree(h) /\ live # "gone" /\ r.op \in SyncedOps /\ r.view.state = live,
         r.op = "stop" => state \notin Terminal,
         state # "absent"
  PROVE  LifeIInv' /\ EndStands
  <1>1. /\ req' = [req EXCEPT ![h] = r] /\ DOMAIN req = Handlers
        /\ UNCHANGED <<state, live, liveStop, page, thread, outran, conf>>
        /\ req[h] = Idle
    BY DEF Begin, rowVars, liveVars, LifeIInv
  <1>2. /\ DOMAIN req' = Handlers /\ req'[h] = r
        /\ \A g \in Handlers : g # h => req'[g] = req[g]
    BY <1>1
  <1>3. SessionRow /\ (r.holds => \A g \in Handlers \ {h} : ~Holding(g))
    BY LockFreed DEF LifeIInv
  <1>4. SessionRow'
    <2>1. \A g \in Handlers : Busy(g, "close") => Busy(g, "close")'
      BY <1>1, <1>2 DEF Busy, Idle
    <2> QED BY <1>1, <1>3, <2>1 DEF SessionRow
  <1>5. Holding(h)' => r.holds
    BY <1>2 DEF Holding
  <1>6. Undisturbed({h})
    BY <1>1, <1>2, <1>3, <1>5 DEF Undisturbed
  <1>7. r.holds => live \in SessionStates /\ (outran \/ (state \in Terminal => live = state))
    BY <1>3 DEF SessionRow
  <1>8. Informed(h)'
    BY <1>1, <1>2, <1>5, <1>7 DEF Informed
  <1>9. EndStands
    BY <1>1, <1>3 DEF EndStands, SessionRow
  <1> QED BY <1>4, <1>6, <1>8, <1>9, OthersInformed

\* What _sync_runtime flushes is what the runtime says.
LEMMA SyncedInformed ==
  ASSUME LifeIInv, NEW h \in Handlers, NEW what \in SyncedOps, NEW c, BeginSynced(h, what, c),
         UNCHANGED <<rowVars, liveVars, logVars, sessionHistory>>
  PROVE  LifeIInv' /\ EndStands
  <1> DEFINE r == [op |-> what, conf |-> c, loaded |-> state, loadedStop |-> stopAsked,
                   view |-> Seen, used |-> logged, holds |-> Outdated]
  <1>1. /\ Begin(h, r) /\ state # "absent" /\ (Outdated => LockFree(h))
        /\ UNCHANGED <<rowVars, liveVars, conf, outran>>
    BY DEF BeginSynced, logVars, sessionHistory
  <1>2. r.op = what /\ r.holds = Outdated /\ r.view = Seen
    OBVIOUS
  <1> HIDE DEF r
  <1>3. Outdated => live # "gone" /\ Seen.state = live
    BY DEF Outdated, Seen
  <1>4. what \in SessionOps \ {"open", "close", "stopped", "stop", "cancel"}
    BY DEF SessionOps, SyncedOps
  <1> QED BY <1>1, <1>2, <1>3, <1>4, BeginsInformed

\* A request that writes what it has seen.
LEMMA KeepViewLives ==
  ASSUME LifeIInv, NEW h \in Handlers, req[h].op \in SyncedOps, KeepView(h),
         req' = [req EXCEPT ![h] = Idle], UNCHANGED <<liveVars, outran>>
  PROVE  LifeIInv' /\ EndStands
  <1>1. /\ UNCHANGED <<live, liveStop, page, thread, outran>>
        /\ state' = IF req[h].holds THEN req[h].view.state ELSE state
        /\ SessionRow /\ OneHolder /\ Informed(h) /\ DOMAIN req = Handlers
    BY DEF liveVars, KeepView, LifeIInv
  <1>2. state # "absent" /\ thread # "new"
    BY ThereIsARow DEF SessionOps, SyncedOps
  <1>3. req[h].op # "idle" /\ req[h].op # "close"
    BY DEF SyncedOps
  <1>4. CASE ~req[h].holds
    <2>1. /\ state' = state /\ live' = live /\ liveStop' = liveStop /\ page' = page
          /\ thread' = thread /\ outran' = outran
      BY <1>1, <1>4
    <2>2. \A g \in Handlers : Busy(g, "close") => Busy(g, "close")'
      BY <1>1, <1>3, IdleInformed DEF Busy
    <2>3. SessionRow /\ DOMAIN req = Handlers
      BY <1>1
    <2>4. SessionRow'
      <3>1. page = "open" => \/ outran
                             \/ thread = "acting" /\ ~liveStop
                             \/ \E g \in Handlers : Busy(g, "close")'
        BY <2>2, <2>3 DEF SessionRow
      <3> QED BY <1>2, <2>1, <2>3, <3>1 DEF SessionRow
    <2>5. Undisturbed({h})
      <3>1. /\ DOMAIN req' = Handlers /\ ~Holding(h)'
            /\ \A g \in Handlers \ {h} : req'[g] = req[g]
        BY <2>3, IdleInformed
      <3>2. outran => outran'
        BY <2>1
      <3> QED BY <2>1, <3>1, <3>2 DEF Undisturbed
    <2>6. EndStands
      BY <2>1, <2>3 DEF EndStands, SessionRow
    <2> QED BY <2>3, <2>4, <2>5, <2>6, IdleInformed, OthersInformed
  <1>5. CASE req[h].holds
    <2> DEFINE v == req[h].view.state
    <2>1. /\ state' = v /\ v \in SessionStates
          /\ outran \/ (state \in Terminal => v = state)
          /\ outran \/ (v \in Terminal => live = v)
          /\ live # "gone"
      BY <1>1, <1>3, <1>5 DEF Informed, Holding
    <2> HIDE DEF v
    <2>2. v # "absent"
      BY <2>1 DEF SessionStates, Stoppable, Actionable, Terminal
    <2>3. \A g \in Handlers : Busy(g, "close") => Busy(g, "close")'
      BY <1>1, <1>3, IdleInformed DEF Busy
    <2>4. SessionRow'
      BY <1>1, <1>2, <2>1, <2>2, <2>3 DEF SessionRow
    <2>5. \A g \in Handlers \ {h} : ~Holding(g)
      BY <1>1, <1>3, <1>5 DEF OneHolder, Holding
    <2>6. Undisturbed({h})
      BY <1>1, <2>1, <2>2, <2>5, IdleInformed DEF Undisturbed
    <2>7. EndStands
      BY <1>1, <2>1 DEF EndStands, SessionRow
    <2> QED BY <1>1, <2>4, <2>6, <2>7, IdleInformed, OthersInformed
  <1> QED BY <1>4, <1>5

\* An action leaves the session as it is, or with the user.
LEMMA Executed ==
  ASSUME ExecuteAction
  PROVE  live' = live \/ (live \in Actionable /\ live' = "needs_user_action")
  BY DEF ExecuteAction

\* A request that writes what the runtime says after its action.
LEMMA FollowLives ==
  ASSUME LifeIInv, NEW h \in Handlers, req[h].op \in SyncedOps, LockFree(h), FollowRuntime(h),
         live' = live \/ (live \in Actionable /\ live' = "needs_user_action"),
         req' = [req EXCEPT ![h] = Idle], UNCHANGED <<liveStop, page, thread, outran>>
  PROVE  LifeIInv' /\ EndStands
  <1>1. /\ state' = IF live' \in {"gone", req[h].loaded} THEN state ELSE live'
        /\ SessionRow /\ OneHolder /\ Informed(h) /\ DOMAIN req = Handlers
    BY DEF FollowRuntime, LifeIInv
  <1>2. state # "absent" /\ thread # "new"
    BY ThereIsARow DEF SessionOps, SyncedOps
  <1>3. req[h].op # "close"
    BY DEF SyncedOps
  <1>4. \A g \in Handlers : Busy(g, "close") => Busy(g, "close")'
    BY <1>1, <1>3, IdleInformed DEF Busy
  <1>5. /\ live' \in SessionStates \cup {"gone"} /\ (live' = "gone" <=> live = "gone")
        /\ live' = live \/ live' \notin Terminal \cup {"stopping"}
        /\ live \in Terminal \cup {"gone"} => live' = live
    BY <1>1 DEF SessionRow, SessionStates, Stoppable, Actionable, Terminal
  <1>6. state' = state \/ (state' = live' /\ live' # "gone")
    BY <1>1
  <1>7. state' \in SessionStates
    BY <1>1, <1>2, <1>5, <1>6 DEF SessionRow
  <1>8. state' # "absent"
    BY <1>7 DEF SessionStates, Stoppable, Actionable, Terminal
  <1>9. outran \/ (state' \in Terminal => live' \in {state', "gone"})
    BY <1>1, <1>5, <1>6 DEF SessionRow
  <1>10. SessionRow'
    <2>1. /\ live' = "failed" => thread = "ended"
          /\ live' \in {"stopping", "stopped"} => liveStop
      BY <1>1, <1>5 DEF SessionRow, Terminal
    <2> QED BY <1>1, <1>2, <1>4, <1>5, <1>7, <1>8, <1>9, <2>1 DEF SessionRow
  <1>11. \A g \in Handlers \ {h} : ~Holding(g)
    BY LockFreed
  <1>12. live = "gone" /\ state \notin Terminal => state' \notin Terminal
    BY <1>5, <1>6
  <1>13. Undisturbed({h})
    BY <1>1, <1>2, <1>5, <1>8, <1>11, <1>12, IdleInformed DEF Undisturbed
  <1>14. EndStands
    <2>1. ASSUME state \in Terminal, ~outran PROVE state' = state /\ live' \in {state, "gone"}
      <3>1. live \in {state, "gone"}
        BY <1>1, <2>1 DEF SessionRow
      <3>2. live' = live
        BY <1>5, <2>1, <3>1
      <3> QED BY <1>6, <3>1, <3>2
    <2> QED BY <2>1 DEF EndStands
  <1> QED BY <1>1, <1>10, <1>13, <1>14, IdleInformed, OthersInformed

\* A request that ends without a word about the row.
LEMMA EndsLive ==
  ASSUME LifeIInv, NEW h \in Handlers, req[h].op \notin {"close", "stopped"},
         live' = live \/ (live \in Actionable /\ live' = "needs_user_action"),
         req' = [req EXCEPT ![h] = Idle], UNCHANGED <<state, liveStop, page, thread, outran>>,
         state = "absent" => conf' = conf
  PROVE  LifeIInv' /\ EndStands
  <1>1. SessionRow /\ DOMAIN req = Handlers
    BY DEF LifeIInv
  <1>2. \A g \in Handlers : Busy(g, "close") => Busy(g, "close")'
    BY <1>1, IdleInformed DEF Busy
  <1>3. /\ live' \in SessionStates \cup {"gone"} /\ (live' = "gone" <=> live = "gone")
        /\ live' = live \/ live' \notin Terminal \cup {"stopping"}
        /\ live \in Terminal \cup {"gone"} => live' = live
    BY <1>1 DEF SessionRow, SessionStates, Stoppable, Actionable, Terminal
  <1>4. SessionRow'
    <2>1. /\ live' = "failed" => thread = "ended"
          /\ live' \in {"stopping", "stopped"} => liveStop
      BY <1>1, <1>3 DEF SessionRow, Terminal
    <2>2. outran \/ (state \in Terminal => live' \in {state, "gone"})
      BY <1>1, <1>3 DEF SessionRow
    <2> QED BY <1>1, <1>2, <1>3, <2>1, <2>2 DEF SessionRow
  <1>5. Undisturbed({h})
    BY <1>1, <1>3, IdleInformed DEF Undisturbed
  <1>6. EndStands
    BY <1>1, <1>3 DEF EndStands, SessionRow
  <1> QED BY <1>1, <1>4, <1>5, <1>6, IdleInformed, OthersInformed

-----------------------------------------------------------------------------
(* Opening and stopping a session. *)

\* The runtime's session is there before the row is.
LEMMA OpenLives ==
  ASSUME LifeIInv, NEW h \in Handlers, OpenSession(h)
  PROVE  LifeIInv' /\ EndStands
  <1>1. SessionRow /\ DOMAIN req = Handlers /\ Informed(h)
    BY DEF LifeIInv
  <1>2. CASE CreateRead(h)
    <2> DEFINE r == [op |-> "open", holds |-> TRUE]
    <2>1. /\ thread = "new" /\ LockFree(h) /\ live' = "queued" /\ thread' = "scheduled"
          /\ req[h] = Idle /\ req' = [req EXCEPT ![h] = r]
          /\ UNCHANGED <<state, liveStop, page, outran, conf>>
      BY <1>2 DEF CreateRead, Begin, rowVars, sessionHistory, logVars
    <2>2. r.op = "open" /\ r.holds = TRUE
      OBVIOUS
    <2> HIDE DEF r
    <2>3. /\ DOMAIN req' = Handlers /\ req'[h] = r
          /\ \A g \in Handlers : g # h => req'[g] = req[g]
      BY <1>1, <2>1
    <2>4. live = "gone" /\ state = "absent" /\ page = "none"
      BY <1>1, <2>1 DEF SessionRow
    <2>5. SessionRow'
      BY <1>1, <2>1, <2>4 DEF SessionRow, SessionStates, Stoppable, Terminal
    <2>6. Undisturbed({h})
      BY <2>1, <2>3, <2>4, LockFreed DEF Undisturbed, Terminal
    <2>7. Informed(h)'
      BY <2>1, <2>2, <2>3, <2>4 DEF Informed, SessionOps, SyncedOps, Holding
    <2>8. EndStands
      BY <2>4 DEF EndStands, Terminal
    <2> QED BY <2>5, <2>6, <2>7, <2>8, OthersInformed
  <1>3. CASE CreateCommit(h)
    <2>1. /\ req[h].op = "open" /\ state' = "queued" /\ req' = [req EXCEPT ![h] = Idle]
          /\ UNCHANGED <<live, liveStop, page, thread, outran, conf>>
      BY <1>3 DEF CreateCommit, Busy, End, liveVars, sessionHistory, logVars
    <2>2. Holding(h) /\ state = "absent" /\ live # "gone"
      BY <1>1, <2>1 DEF Informed, Holding
    <2>3. \A g \in Handlers : Busy(g, "close") => Busy(g, "close")'
      BY <1>1, <2>1, IdleInformed DEF Busy
    <2>4. SessionRow'
      BY <1>1, <2>1, <2>2, <2>3 DEF SessionRow, SessionStates, Stoppable, Terminal
    <2>5. \A g \in Handlers \ {h} : ~Holding(g)
      BY <2>2 DEF LifeIInv, OneHolder
    <2>6. Undisturbed({h})
      BY <1>1, <2>1, <2>2, <2>5, IdleInformed DEF Undisturbed, Terminal
    <2>7. EndStands
      BY <2>2 DEF EndStands, Terminal
    <2> QED BY <1>1, <2>1, <2>4, <2>6, <2>7, IdleInformed, OthersInformed
  <1> QED BY <1>2, <1>3 DEF OpenSession

\* A stop ends with what the runtime has made of it.
LEMMA StopLives ==
  ASSUME LifeIInv, NEW h \in Handlers, StopSession(h)
  PROVE  LifeIInv' /\ EndStands
  <1>1. SessionRow /\ DOMAIN req = Handlers /\ Informed(h)
    BY DEF LifeIInv
  <1>2. CASE StopRead(h)
    <2> DEFINE r == [op |-> "stop", holds |-> FALSE]
    <2>1. /\ state \in Stoppable /\ Begin(h, r) /\ UNCHANGED <<rowVars, liveVars, conf, outran>>
      BY <1>2 DEF StopRead, logVars, sessionHistory
    <2>2. r.op = "stop" /\ r.holds = FALSE
      OBVIOUS
    <2> HIDE DEF r
    <2>3. state \notin Terminal /\ state # "absent"
      BY <2>1 DEF Stoppable, Actionable, Terminal
    <2> QED BY <2>1, <2>2, <2>3, BeginsInformed DEF SessionOps
  <1>3. CASE StopUnknown(h)
    <2>1. /\ req[h].op = "stop" /\ LockFree(h) /\ live = "gone" /\ state' = "stopping"
          /\ req' = [req EXCEPT ![h] = Idle]
          /\ UNCHANGED <<live, liveStop, page, thread, outran, conf>>
      BY <1>3 DEF StopUnknown, Busy, End, liveVars, sessionHistory, logVars
    <2>2. state \notin Terminal /\ state # "absent" /\ thread # "new"
      BY <1>1, <2>1, ThereIsARow DEF Informed, SessionOps
    <2>3. SessionRow'
      BY <1>1, <2>1, <2>2 DEF SessionRow, SessionStates, Terminal
    <2>4. Undisturbed({h})
      BY <1>1, <2>1, <2>2, IdleInformed, LockFreed DEF Undisturbed, Terminal
    <2>5. EndStands
      BY <2>2 DEF EndStands
    <2> QED BY <1>1, <2>1, <2>3, <2>4, <2>5, IdleInformed, OthersInformed
  <1>4. CASE StopEnded(h)
    <2>1. /\ req[h].op = "stop" /\ LockFree(h) /\ live \in Terminal /\ state' = live
          /\ liveStop' = TRUE /\ req' = [req EXCEPT ![h] = Idle]
          /\ UNCHANGED <<live, page, thread, outran, conf>>
      BY <1>4 DEF StopEnded, Busy, End, sessionHistory, logVars
    <2>2. state # "absent" /\ thread # "new"
      BY <2>1, ThereIsARow DEF SessionOps
    <2>3. \A g \in Handlers : Busy(g, "close") => Busy(g, "close")'
      BY <1>1, <2>1, IdleInformed DEF Busy
    <2>4. page = "open" => outran \/ \E g \in Handlers : Busy(g, "close")
      BY <1>1, <2>1 DEF SessionRow, Terminal
    <2>5. live # "gone" /\ live # "absent"
      BY <2>1 DEF Terminal
    <2>6. SessionRow'
      BY <1>1, <2>1, <2>2, <2>3, <2>4, <2>5 DEF SessionRow, SessionStates
    <2>7. Undisturbed({h})
      BY <1>1, <2>1, <2>5, IdleInformed, LockFreed DEF Undisturbed
    <2>8. EndStands
      BY <1>1, <2>1, <2>5 DEF EndStands, SessionRow
    <2> QED BY <1>1, <2>1, <2>6, <2>7, <2>8, IdleInformed, OthersInformed
  <1>5. CASE StopMark(h)
    <2> DEFINE r == [op |-> "close", holds |-> TRUE]
    <2>1. /\ req[h].op = "stop" /\ LockFree(h) /\ live \in Stoppable \cup {"stopping"}
          /\ liveStop' = TRUE /\ live' = "stopping" /\ req' = [req EXCEPT ![h] = r]
          /\ UNCHANGED <<state, page, thread, outran, conf>>
      BY <1>5 DEF StopMark, Busy, rowVars, sessionHistory, logVars
    <2>2. state # "absent" /\ thread # "new" /\ live \notin Terminal \cup {"gone"}
      BY <2>1, ThereIsARow DEF SessionOps, Stoppable, Actionable, Terminal
    <2>3. /\ DOMAIN req' = Handlers /\ req'[h] = r
          /\ \A g \in Handlers : g # h => req'[g] = req[g]
      BY <1>1, <2>1
    <2>4. Busy(h, "close")'
      BY <2>3 DEF Busy
    <2>5. SessionRow'
      BY <1>1, <2>1, <2>2, <2>4 DEF SessionRow, SessionStates
    <2>6. Undisturbed({h})
      BY <2>1, <2>2, <2>3, LockFreed DEF Undisturbed
    <2>7. Informed(h)'
      BY <2>1, <2>2, <2>3 DEF Informed, SessionOps, SyncedOps, Holding
    <2>8. EndStands
      BY <1>1, <2>1, <2>2 DEF EndStands, SessionRow
    <2> QED BY <2>5, <2>6, <2>7, <2>8, OthersInformed
  <1>6. CASE StopClose(h)
    <2>1. /\ req[h].op = "close" /\ page' = "none" /\ req' = [req EXCEPT ![h].op = "stopped"]
          /\ UNCHANGED <<state, live, liveStop, thread, outran, conf>>
      BY <1>6 DEF StopClose, Busy, rowVars, sessionHistory, logVars
    <2>2. /\ Holding(h) /\ live # "gone" /\ state # "absent" /\ thread # "new"
          /\ req[h] = [op |-> "close", holds |-> TRUE]
      BY <1>1, <2>1, ThereIsARow DEF Informed, Holding, SessionOps
    <2>3. /\ DOMAIN req' = Handlers /\ req'[h].op = "stopped" /\ req'[h].holds = TRUE
          /\ \A g \in Handlers : g # h => req'[g] = req[g]
      BY <1>1, <2>1, <2>2
    <2>4. SessionRow'
      BY <1>1, <2>1, <2>2 DEF SessionRow
    <2>5. \A g \in Handlers \ {h} : ~Holding(g)
      BY <2>2 DEF LifeIInv, OneHolder
    <2>6. Undisturbed({h})
      BY <2>1, <2>2, <2>3, <2>5 DEF Undisturbed
    <2>7. Informed(h)'
      BY <2>1, <2>2, <2>3 DEF Informed, SessionOps, SyncedOps, Holding
    <2>8. EndStands
      BY <1>1, <2>1 DEF EndStands, SessionRow
    <2> QED BY <2>4, <2>6, <2>7, <2>8, OthersInformed
  <1>7. CASE StopDone(h)
    <2>1. /\ req[h].op = "stopped" /\ state' = live' /\ req' = [req EXCEPT ![h] = Idle]
          /\ live' = IF live = "stopping" THEN "stopped" ELSE live
          /\ UNCHANGED <<liveStop, page, thread, outran, conf>>
      BY <1>7 DEF StopDone, Busy, End, sessionHistory, logVars
    <2>2. Holding(h) /\ live # "gone" /\ state # "absent" /\ thread # "new"
      BY <1>1, <2>1, ThereIsARow DEF Informed, Holding, SessionOps
    <2>3. \A g \in Handlers : Busy(g, "close") => Busy(g, "close")'
      BY <1>1, <2>1, IdleInformed DEF Busy
    <2>4. /\ live' \in SessionStates /\ live' \notin {"gone", "absent"}
          /\ live \in Terminal => live' = live
          /\ live' = "failed" => live = "failed"
          /\ live' \in {"stopping", "stopped"} => liveStop
      BY <1>1, <2>1, <2>2 DEF SessionRow, SessionStates, Stoppable, Actionable, Terminal
    <2>5. SessionRow'
      BY <1>1, <2>1, <2>2, <2>3, <2>4 DEF SessionRow
    <2>6. \A g \in Handlers \ {h} : ~Holding(g)
      BY <2>2 DEF LifeIInv, OneHolder
    <2>7. Undisturbed({h})
      BY <1>1, <2>1, <2>2, <2>4, <2>6, IdleInformed DEF Undisturbed
    <2>8. EndStands
      BY <1>1, <2>1, <2>2, <2>4 DEF EndStands, SessionRow
    <2> QED BY <1>1, <2>1, <2>5, <2>7, <2>8, IdleInformed, OthersInformed
  <1> QED BY <1>2, <1>3, <1>4, <1>5, <1>6, <1>7 DEF StopSession

\* The thread writes over an end only if it has been told to stop.
LEMMA ThreadLives == LifeIInv /\ RunSession => LifeIInv' /\ EndStands
  <1> SUFFICES ASSUME LifeIInv, RunSession PROVE LifeIInv' /\ EndStands
    OBVIOUS
  <1>1. SessionRow /\ DOMAIN req = Handlers
    BY DEF LifeIInv
  <1>2. /\ UNCHANGED <<state, liveStop, conf, req>>
        /\ thread # "new" /\ thread # "ended" /\ thread' # "new"
        /\ \/ live' = live /\ outran' = outran
           \/ /\ live' \in {"starting", "failed", "needs_user_action", "running"}
              /\ outran' = (outran \/ liveStop)
        /\ live' = "failed" => live = "failed" \/ thread' = "ended"
        /\ \/ page' = page /\ (thread = "acting" => thread' = thread \/ liveStop)
           \/ page' = "open" /\ thread' = "acting" /\ outran' = (outran \/ liveStop)
           \/ page' = "closed"
    BY <1>1 DEF RunSession, ThreadStarts, ThreadStops, Launched, LaunchFails, Navigated,
          NavigationFails, Becomes, rowVars, logVars, sessionHistory, requestVars, SessionRow
  <1>3. live # "gone" /\ live # "failed" /\ state \in SessionStates \cup {"absent"}
    BY <1>1, <1>2 DEF SessionRow
  <1>4. \A g \in Handlers : Busy(g, "close") <=> Busy(g, "close")'
    BY <1>2 DEF Busy
  <1>5. outran' \in BOOLEAN /\ (outran => outran')
    BY <1>1, <1>2 DEF SessionRow
  <1>6. live' \in SessionStates /\ live' # "gone"
    BY <1>1, <1>2, <1>3 DEF SessionRow, SessionStates, Stoppable, Actionable, Terminal
  <1>7. live \in Terminal => live' = live \/ outran'
    BY <1>1, <1>2, <1>3 DEF SessionRow, Terminal
  <1>8. outran' \/ (state \in Terminal => live' \in {state, "gone"})
    BY <1>1, <1>2, <1>3, <1>5, <1>7 DEF SessionRow
  <1>9. page' = "open" => \/ outran'
                          \/ thread' = "acting" /\ ~liveStop
                          \/ \E g \in Handlers : Busy(g, "close")'
    BY <1>1, <1>2, <1>4, <1>5 DEF SessionRow
  <1>10. live' \in {"stopping", "stopped"} => liveStop
    BY <1>1, <1>2 DEF SessionRow
  <1>11. live' = "failed" => thread' = "ended"
    BY <1>2, <1>3
  <1>12. SessionRow'
    BY <1>1, <1>2, <1>3, <1>5, <1>6, <1>8, <1>9, <1>10, <1>11 DEF SessionRow
  <1>13. Undisturbed({})
    BY <1>1, <1>2, <1>3, <1>5, <1>6, <1>7 DEF Undisturbed
  <1>14. EndStands
    BY <1>2, <1>8 DEF EndStands
  <1> QED BY <1>12, <1>13, <1>14, OthersInformed

\* After a restart nobody is asked and nothing runs.
LEMMA RestartLives == LifeIInv /\ Restart => LifeIInv' /\ EndStands
  <1> SUFFICES ASSUME LifeIInv, Restart PROVE LifeIInv' /\ EndStands
    OBVIOUS
  <1>1. /\ live' = "gone" /\ liveStop' = FALSE /\ page' = "none" /\ thread' = "ended"
        /\ DOMAIN req' = Handlers /\ \A h \in Handlers : req'[h].op = "idle"
        /\ UNCHANGED <<state, outran, conf>> /\ SessionRow
    BY DEF Restart, Idle, rowVars, logVars, sessionHistory, LifeIInv
  <1>2. SessionRow'
    BY <1>1 DEF SessionRow
  <1>3. OneHolder' /\ \A h \in Handlers : Informed(h)'
    BY <1>1 DEF OneHolder, Holding, Informed, SessionOps, SyncedOps
  <1>4. EndStands
    BY <1>1 DEF EndStands
  <1> QED BY <1>1, <1>2, <1>3, <1>4 DEF LifeIInv

\* Every step keeps the invariant, and an end.
LEMMA LifeSteps == LifeIInv /\ [SessionNext]_sessionVars => LifeIInv' /\ EndStands
  <1> SUFFICES ASSUME LifeIInv, [SessionNext]_sessionVars PROVE LifeIInv' /\ EndStands
    OBVIOUS
  <1>1. ASSUME UNCHANGED <<state, live, liveStop, page, thread, outran, conf, req>>
        PROVE  LifeIInv' /\ EndStands
    <2>1. SessionRow'
      BY <1>1 DEF LifeIInv, SessionRow, Busy
    <2>2. OneHolder' /\ \A h \in Handlers : Informed(h)'
      BY <1>1 DEF LifeIInv, OneHolder, Holding, Informed
    <2>3. EndStands
      BY <1>1 DEF LifeIInv, SessionRow, EndStands
    <2> QED BY <1>1, <2>1, <2>2, <2>3 DEF LifeIInv
  <1>2. CASE UNCHANGED sessionVars \/ \E c \in Confirmations : ConfirmationLapses(c)
    BY <1>1, <1>2 DEF sessionVars, rowVars, liveVars, logVars, sessionHistory, requestVars,
          ConfirmationLapses
  <1>3. ASSUME NEW h \in Handlers, CommitDecision(h) \/ EndAndOvertake(h) \/ End(h)
        PROVE  req' = [req EXCEPT ![h] = Idle]
    BY <1>3 DEF CommitDecision, EndAndOvertake, End
  <1>4. ASSUME NEW h \in Handlers, GetStatus(h) PROVE LifeIInv' /\ EndStands
    <2>1. CASE Busy(h, "status") /\ KeepView(h) /\ End(h) /\ UNCHANGED <<liveVars, logVars, sessionHistory>>
      BY <1>3, <2>1, KeepViewLives DEF Busy, SyncedOps, sessionHistory
    <2>2. "status" \in SyncedOps
      BY DEF SyncedOps
    <2> QED BY <1>4, <2>1, <2>2, SyncedInformed DEF GetStatus
  <1>5. ASSUME NEW h \in Handlers, ExecuteReadOnly(h) PROVE LifeIInv' /\ EndStands
    <2>1. CASE ActRead(h)
      BY <2>1, SyncedInformed DEF ActRead, SyncedOps
    <2>2. CASE ActRefused(h)
      BY <1>3, <2>2, KeepViewLives DEF ActRefused, Busy, SyncedOps
    <2>3. CASE ActRun(h)
      BY <1>3, <2>3, FollowLives, Executed DEF ActRun, Busy, SyncedOps
    <2>4. CASE ActLost(h)
      <3>1. /\ req[h].op = "act" /\ ExecuteAction /\ req' = [req EXCEPT ![h] = Idle]
            /\ UNCHANGED <<state, liveStop, page, thread, outran, conf>>
        BY <2>4 DEF ActLost, Busy, End, rowVars, logVars
      <3> QED BY <3>1, EndsLive, Executed
    <2> QED BY <1>5, <2>1, <2>2, <2>3, <2>4 DEF ExecuteReadOnly
  <1>6. ASSUME NEW h \in Handlers, RequestConfirmation(h) PROVE LifeIInv' /\ EndStands
    <2>1. CASE AskRead(h)
      BY <2>1, SyncedInformed DEF AskRead, SyncedOps
    <2>2. ASSUME NEW c \in Confirmations, AskWrite(h, c) PROVE LifeIInv' /\ EndStands
      BY <1>3, <2>2, KeepViewLives DEF AskWrite, Busy, SyncedOps
    <2> QED BY <1>6, <2>1, <2>2 DEF RequestConfirmation
  <1>7. ASSUME NEW h \in Handlers, DecideConfirmation(h) PROVE LifeIInv' /\ EndStands
    <2>1. ASSUME NEW c \in Confirmations, ConfirmRead(h, c) PROVE LifeIInv' /\ EndStands
      BY <2>1, SyncedInformed DEF ConfirmRead, SyncedOps
    <2>2. ASSUME NEW c \in Confirmations, CancelRead(h, c) PROVE LifeIInv' /\ EndStands
      <3> DEFINE r == [op |-> IF lapsed[c] THEN "expire" ELSE "cancel", conf |-> {c}, holds |-> FALSE]
      <3>1. /\ conf[c] = "pending" /\ Begin(h, r) /\ UNCHANGED <<rowVars, liveVars, conf, outran>>
        BY <2>2 DEF CancelRead, logVars, sessionHistory
      <3>2. r.op \in {"expire", "cancel"} /\ r.holds = FALSE
        OBVIOUS
      <3> HIDE DEF r
      <3>3. state # "absent"
        BY <3>1 DEF LifeIInv, SessionRow
      <3>4. r.op \in SessionOps \ {"open", "close", "stopped", "stop"}
        BY <3>2 DEF SessionOps, SyncedOps
      <3> QED BY <3>1, <3>2, <3>3, <3>4, BeginsInformed
    <2>3. CASE ExpireWrite(h)
      BY <1>3, <2>3, KeepViewLives DEF ExpireWrite, Busy, SyncedOps
    <2>4. CASE CancelWrite(h)
      <3>1. /\ req[h].op = "cancel" /\ req' = [req EXCEPT ![h] = Idle]
            /\ UNCHANGED <<state, live, liveStop, page, thread, outran>>
        BY <1>3, <2>4 DEF CancelWrite, Busy, rowVars, liveVars
      <3>2. state # "absent"
        BY <3>1, ThereIsARow DEF SessionOps
      <3> QED BY <3>1, <3>2, EndsLive
    <2>5. CASE ConfirmBlocked(h)
      BY <1>3, <2>5, KeepViewLives DEF ConfirmBlocked, Busy, SyncedOps
    <2>6. CASE ConfirmWrite(h)
      BY <1>3, <2>6, FollowLives DEF ConfirmWrite, Busy, SyncedOps, liveVars
    <2>7. CASE ConfirmLost(h)
      <3>1. /\ req[h].op = "confirm" /\ req' = [req EXCEPT ![h] = Idle]
            /\ UNCHANGED <<state, live, liveStop, page, thread, outran, conf>>
        BY <1>3, <2>7 DEF ConfirmLost, Busy, rowVars, liveVars, logVars
      <3> QED BY <3>1, EndsLive
    <2> QED BY <1>7, <2>1, <2>2, <2>3, <2>4, <2>5, <2>6, <2>7 DEF DecideConfirmation
  <1>8. ASSUME NEW h \in Handlers, req[h].op \notin {"close", "stopped"}, SessionRequestLost(h)
        PROVE  LifeIInv' /\ EndStands
    <2>1. /\ req' = [req EXCEPT ![h] = Idle]
          /\ UNCHANGED <<state, live, liveStop, page, thread, outran, conf>>
      BY <1>8 DEF SessionRequestLost, Lost, End, rowVars, liveVars, logVars, sessionHistory
    <2> QED BY <1>8, <2>1, EndsLive
  <1> QED BY <1>2, <1>4, <1>5, <1>6, <1>7, <1>8, OpenLives, StopLives, ThreadLives, RestartLives
         DEF SessionNext

-----------------------------------------------------------------------------
(* Its log and its confirmations. *)

ConfirmationStates == {"none", "pending", "executed", "blocked", "cancelled", "expired"}

BookShape ==
    /\ DOMAIN req = Handlers
    /\ stale \in [Handlers -> BOOLEAN]
    /\ conf \in [Confirmations -> ConfirmationStates]
    /\ lapsed \in [Confirmations -> BOOLEAN]
    /\ logged \in Nat
    /\ ran \in Nat
    /\ performed \in [Confirmations -> Nat]
    /\ unlogged \in BOOLEAN
    /\ surpassed \in BOOLEAN

\* What a request has read of them, until another one commits a decision.
Knows(h) ==
    /\ req[h].op = "act" => req[h].used = logged
    /\ req[h].op = "ask" =>
          \A c \in Confirmations : conf[c] = "pending" => c \in req[h].conf
    /\ req[h].op \in {"ask", "expire", "confirm", "cancel"} =>
          \A c \in Confirmations : c \in req[h].conf => conf[c] = "pending"

OneOpen ==
    \A c, d \in Confirmations :
        conf[c] = "pending" /\ conf[d] = "pending" /\ ~lapsed[c] /\ ~lapsed[d] => c = d

AtMostOnce ==
    \A c \in Confirmations : performed[c] <= IF conf[c] = "executed" THEN 1 ELSE 0

InBudget == ran <= MaxActions /\ ran <= logged

BookIInv ==
    /\ BookShape
    /\ \A h \in Handlers : ~stale[h] => Knows(h)
    /\ surpassed \/ OneOpen
    /\ surpassed \/ unlogged \/ (AtMostOnce /\ InBudget)

\* At the start nothing was asked for.
LEMMA BookInitially == SessionInit => BookIInv
  <1> SUFFICES ASSUME SessionInit PROVE BookIInv
    OBVIOUS
  <1>1. BookShape
    BY DEF SessionInit, NoRequests, BookShape, ConfirmationStates
  <1>2. \A h \in Handlers : Knows(h)
    BY DEF SessionInit, NoRequests, Knows, Idle
  <1>3. OneOpen /\ AtMostOnce
    BY DEF SessionInit, OneOpen, AtMostOnce
  <1>4. InBudget
    BY SessionAssumption DEF SessionInit, InBudget
  <1> QED BY <1>1, <1>2, <1>3, <1>4 DEF BookIInv

\* A step that decides nothing.
LEMMA BookRests ==
  ASSUME BookIInv, UNCHANGED <<conf, logged, surpassed>>,
         DOMAIN req' = Handlers, stale' \in [Handlers -> BOOLEAN],
         lapsed' \in [Confirmations -> BOOLEAN], \A c \in Confirmations : lapsed[c] => lapsed'[c],
         ran' \in Nat, performed' \in [Confirmations -> Nat],
         \/ unlogged' = TRUE
         \/ UNCHANGED <<ran, performed, unlogged>>,
         \A g \in Handlers : \/ req'[g] = req[g] /\ stale'[g] = stale[g]
                             \/ Knows(g)'
  PROVE  BookIInv'
  <1>1. BookShape'
    BY DEF BookIInv, BookShape
  <1>2. ASSUME NEW g \in Handlers, ~stale'[g] PROVE Knows(g)'
    BY <1>2 DEF BookIInv, Knows
  <1>3. surpassed' \/ OneOpen'
    BY DEF BookIInv, BookShape, OneOpen
  <1>4. surpassed' \/ unlogged' \/ (AtMostOnce' /\ InBudget')
    BY DEF BookIInv, AtMostOnce, InBudget
  <1> QED BY <1>1, <1>2, <1>3, <1>4 DEF BookIInv

\* A request that begins knows what it has read.
LEMMA BookBegins ==
  ASSUME BookIInv, NEW h \in Handlers, NEW r, Begin(h, r),
         UNCHANGED <<logVars, sessionHistory>>, req'[h] = r => Knows(h)'
  PROVE  BookIInv'
  <1>1. /\ req' = [req EXCEPT ![h] = r] /\ stale' = [stale EXCEPT ![h] = FALSE]
        /\ UNCHANGED <<conf, lapsed, logged, ran, performed, unlogged, surpassed>> /\ BookShape
    BY DEF Begin, logVars, sessionHistory, BookIInv
  <1>2. /\ DOMAIN req' = Handlers /\ req'[h] = r /\ stale' \in [Handlers -> BOOLEAN]
        /\ \A g \in Handlers : g # h => req'[g] = req[g] /\ stale'[g] = stale[g]
    BY <1>1 DEF BookShape
  <1>3. \A g \in Handlers : (req'[g] = req[g] /\ stale'[g] = stale[g]) \/ Knows(g)'
    BY <1>2
  <1>4. /\ ran' \in Nat /\ performed' \in [Confirmations -> Nat]
        /\ lapsed' \in [Confirmations -> BOOLEAN]
    BY <1>1 DEF BookShape
  <1> QED BY <1>1, <1>2, <1>3, <1>4, BookRests

\* A request that ends without a decision.
LEMMA BookEnds ==
  ASSUME BookIInv, NEW h \in Handlers, End(h), UNCHANGED <<conf, lapsed, logged, surpassed>>,
         ran' \in Nat, performed' \in [Confirmations -> Nat],
         \/ unlogged' = TRUE
         \/ UNCHANGED <<ran, performed, unlogged>>
  PROVE  BookIInv'
  <1>1. /\ req' = [req EXCEPT ![h] = Idle] /\ stale' = [stale EXCEPT ![h] = FALSE] /\ BookShape
    BY DEF End, BookIInv
  <1>2. /\ DOMAIN req' = Handlers /\ stale' \in [Handlers -> BOOLEAN]
        /\ \A g \in Handlers : g # h => req'[g] = req[g] /\ stale'[g] = stale[g]
        /\ req'[h].op = "idle"
    BY <1>1 DEF BookShape, Idle
  <1>3. Knows(h)'
    BY <1>2 DEF Knows
  <1>4. \A g \in Handlers : (req'[g] = req[g] /\ stale'[g] = stale[g]) \/ Knows(g)'
    BY <1>2, <1>3
  <1>5. lapsed' \in [Confirmations -> BOOLEAN]
    BY <1>1 DEF BookShape
  <1> QED BY <1>2, <1>4, <1>5, BookRests

\* A decision leaves the others behind, and is right if it was not.
LEMMA BookDecides ==
  ASSUME BookIInv, NEW h \in Handlers, CommitDecision(h), UNCHANGED <<lapsed, unlogged>>,
         conf' \in [Confirmations -> ConfirmationStates], logged' \in Nat, ran' \in Nat,
         performed' \in [Confirmations -> Nat],
         Knows(h) /\ OneOpen => OneOpen',
         Knows(h) /\ AtMostOnce /\ InBudget => AtMostOnce' /\ InBudget'
  PROVE  BookIInv'
  <1>1. /\ surpassed' = (surpassed \/ stale[h]) /\ req' = [req EXCEPT ![h] = Idle]
        /\ stale' = [x \in Handlers |-> x # h /\ req[x] # Idle] /\ BookShape
    BY DEF CommitDecision, EndAndOvertake, BookIInv
  <1>2. DOMAIN req' = Handlers /\ stale' \in [Handlers -> BOOLEAN] /\ surpassed' \in BOOLEAN
    BY <1>1 DEF BookShape
  <1>3. BookShape'
    BY <1>1, <1>2 DEF BookShape
  <1>4. ASSUME NEW g \in Handlers, ~stale'[g] PROVE Knows(g)'
    <2>1. g = h \/ req[g] = Idle
      BY <1>1, <1>4
    <2>2. req'[g] = Idle
      BY <1>1, <2>1 DEF BookShape
    <2> QED BY <2>2 DEF Knows, Idle
  <1>5. ASSUME ~surpassed' PROVE ~surpassed /\ Knows(h)
    BY <1>1, <1>5 DEF BookIInv
  <1>6. surpassed' \/ OneOpen'
    BY <1>5 DEF BookIInv
  <1>7. surpassed' \/ unlogged' \/ (AtMostOnce' /\ InBudget')
    BY <1>5 DEF BookIInv
  <1> QED BY <1>3, <1>4, <1>6, <1>7 DEF BookIInv

\* A decision that performs nothing.
LEMMA BookSettles ==
  ASSUME BookIInv, NEW h \in Handlers, CommitDecision(h), UNCHANGED <<lapsed, ran, performed, unlogged>>,
         req[h].op \in {"expire", "cancel", "confirm"},
         NEW st \in {"expired", "cancelled", "blocked"}, Settle(h, st),
         logged' = logged \/ LogAction
  PROVE  BookIInv'
  <1>1. /\ conf' = [c \in Confirmations |-> IF c \in req[h].conf THEN st ELSE conf[c]]
        /\ logged' \in {logged, logged + 1} /\ BookShape
    BY DEF Settle, LogAction, BookIInv
  <1>2. /\ conf' \in [Confirmations -> ConfirmationStates] /\ logged' \in Nat
        /\ ran' \in Nat /\ performed' \in [Confirmations -> Nat]
    BY <1>1 DEF BookShape, ConfirmationStates
  <1>3. \A c \in Confirmations : conf'[c] = "pending" => conf[c] = "pending"
    BY <1>1
  <1>4. OneOpen => OneOpen'
    BY <1>3 DEF OneOpen
  <1>5. ASSUME Knows(h), AtMostOnce PROVE AtMostOnce'
    <2>1. \A c \in Confirmations : c \in req[h].conf => conf[c] = "pending"
      BY <1>5 DEF Knows
    <2>2. \A c \in Confirmations : conf[c] = "executed" => conf'[c] = "executed"
      BY <1>1, <2>1
    <2> QED BY <1>1, <1>5, <2>2 DEF AtMostOnce, BookShape
  <1>6. InBudget => InBudget'
    BY <1>1 DEF InBudget, BookShape
  <1> QED BY <1>2, <1>4, <1>5, <1>6, BookDecides

\* A read-only action is run within the budget and logged.
LEMMA BookActs ==
  ASSUME BookIInv, NEW h \in Handlers, ActRefused(h) \/ ActRun(h)
  PROVE  BookIInv'
  <1>1. /\ req[h].op = "act" /\ CommitDecision(h) /\ logged' = logged + 1 /\ BookShape
        /\ UNCHANGED <<conf, lapsed, performed, unlogged>>
    BY DEF ActRefused, ActRun, Busy, LogAction, BookIInv
  <1>2. ran' = ran \/ (ran' = ran + 1 /\ req[h].used < MaxActions)
    BY DEF ActRefused, ActRun, ExecuteAction, WithinPolicy
  <1>3. /\ conf' \in [Confirmations -> ConfirmationStates] /\ logged' \in Nat
        /\ performed' \in [Confirmations -> Nat] /\ ran' \in Nat
    BY <1>1, <1>2 DEF BookShape
  <1>4. (OneOpen => OneOpen') /\ (AtMostOnce => AtMostOnce')
    BY <1>1 DEF OneOpen, AtMostOnce
  <1>5. ASSUME Knows(h), InBudget PROVE InBudget'
    <2>1. req[h].used = logged
      BY <1>1, <1>5 DEF Knows
    <2> QED BY <1>1, <1>2, <1>5, <2>1, SessionAssumption DEF InBudget, BookShape
  <1> QED BY <1>1, <1>3, <1>4, <1>5, BookDecides

\* A confirmation is asked for when none is open.
LEMMA BookAsks ==
  ASSUME BookIInv, NEW h \in Handlers, NEW c \in Confirmations, AskWrite(h, c)
  PROVE  BookIInv'
  <1>1. /\ req[h].op = "ask" /\ CommitDecision(h) /\ logged' = logged + 1 /\ BookShape
        /\ conf[c] = "none"
        /\ conf' = [x \in Confirmations |-> IF x = c THEN "pending"
                                            ELSE IF x \in req[h].conf THEN "expired"
                                            ELSE conf[x]]
        /\ UNCHANGED <<lapsed, ran, performed, unlogged>>
    BY DEF AskWrite, Busy, LogAction, BookIInv
  <1>2. /\ conf' \in [Confirmations -> ConfirmationStates] /\ logged' \in Nat
        /\ performed' \in [Confirmations -> Nat] /\ ran' \in Nat
    BY <1>1 DEF BookShape, ConfirmationStates
  <1>3. ASSUME Knows(h) PROVE OneOpen'
    <2>1. \A x \in Confirmations : conf[x] = "pending" => x \in req[h].conf
      BY <1>1, <1>3 DEF Knows
    <2>2. \A x \in Confirmations : conf'[x] = "pending" => x = c
      BY <1>1, <2>1
    <2> QED BY <2>2 DEF OneOpen
  <1>4. ASSUME Knows(h), AtMostOnce PROVE AtMostOnce'
    <2>1. \A x \in Confirmations : x \in req[h].conf => conf[x] = "pending"
      BY <1>1, <1>4 DEF Knows
    <2>2. \A x \in Confirmations : conf[x] = "executed" => conf'[x] = "executed"
      BY <1>1, <2>1
    <2> QED BY <1>1, <1>4, <2>2 DEF AtMostOnce, BookShape
  <1>5. InBudget => InBudget'
    BY <1>1 DEF InBudget, BookShape
  <1> QED BY <1>1, <1>2, <1>3, <1>4, <1>5, BookDecides

\* A confirmed action is performed and executed in one.
LEMMA BookConfirms ==
  ASSUME BookIInv, NEW h \in Handlers, ConfirmWrite(h)
  PROVE  BookIInv'
  <1>1. /\ req[h].op = "confirm" /\ CommitDecision(h) /\ logged' = logged + 1 /\ BookShape
        /\ conf' = [x \in Confirmations |-> IF x \in req[h].conf THEN "executed" ELSE conf[x]]
        /\ performed' = [x \in Confirmations |-> performed[x] +
                            IF x \in req[h].conf /\ live \in Actionable THEN 1 ELSE 0]
        /\ UNCHANGED <<lapsed, ran, unlogged>>
    BY DEF ConfirmWrite, Busy, LogAction, Settle, Perform, BookIInv
  <1>2. /\ conf' \in [Confirmations -> ConfirmationStates] /\ logged' \in Nat
        /\ performed' \in [Confirmations -> Nat] /\ ran' \in Nat
    BY <1>1 DEF BookShape, ConfirmationStates
  <1>3. OneOpen => OneOpen'
    <2>1. \A x \in Confirmations : conf'[x] = "pending" => conf[x] = "pending"
      BY <1>1
    <2> QED BY <1>1, <2>1 DEF OneOpen
  <1>4. ASSUME Knows(h), AtMostOnce PROVE AtMostOnce'
    <2>1. ASSUME NEW x \in Confirmations
          PROVE  performed'[x] <= IF conf'[x] = "executed" THEN 1 ELSE 0
      <3>1. performed[x] \in Nat /\ performed[x] <= IF conf[x] = "executed" THEN 1 ELSE 0
        BY <1>1, <1>4 DEF AtMostOnce, BookShape
      <3>2. CASE x \in req[h].conf
        <4>1. conf[x] = "pending"
          BY <1>1, <1>4, <3>2 DEF Knows
        <4> QED BY <1>1, <3>1, <3>2, <4>1
      <3>3. CASE x \notin req[h].conf
        <4>1. performed'[x] = performed[x] + 0 /\ conf'[x] = conf[x]
          BY <1>1, <3>3
        <4> QED BY <3>1, <4>1
      <3> QED BY <3>2, <3>3
    <2> QED BY <2>1 DEF AtMostOnce
  <1>5. InBudget => InBudget'
    BY <1>1 DEF InBudget, BookShape
  <1> QED BY <1>1, <1>2, <1>3, <1>4, <1>5, BookDecides

\* Every step keeps the books.
LEMMA BookSteps == BookIInv /\ [SessionNext]_sessionVars => BookIInv'
  <1> SUFFICES ASSUME BookIInv, [SessionNext]_sessionVars PROVE BookIInv'
    OBVIOUS
  <1>1. BookShape
    BY DEF BookIInv
  <1>2. ASSUME UNCHANGED <<conf, logged, ran, performed, unlogged, surpassed>>,
               DOMAIN req' = Handlers, stale' \in [Handlers -> BOOLEAN],
               lapsed' \in [Confirmations -> BOOLEAN],
               \A c \in Confirmations : lapsed[c] => lapsed'[c],
               \A g \in Handlers : \/ req'[g] = req[g] /\ stale'[g] = stale[g]
                                   \/ req'[g].op \in {"idle", "close", "stopped"}
        PROVE  BookIInv'
    <2>1. \A g \in Handlers : (req'[g] = req[g] /\ stale'[g] = stale[g]) \/ Knows(g)'
      BY <1>2 DEF Knows
    <2>2. ran' \in Nat /\ performed' \in [Confirmations -> Nat]
      BY <1>1, <1>2 DEF BookShape
    <2> QED BY <1>2, <2>1, <2>2, BookRests
  <1>3. ASSUME NEW h \in Handlers, End(h), UNCHANGED <<logVars, sessionHistory>> PROVE BookIInv'
    <2>1. /\ UNCHANGED <<conf, lapsed, logged, ran, performed, unlogged, surpassed>>
          /\ ran' \in Nat /\ performed' \in [Confirmations -> Nat]
      BY <1>1, <1>3 DEF logVars, sessionHistory, BookShape
    <2> QED BY <1>3, <2>1, BookEnds
  <1>4. CASE UNCHANGED sessionVars \/ RunSession
    <2>1. /\ UNCHANGED <<conf, logged, ran, performed, unlogged, surpassed, lapsed>>
          /\ req' = req /\ stale' = stale
      BY <1>4 DEF sessionVars, logVars, sessionHistory, requestVars, RunSession, ThreadStarts,
            ThreadStops, Launched, LaunchFails, Navigated, NavigationFails, Becomes
    <2> QED BY <1>1, <1>2, <2>1 DEF BookShape
  <1>5. CASE Restart
    <2>1. /\ UNCHANGED <<conf, logged, ran, performed, unlogged, surpassed, lapsed>>
          /\ DOMAIN req' = Handlers /\ stale' \in [Handlers -> BOOLEAN]
          /\ \A g \in Handlers : req'[g].op = "idle"
      BY <1>5 DEF Restart, logVars, sessionHistory, Idle
    <2> QED BY <1>1, <1>2, <2>1 DEF BookShape
  <1>6. ASSUME NEW c \in Confirmations, ConfirmationLapses(c) PROVE BookIInv'
    <2>1. /\ UNCHANGED <<conf, logged, ran, performed, unlogged, surpassed>>
          /\ req' = req /\ stale' = stale /\ lapsed' = [lapsed EXCEPT ![c] = TRUE]
      BY <1>6 DEF ConfirmationLapses, sessionHistory, requestVars
    <2>2. /\ lapsed' \in [Confirmations -> BOOLEAN]
          /\ \A x \in Confirmations : lapsed[x] => lapsed'[x]
      BY <1>1, <2>1 DEF BookShape
    <2> QED BY <1>1, <1>2, <2>1, <2>2 DEF BookShape
  <1>7. ASSUME NEW h \in Handlers, NEW what, NEW c, BeginSynced(h, what, c),
               UNCHANGED <<rowVars, liveVars, logVars, sessionHistory>>,
               what \in {"status", "act"} \/ (what = "ask" /\ c = Pending) \/
               (what \in {"expire", "confirm"} /\ \A x \in c : conf[x] = "pending")
        PROVE  BookIInv'
    <2> DEFINE r == [op |-> what, conf |-> c, loaded |-> state, loadedStop |-> stopAsked,
                     view |-> Seen, used |-> logged, holds |-> Outdated]
    <2>1. Begin(h, r) /\ UNCHANGED <<logVars, sessionHistory>> /\ conf' = conf /\ logged' = logged
      BY <1>7 DEF BeginSynced, logVars
    <2>2. r.op = what /\ r.conf = c /\ r.used = logged
      OBVIOUS
    <2> HIDE DEF r
    <2>3. req'[h] = r => Knows(h)'
      BY <1>7, <2>1, <2>2 DEF Knows, Pending
    <2> QED BY <2>1, <2>3, BookBegins
  <1>8. ASSUME NEW h \in Handlers, OpenSession(h) PROVE BookIInv'
    <2>1. CASE CreateRead(h)
      <3> DEFINE r == [op |-> "open", holds |-> TRUE]
      <3>1. Begin(h, r) /\ UNCHANGED <<logVars, sessionHistory>>
        BY <2>1 DEF CreateRead
      <3>2. r.op = "open"
        OBVIOUS
      <3> HIDE DEF r
      <3>3. req'[h] = r => Knows(h)'
        BY <3>2 DEF Knows
      <3> QED BY <3>1, <3>3, BookBegins
    <2> QED BY <1>3, <1>8, <2>1 DEF OpenSession, CreateCommit
  <1>9. ASSUME NEW h \in Handlers, GetStatus(h) PROVE BookIInv'
    BY <1>3, <1>7, <1>9 DEF GetStatus
  <1>10. ASSUME NEW h \in Handlers, StopSession(h) PROVE BookIInv'
    <2>1. CASE StopRead(h)
      <3> DEFINE r == [op |-> "stop", holds |-> FALSE]
      <3>1. Begin(h, r) /\ UNCHANGED <<logVars, sessionHistory>>
        BY <2>1 DEF StopRead
      <3>2. r.op = "stop"
        OBVIOUS
      <3> HIDE DEF r
      <3>3. req'[h] = r => Knows(h)'
        BY <3>2 DEF Knows
      <3> QED BY <3>1, <3>3, BookBegins
    <2>2. CASE StopMark(h) \/ StopClose(h)
      <3>1. /\ UNCHANGED <<conf, logged, ran, performed, unlogged, surpassed, lapsed, stale>>
            /\ \/ req' = [req EXCEPT ![h] = [op |-> "close", holds |-> TRUE]]
               \/ req' = [req EXCEPT ![h].op = "stopped"] /\ req[h].op = "close"
        BY <2>2 DEF StopMark, StopClose, Busy, logVars, sessionHistory
      <3>2. /\ DOMAIN req' = Handlers
            /\ \A g \in Handlers \ {h} : req'[g] = req[g]
        BY <1>1, <3>1 DEF BookShape
      <3>3. Knows(h)'
        <4>1. CASE req' = [req EXCEPT ![h] = [op |-> "close", holds |-> TRUE]]
          <5>1. req'[h].op = "close"
            BY <1>1, <4>1 DEF BookShape
          <5> QED BY <5>1 DEF Knows
        <4>2. CASE req' = [req EXCEPT ![h].op = "stopped"] /\ req[h].op = "close"
          <5>1. req'[h].op \in {"stopped", "close"}
            <6>1. req'[h] = [req[h] EXCEPT !.op = "stopped"]
              BY <1>1, <4>2 DEF BookShape
            <6> QED BY <4>2, <6>1
          <5> QED BY <5>1 DEF Knows
        <4> QED BY <3>1, <4>1, <4>2
      <3>4. \A g \in Handlers : (req'[g] = req[g] /\ stale'[g] = stale[g]) \/ Knows(g)'
        BY <3>1, <3>2, <3>3
      <3>5. /\ stale' \in [Handlers -> BOOLEAN] /\ ran' \in Nat
            /\ performed' \in [Confirmations -> Nat] /\ lapsed' \in [Confirmations -> BOOLEAN]
        BY <1>1, <3>1 DEF BookShape
      <3> QED BY <3>1, <3>2, <3>4, <3>5, BookRests
    <2>3. CASE StopUnknown(h) \/ StopEnded(h) \/ StopDone(h)
      BY <1>3, <2>3 DEF StopUnknown, StopEnded, StopDone
    <2> QED BY <1>10, <2>1, <2>2, <2>3 DEF StopSession
  <1>11. ASSUME NEW h \in Handlers, ExecuteReadOnly(h) PROVE BookIInv'
    <2>1. CASE ActRead(h)
      BY <1>7, <2>1 DEF ActRead
    <2>2. CASE ActLost(h)
      <3>1. /\ End(h) /\ unlogged' = TRUE /\ UNCHANGED <<conf, lapsed, logged, surpassed, performed>>
            /\ ran' \in {ran, ran + 1}
        BY <2>2 DEF ActLost, ExecuteAction, logVars
      <3>2. ran' \in Nat /\ performed' \in [Confirmations -> Nat]
        BY <1>1, <3>1 DEF BookShape
      <3> QED BY <3>1, <3>2, BookEnds
    <2> QED BY <1>11, <2>1, <2>2, BookActs DEF ExecuteReadOnly
  <1>12. ASSUME NEW h \in Handlers, RequestConfirmation(h) PROVE BookIInv'
    BY <1>7, <1>12, BookAsks DEF RequestConfirmation, AskRead
  <1>13. ASSUME NEW h \in Handlers, DecideConfirmation(h) PROVE BookIInv'
    <2>1. ASSUME NEW c \in Confirmations, ConfirmRead(h, c) PROVE BookIInv'
      <3>1. /\ conf[c] = "pending" /\ UNCHANGED <<rowVars, liveVars, logVars, sessionHistory>>
            /\ BeginSynced(h, "expire", {c}) \/ BeginSynced(h, "confirm", {c})
        BY <2>1 DEF ConfirmRead
      <3> QED BY <1>7, <3>1
    <2>2. ASSUME NEW c \in Confirmations, CancelRead(h, c) PROVE BookIInv'
      <3> DEFINE r == [op |-> IF lapsed[c] THEN "expire" ELSE "cancel", conf |-> {c}, holds |-> FALSE]
      <3>1. /\ conf[c] = "pending" /\ Begin(h, r) /\ UNCHANGED <<logVars, sessionHistory>>
            /\ conf' = conf
        BY <2>2 DEF CancelRead, logVars
      <3>2. r.op \in {"expire", "cancel"} /\ r.conf = {c}
        OBVIOUS
      <3> HIDE DEF r
      <3>3. req'[h] = r => Knows(h)'
        BY <3>1, <3>2 DEF Knows
      <3> QED BY <3>1, <3>3, BookBegins
    <2>3. CASE ExpireWrite(h)
      BY <2>3, BookSettles DEF ExpireWrite, Busy
    <2>4. CASE CancelWrite(h)
      BY <2>4, BookSettles DEF CancelWrite, Busy
    <2>5. CASE ConfirmBlocked(h)
      BY <2>5, BookSettles DEF ConfirmBlocked, Busy
    <2>6. CASE ConfirmLost(h)
      <3>1. /\ End(h) /\ unlogged' = TRUE /\ UNCHANGED <<conf, lapsed, logged, surpassed, ran>>
            /\ performed' = [c \in Confirmations |-> performed[c] +
                                IF c \in req[h].conf /\ live \in Actionable THEN 1 ELSE 0]
        BY <2>6 DEF ConfirmLost, Perform, logVars
      <3>2. ran' \in Nat /\ performed' \in [Confirmations -> Nat]
        BY <1>1, <3>1 DEF BookShape
      <3> QED BY <3>1, <3>2, BookEnds
    <2> QED BY <1>13, <2>1, <2>2, <2>3, <2>4, <2>5, <2>6, BookConfirms DEF DecideConfirmation
  <1>14. ASSUME NEW h \in Handlers, SessionRequestLost(h) PROVE BookIInv'
    BY <1>3, <1>14 DEF SessionRequestLost, Lost
  <1> QED BY <1>4, <1>5, <1>6, <1>8, <1>9, <1>10, <1>11, <1>12, <1>13, <1>14 DEF SessionNext

\* What the invariants say of a session.
LEMMA SessionHolds ==
  LifeIInv /\ BookIInv => BrowserIsReleased /\ PerformedOnce /\ OnePending /\ ActionsAreBudgeted
  <1> SUFFICES ASSUME LifeIInv, BookIInv
               PROVE  BrowserIsReleased /\ PerformedOnce /\ OnePending /\ ActionsAreBudgeted
    OBVIOUS
  <1>1. BrowserIsReleased
    BY DEF LifeIInv, SessionRow, BrowserIsReleased
  <1>2. PerformedOnce /\ ActionsAreBudgeted
    BY DEF BookIInv, AtMostOnce, InBudget, PerformedOnce, ActionsAreBudgeted
  <1>3. ASSUME ~surpassed PROVE Cardinality({c \in Pending : ~lapsed[c]}) <= 1
    <2> DEFINE S == {c \in Pending : ~lapsed[c]}
    <2>1. \A c, d \in S : c = d
      BY <1>3 DEF BookIInv, OneOpen, Pending
    <2>2. CASE S = {}
      BY <2>2, FS_EmptySet
    <2>3. ASSUME NEW c \in S PROVE Cardinality(S) <= 1
      <3>1. S = {c}
        BY <2>1, <2>3
      <3> QED BY <3>1, FS_Singleton
    <2> QED BY <2>2, <2>3
  <1> QED BY <1>1, <1>2, <1>3 DEF OnePending

\* A session does what it was allowed to, once, and ends for good, however requests and
\* the thread meet, unless they meet as the properties say (BrowserSessionService).
THEOREM SessionsStaySupervised == SessionSpec => SessionsAreSupervised
  <1>1. SessionSpec => [](LifeIInv /\ BookIInv)
    BY LifeInitially, LifeSteps, BookInitially, BookSteps, PTL DEF SessionSpec
  <1>2. LifeIInv /\ [SessionNext]_sessionVars =>
           [(state \in Terminal) => \/ outran'
                                    \/ state' = state /\ live' \in {state, "gone"}]_sessionVars
    BY LifeSteps DEF EndStands
  <1>3. SessionSpec => EndedIsEnded
    BY <1>1, <1>2, PTL DEF SessionSpec, EndedIsEnded
  <1> QED BY <1>1, <1>3, SessionHolds, PTL DEF SessionsAreSupervised

-----------------------------------------------------------------------------
(* What was captured of a session. *)

\* What a capture has written of what it is to commit.
Written(h) ==
    req[h].op = "capture" =>
        /\ req[h].wanted \subseteq Artifacts
        /\ \A a \in req[h].wanted \ req[h].left : onDisk[a]

CaptureIInv ==
    /\ DOMAIN req = Handlers
    /\ artifact \in [Artifacts -> {"none", "active", "expired"}]
    /\ onDisk \in [Artifacts -> BOOLEAN]
    /\ \A h \in Handlers : Written(h)
    /\ together \subseteq SUBSET Artifacts
    /\ RowsHaveFiles
    /\ CapturesAreWhole

\* At the start nothing is captured.
LEMMA CaptureInitially == ArtifactInit => CaptureIInv
  BY DEF ArtifactInit, NoRequests, Idle, CaptureIInv, Written, RowsHaveFiles, CapturesAreWhole

\* A step that takes neither rows nor files.
LEMMA CaptureRests ==
  ASSUME CaptureIInv, DOMAIN req' = Handlers, together' = together,
         artifact' \in [Artifacts -> {"none", "active", "expired"}],
         \A a \in Artifacts : artifact'[a] = "none" <=> artifact[a] = "none",
         onDisk' \in [Artifacts -> BOOLEAN], \A a \in Artifacts : onDisk[a] => onDisk'[a],
         \A g \in Handlers : req'[g] = req[g] \/ Written(g)'
  PROVE  CaptureIInv'
  <1>1. ASSUME NEW g \in Handlers PROVE Written(g)'
    BY DEF CaptureIInv, Written
  <1>2. RowsHaveFiles' /\ CapturesAreWhole'
    BY DEF CaptureIInv, RowsHaveFiles, CapturesAreWhole
  <1> QED BY <1>1, <1>2 DEF CaptureIInv

\* A capture that begins has written nothing.
LEMMA CaptureBegins ==
  ASSUME CaptureIInv, NEW h \in Handlers, NEW w, NEW on, BeginCapture(h, w, on)
  PROVE  CaptureIInv'
  <1> DEFINE r == [op |-> "capture", holds |-> TRUE, wanted |-> w, left |-> w, debug |-> on]
  <1>1. /\ req' = [req EXCEPT ![h] = r] /\ w \subseteq Artifacts
        /\ UNCHANGED <<artifact, onDisk, together>>
    BY DEF BeginCapture, Begin, Unused
  <1>2. r.wanted = w /\ r.left = w
    OBVIOUS
  <1> HIDE DEF r
  <1>3. DOMAIN req' = Handlers /\ req'[h] = r /\ \A g \in Handlers : g # h => req'[g] = req[g]
    BY <1>1 DEF CaptureIInv
  <1>4. Written(h)'
    BY <1>1, <1>2, <1>3 DEF Written
  <1> QED BY <1>1, <1>3, <1>4, CaptureRests DEF CaptureIInv

\* Every step keeps the invariant.
LEMMA CaptureSteps == CaptureIInv /\ [ArtifactNext]_artifactVars => CaptureIInv'
  <1> SUFFICES ASSUME CaptureIInv, [ArtifactNext]_artifactVars PROVE CaptureIInv'
    OBVIOUS
  <1> USE DEF CaptureIInv
  <1>1. ASSUME UNCHANGED <<artifact, onDisk, together, req>> PROVE CaptureIInv'
    BY <1>1, CaptureRests
  <1>2. CASE UNCHANGED artifactVars \/ (\E a \in Artifacts : ArtifactElapses(a))
             \/ \E h \in Handlers : DisableDebug(h)
    BY <1>1, <1>2 DEF artifactVars, requestVars, ArtifactElapses, DisableDebug
  <1>3. ASSUME NEW h \in Handlers, CaptureScreenshot(h) \/ EnableDebug(h) PROVE CaptureIInv'
    BY <1>3, CaptureBegins DEF CaptureScreenshot, EnableDebug
  <1>4. ASSUME NEW h \in Handlers, NEW a \in Artifacts, PersistArtifact(h, a) PROVE CaptureIInv'
    <2>1. /\ req[h].op = "capture" /\ onDisk' = [onDisk EXCEPT ![a] = TRUE]
          /\ req' = [req EXCEPT ![h].left = @ \ {a}] /\ UNCHANGED <<artifact, together>>
      BY <1>4 DEF PersistArtifact, Busy
    <2>2. DOMAIN req' = Handlers /\ \A g \in Handlers : g # h => req'[g] = req[g]
      BY <2>1
    <2>3. onDisk' \in [Artifacts -> BOOLEAN] /\ \A x \in Artifacts : onDisk[x] => onDisk'[x]
      BY <2>1
    <2>4. req'[h] = [req[h] EXCEPT !.left = req[h].left \ {a}]
      BY <2>1
    <2>5. req'[h].wanted = req[h].wanted
      BY <2>4
    <2>6. req'[h].left = req[h].left \ {a} \/ req'[h].left = req[h].left
      BY <2>4
    <2> QED BY <2>1, <2>2, <2>3, <2>5, <2>6, CaptureRests DEF Written
  <1>5. ASSUME NEW h \in Handlers, CaptureCommit(h) PROVE CaptureIInv'
    <2> DEFINE w == req[h].wanted
    <2>1. /\ req[h].op = "capture" /\ req[h].left = {}
          /\ artifact' = [a \in Artifacts |-> IF a \in w THEN "active" ELSE artifact[a]]
          /\ together' = together \cup {w} /\ req' = [req EXCEPT ![h] = Idle]
          /\ onDisk' = onDisk
      BY <1>5 DEF CaptureCommit, Busy, End
    <2>2. w \subseteq Artifacts /\ \A a \in w : onDisk[a]
      BY <2>1 DEF Written
    <2> HIDE DEF w
    <2>3. RowsHaveFiles' /\ artifact' \in [Artifacts -> {"none", "active", "expired"}]
      BY <2>1, <2>2 DEF RowsHaveFiles
    <2>4. \A a \in Artifacts : artifact'[a] = "none" => artifact[a] = "none" /\ a \notin w
      BY <2>1
    <2>5. CapturesAreWhole'
      BY <2>1, <2>2, <2>4 DEF CapturesAreWhole
    <2>6. DOMAIN req' = Handlers /\ \A g \in Handlers : Written(g)'
      BY <2>1 DEF Written, Idle
    <2> QED BY <2>1, <2>2, <2>3, <2>5, <2>6
  <1>6. ASSUME NEW h \in Handlers, ListArtifacts(h) PROVE CaptureIInv'
    <2>1. /\ artifact' = [a \in Artifacts |-> EffectiveStatus(a)]
          /\ UNCHANGED <<onDisk, together, req>>
      BY <1>6 DEF ListArtifacts, requestVars
    <2>2. /\ artifact' \in [Artifacts -> {"none", "active", "expired"}]
          /\ \A a \in Artifacts : artifact'[a] = "none" <=> artifact[a] = "none"
      BY <2>1 DEF EffectiveStatus
    <2> QED BY <2>1, <2>2, CaptureRests
  <1>7. ASSUME NEW h \in Handlers, CaptureLost(h) PROVE CaptureIInv'
    <2>1. req' = [req EXCEPT ![h] = Idle] /\ UNCHANGED <<artifact, onDisk, together>>
      BY <1>7 DEF CaptureLost, Lost, End
    <2>2. DOMAIN req' = Handlers /\ \A g \in Handlers : req'[g] = req[g] \/ Written(g)'
      BY <2>1 DEF Written, Idle
    <2> QED BY <2>1, <2>2, CaptureRests
  <1> QED BY <1>2, <1>3, <1>4, <1>5, <1>6, <1>7 DEF ArtifactNext

\* Every row has its file and the captures of a request are there together, whatever is
\* lost between the files and the commit (BrowserDebugArtifactService).
THEOREM CapturesStayWhole == ArtifactSpec => [](RowsHaveFiles /\ CapturesAreWhole)
  BY CaptureInitially, CaptureSteps, PTL DEF ArtifactSpec, CaptureIInv

-----------------------------------------------------------------------------
(* A session and its captures, in the composed specification. *)

\* Of a component that does not run there is nothing.
SupervisedIInv ==
    /\ part = "session" => LifeIInv /\ BookIInv
    /\ part # "session" => /\ state = "absent" /\ page = "none" /\ ran = 0 /\ logged = 0
                           /\ \A c \in Confirmations : conf[c] = "none" /\ performed[c] = 0
    /\ part = "artifacts" => CaptureIInv
    /\ part # "artifacts" => together = {} /\ \A a \in Artifacts : artifact[a] = "none"

\* Each starts as it would alone.
LEMMA SupervisedInitially == ReviewInit => SupervisedIInv
  BY LifeInitially, BookInitially, CaptureInitially
     DEF ReviewInit, SupervisedIInv, SessionInit, ArtifactInit

\* Each component's steps leave the other's rows alone.
LEMMA SupervisedSteps ==
  ASSUME SupervisedIInv, [ReviewNext]_reviewVars
  PROVE  SupervisedIInv' /\ EndStands
  <1>1. CASE UNCHANGED reviewVars
    <2>1. UNCHANGED <<part, sessionVars, artifactVars>>
      BY <1>1 DEF reviewVars
    <2>2. UNCHANGED <<part, state, page, ran, logged, conf, performed, together, artifact>>
      BY <2>1 DEF sessionVars, rowVars, liveVars, logVars, sessionHistory, artifactVars
    <2>3. CASE part = "session"
      BY <2>1, <2>2, <2>3, LifeSteps, BookSteps DEF SupervisedIInv
    <2>4. CASE part # "session"
      BY <2>1, <2>2, <2>4, CaptureSteps DEF SupervisedIInv, EndStands, Terminal
    <2> QED BY <2>3, <2>4
  <1>2. CASE part = "session" /\ SessionNext /\ Alone("session")
    <2>1. UNCHANGED <<part, together, artifact>>
      BY <1>2 DEF Alone
    <2> QED BY <1>2, <2>1, LifeSteps, BookSteps DEF SupervisedIInv
  <1>3. CASE part = "artifacts" /\ ArtifactNext /\ Alone("artifacts")
    <2>1. UNCHANGED <<part, state, page, ran, logged, conf, performed>>
      BY <1>3 DEF Alone, rowVars, liveVars, logVars, sessionHistory
    <2> QED BY <1>3, <2>1, CaptureSteps DEF SupervisedIInv, EndStands, Terminal
  <1>4. ASSUME NEW p \in Parts \ {"session", "artifacts"}, part = p, Alone(p)
        PROVE  SupervisedIInv' /\ EndStands
    <2>1. UNCHANGED <<part, state, page, ran, logged, conf, performed, together, artifact>>
      BY <1>4 DEF Alone, rowVars, liveVars, logVars, sessionHistory, Parts
    <2> QED BY <1>4, <2>1 DEF SupervisedIInv, EndStands, Terminal
  <1> QED BY <1>1, <1>2, <1>3, <1>4 DEF ReviewNext, Parts

\* A browser session is supervised, and what was captured of it is there
\* (BrowserSessionService, BrowserDebugArtifactService).
THEOREM BrowserStaysSupervised == ReviewSpec => BrowserIsSupervised
  <1>1. ReviewSpec => []SupervisedIInv
    BY SupervisedInitially, SupervisedSteps, PTL DEF ReviewSpec
  <1>2. SupervisedIInv => BrowserIsReleased /\ PerformedOnce /\ OnePending /\ ActionsAreBudgeted
    <2> SUFFICES ASSUME SupervisedIInv, part # "session"
                 PROVE  BrowserIsReleased /\ PerformedOnce /\ OnePending /\ ActionsAreBudgeted
      BY SessionHolds DEF SupervisedIInv
    <2>1. Pending = {}
      BY DEF SupervisedIInv, Pending
    <2>2. {c \in Pending : ~lapsed[c]} = {}
      BY <2>1
    <2>3. OnePending
      BY <2>2, FS_EmptySet DEF OnePending
    <2> QED BY <2>3, SessionAssumption
            DEF SupervisedIInv, BrowserIsReleased, PerformedOnce, ActionsAreBudgeted
  <1>3. SupervisedIInv => RowsHaveFiles /\ CapturesAreWhole
    BY DEF SupervisedIInv, CaptureIInv, RowsHaveFiles, CapturesAreWhole
  <1>4. SupervisedIInv /\ [ReviewNext]_reviewVars =>
           [(state \in Terminal) => \/ outran'
                                    \/ state' = state /\ live' \in {state, "gone"}]_sessionVars
    BY SupervisedSteps DEF EndStands
  <1>5. ReviewSpec => EndedIsEnded
    BY <1>1, <1>4, PTL DEF ReviewSpec, EndedIsEnded
  <1> QED BY <1>1, <1>2, <1>3, <1>5, PTL DEF BrowserIsSupervised, SessionsAreSupervised

-----------------------------------------------------------------------------
(* Every variable of what runs has its values. *)

\* A draft: the invariant above and the values of what is remembered of it, after a
\* request wrote over what it had not seen too.
ContentTInv ==
    /\ ContentIInv
    /\ decided \subseteq Texts
    /\ named \subseteq Nat \X Texts
    /\ handedOff \subseteq Texts

\* At the start there is no draft.
LEMMA ContentTypesInitially == ContentInit => ContentTInv
  BY ContentInitially DEF ContentInit, ContentTInv

\* Every step keeps the types.
LEMMA ContentTypeSteps == ContentTInv /\ [ContentNext]_contentVars => ContentTInv'
  <1> SUFFICES ASSUME ContentTInv, [ContentNext]_contentVars PROVE ContentTInv'
    OBVIOUS
  <1>1. ContentIInv' /\ ContentShape
    BY ContentSteps DEF ContentTInv, ContentIInv
  <1>2. ASSUME UNCHANGED <<decided, named, handedOff>> PROVE ContentTInv'
    BY <1>1, <1>2 DEF ContentTInv
  <1>3. CASE HandOff
    <2>1. revision \in Nat /\ text \in Texts
      BY <1>1 DEF ContentShape
    <2> QED BY <1>1, <1>3, <2>1 DEF HandOff, ContentTInv
  <1>4. ASSUME NEW h \in Handlers, req[h].op \in {"submit", "approve", "reject", "use"},
               named' = named \cup {<<req[h].revision, req[h].text>>}, handedOff' = handedOff,
               decided' = decided \/ decided' = decided \cup {req[h].text}
        PROVE  ContentTInv'
    <2>1. req[h].revision \in Nat /\ req[h].text \in Texts
      BY <1>1, <1>4, RequestFields
    <2> QED BY <1>1, <1>4, <2>1 DEF ContentTInv
  <1>5. CASE GenerateDraft \/ UNCHANGED contentVars
    BY <1>2, <1>5 DEF GenerateDraft, contentVars, contentHistory
  <1>6. ASSUME NEW h \in Handlers, PatchDraft(h) PROVE ContentTInv'
    BY <1>2, <1>6 DEF PatchDraft, EditRead, EditWrite, contentHistory
  <1>7. ASSUME NEW h \in Handlers, NEW op, NEW to, ReviewRead(h, op, to) PROVE ContentTInv'
    BY <1>2, <1>7 DEF ReviewRead, contentHistory
  <1>8. ASSUME NEW h \in Handlers, SubmitForReview(h) \/ ApproveDraft(h) \/ RejectDraft(h)
        PROVE  ContentTInv'
    BY <1>4, <1>7, <1>8 DEF SubmitForReview, ApproveDraft, RejectDraft, ReviewWrite, Busy
  <1>9. ASSUME NEW h \in Handlers, MarkUsed(h) PROVE ContentTInv'
    BY <1>2, <1>4, <1>9 DEF MarkUsed, MarkUsedRead, MarkUsedWrite, Busy, contentHistory
  <1>10. ASSUME NEW h \in Handlers, UNCHANGED <<draftVars, contentHistory, overwrote>>
         PROVE  ContentTInv'
    BY <1>2, <1>10 DEF contentHistory
  <1> QED BY <1>3, <1>5, <1>6, <1>8, <1>9, <1>10 DEF ContentNext

\* The types are those of the component.
LEMMA ContentTypes == ContentTInv => ContentTypeOK
  BY DEF ContentTInv, ContentIInv, ContentShape, ContentTypeOK, ContentRequest

\* Leads: the invariant above, the days and outcomes it leaves out, and that the reminders
\* there are have been updated one after another.
UpdatedInTurn ==
    /\ earlier \subseteq ReminderRows \X ReminderRows
    /\ \A p, r \in ReminderRows : <<p, r>> \in earlier <=> p # r /\ <<r, p>> \notin earlier
    /\ \A p, q, r \in ReminderRows :
          <<p, q>> \in earlier /\ <<q, r>> \in earlier => <<p, r>> \in earlier

Dated(h) ==
    /\ req[h].op \in {"create", "patch", "reschedule"} => req[h].date \in Days \cup {0}
    /\ req[h].op = "outcome" => req[h].outcome \in OutcomeTypes

LeadTInv ==
    /\ LeadIInv
    /\ renamed \subseteq LeadIds
    /\ UpdatedInTurn
    /\ followUp \in [LeadIds -> Days \cup {0}]
    /\ outcomes \in [LeadIds -> SUBSET OutcomeTypes]
    /\ due \in [ReminderIds -> Days \cup {0}]
    /\ today \in Days
    /\ \A h \in Handlers : Dated(h)

\* At the start there are no leads.
LEMMA LeadTypesInitially == LeadsInit => LeadTInv
  <1> SUFFICES ASSUME LeadsInit PROVE LeadTInv
    OBVIOUS
  <1>1. today \in Days
    BY LeadsAssumption DEF LeadsInit, Days
  <1>2. /\ followUp \in [LeadIds -> Days \cup {0}]
        /\ outcomes \in [LeadIds -> SUBSET OutcomeTypes]
        /\ due \in [ReminderIds -> Days \cup {0}]
    BY DEF LeadsInit
  <1>6. renamed \subseteq LeadIds
    BY DEF LeadsInit
  <1>3. ReminderRows = {} /\ earlier = {}
    BY DEF LeadsInit, ReminderRows
  <1>4. UpdatedInTurn
    BY <1>3 DEF UpdatedInTurn
  <1>7. NoRequests
    BY DEF LeadsInit
  <1>5. \A h \in Handlers : req[h].op = "idle"
    BY <1>7 DEF NoRequests, Idle
  <1> QED BY <1>1, <1>2, <1>4, <1>5, <1>6, LeadInitially DEF LeadTInv, Dated

\* The reminder that is updated comes last.
LEMMA TouchedIsLast ==
  ASSUME UpdatedInTurn, NEW r \in ReminderIds, Touch(r), ReminderRows' = ReminderRows \cup {r}
  PROVE  UpdatedInTurn'
  <1> DEFINE old == {p \in earlier : r \notin {p[1], p[2]}}
             new == (ReminderRows \ {r}) \X {r}
  <1>1. earlier' = old \cup new
    BY DEF Touch
  <1>2. ASSUME NEW p \in ReminderRows', NEW q \in ReminderRows'
        PROVE  <<p, q>> \in earlier' <=> \/ <<p, q>> \in earlier /\ p # r /\ q # r
                                         \/ p # r /\ q = r
    <2>1. <<p, q>> \in old <=> <<p, q>> \in earlier /\ p # r /\ q # r
      OBVIOUS
    <2>2. <<p, q>> \in new <=> p # r /\ q = r
      BY <1>2
    <2> QED BY <1>1, <2>1, <2>2
  <1>3. earlier' \subseteq ReminderRows' \X ReminderRows'
    <2>1. old \subseteq ReminderRows' \X ReminderRows'
      BY DEF UpdatedInTurn
    <2>2. new \subseteq ReminderRows' \X ReminderRows'
      OBVIOUS
    <2> QED BY <1>1, <2>1, <2>2
  <1> HIDE DEF old, new
  <1>4. \A p \in ReminderRows' : p # r => p \in ReminderRows
    OBVIOUS
  <1>5. ASSUME NEW p \in ReminderRows', NEW q \in ReminderRows'
        PROVE  <<p, q>> \in earlier' <=> p # q /\ <<q, p>> \notin earlier'
    <2>1. CASE p = r \/ q = r
      BY <1>2, <2>1
    <2>2. CASE p # r /\ q # r
      BY <1>2, <1>4, <2>2 DEF UpdatedInTurn
    <2> QED BY <2>1, <2>2
  <1>6. ASSUME NEW p \in ReminderRows', NEW q \in ReminderRows', NEW s \in ReminderRows',
               <<p, q>> \in earlier', <<q, s>> \in earlier'
        PROVE  <<p, s>> \in earlier'
    <2>1. /\ <<p, q>> \in earlier /\ p # r /\ q # r
          /\ (<<q, s>> \in earlier /\ s # r) \/ s = r
      BY <1>2, <1>6
    <2>2. CASE s = r
      BY <1>2, <2>1, <2>2
    <2>3. CASE <<q, s>> \in earlier /\ s # r
      <3>1. <<p, s>> \in earlier
        BY <1>4, <2>1, <2>3 DEF UpdatedInTurn
      <3> QED BY <1>2, <2>1, <2>3, <3>1
    <2> QED BY <2>1, <2>2, <2>3
  <1> QED BY <1>3, <1>5, <1>6 DEF UpdatedInTurn

\* Saving a reminder that is there, or a new one.
LEMMA SavedInTurn ==
  ASSUME LeadTInv, NEW r \in ReminderIds, NEW d \in Days \cup {0},
         \/ about[r] # NoLead /\ \E st : SaveReminder(r, st, d)
         \/ about[r] # NoLead /\ RefreshReminder(r, d)
         \/ \E l \in LeadIds : CreateReminder(r, l, d)
  PROVE  UpdatedInTurn' /\ due' \in [ReminderIds -> Days \cup {0}]
  <1>1. Touch(r) /\ due' = [due EXCEPT ![r] = d]
    BY DEF SaveReminder, RefreshReminder, CreateReminder
  <1>2. about \in [ReminderIds -> LeadIds \cup {NoLead}]
    BY DEF LeadTInv, LeadIInv, LeadShape
  <1>3. ReminderRows' = ReminderRows \cup {r}
    <2>1. CASE about[r] # NoLead /\ about' = about
      BY <2>1 DEF ReminderRows
    <2>2. CASE \E l \in LeadIds : CreateReminder(r, l, d)
      <3>1. PICK l \in LeadIds : about' = [about EXCEPT ![r] = l]
        BY <2>2 DEF CreateReminder
      <3>2. l # NoLead /\ about'[r] = l
        BY <1>2, <3>1, LeadsAssumption
      <3>3. \A p \in ReminderIds : p # r => about'[p] = about[p]
        BY <1>2, <3>1
      <3> QED BY <3>2, <3>3 DEF ReminderRows
    <2> QED BY <2>1, <2>2 DEF SaveReminder, RefreshReminder
  <1>4. UpdatedInTurn'
    BY <1>1, <1>3, TouchedIsLast DEF LeadTInv
  <1> QED BY <1>1, <1>4 DEF LeadTInv

\* So does a sync.
LEMMA SyncedInTurn ==
  ASSUME LeadTInv, NEW l \in LeadIds, NEW d \in Days \cup {0}, SyncFromLead(l, d)
  PROVE  UpdatedInTurn' /\ due' \in [ReminderIds -> Days \cup {0}]
  <1>1. CASE UNCHANGED reminderVars
    BY <1>1 DEF reminderVars, LeadTInv, UpdatedInTurn, ReminderRows
  <1>2. ASSUME NEW r \in ReminderIds, IsActive(r, l), SaveReminder(r, "completed", due[r])
        PROVE  UpdatedInTurn' /\ due' \in [ReminderIds -> Days \cup {0}]
    <2>1. about[r] # NoLead /\ due[r] \in Days \cup {0}
      BY <1>2, LeadsAssumption DEF IsActive, OpenReminders, LeadTInv
    <2> QED BY <1>2, <2>1, SavedInTurn
  <1>3. ASSUME NEW r \in ReminderIds, IsActive(r, l), RefreshReminder(r, d)
        PROVE  UpdatedInTurn' /\ due' \in [ReminderIds -> Days \cup {0}]
    <2>1. about[r] # NoLead
      BY <1>3, LeadsAssumption DEF IsActive, OpenReminders
    <2> QED BY <1>3, <2>1, SavedInTurn
  <1>4. ASSUME NEW r \in ReminderIds, CreateReminder(r, l, d)
        PROVE  UpdatedInTurn' /\ due' \in [ReminderIds -> Days \cup {0}]
    BY <1>4, SavedInTurn
  <1> QED BY <1>1, <1>2, <1>3, <1>4 DEF SyncFromLead

\* Every step keeps the types.
LEMMA LeadTypeSteps == LeadTInv /\ [LeadsNext]_leadsVars => LeadTInv'
  <1> SUFFICES ASSUME LeadTInv, [LeadsNext]_leadsVars PROVE LeadTInv'
    OBVIOUS
  <1>1. LeadIInv'
    BY LeadSteps DEF LeadTInv
  <1>2. /\ DOMAIN req = Handlers /\ \A h \in Handlers : Names(h) /\ Dated(h)
    BY DEF LeadTInv, LeadIInv, RequestsShape
  <1>3. ASSUME UNCHANGED reminderVars PROVE UpdatedInTurn' /\ due' \in [ReminderIds -> Days \cup {0}]
    BY <1>3 DEF reminderVars, LeadTInv, UpdatedInTurn, ReminderRows
  <1>4. ASSUME NEW h \in Handlers, End(h) \/ \E l : CommitLead(h, l)
        PROVE  \A g \in Handlers : Dated(g)'
    <2>1. \A g \in Handlers : req'[g] = req[g] \/ req'[g] = Idle
      BY <1>2, <1>4 DEF End, CommitLead
    <2>2. Idle.op = "idle"
      BY DEF Idle
    <2> QED BY <1>2, <2>1, <2>2 DEF Dated
  <1>5. ASSUME NEW h \in Handlers, NEW r, Begin(h, r),
               r.op \in {"create", "patch", "reschedule"} => r.date \in Days \cup {0},
               r.op = "outcome" => r.outcome \in OutcomeTypes,
               UNCHANGED <<leadVars, reminderVars, today, renamed, overtook>>
        PROVE  LeadTInv'
    <2>1. \A g \in Handlers : req'[g] = req[g] \/ req'[g] = r
      BY <1>2, <1>5 DEF Begin
    <2>2. \A g \in Handlers : Dated(g)'
      BY <1>2, <1>5, <2>1 DEF Dated
    <2> QED BY <1>1, <1>3, <1>5, <2>2 DEF LeadTInv, leadVars
  <1>6. ASSUME NEW l \in LeadIds, NEW d \in Days \cup {0}
        PROVE  [followUp EXCEPT ![l] = d] \in [LeadIds -> Days \cup {0}]
    BY DEF LeadTInv
  <1>7. CASE DayPasses
    <2>1. today' \in Days
      BY <1>7, LeadsAssumption DEF DayPasses, LeadTInv, Days
    <2>2. req' = req /\ UNCHANGED <<followUp, outcomes, reminderVars, renamed>>
      BY <1>7 DEF DayPasses, leadVars, requestVars
    <2>3. \A g \in Handlers : Dated(g)'
      <3>1. Days' = Days
        BY DEF Days
      <3> QED BY <1>2, <2>2, <3>1 DEF Dated
    <2> QED BY <1>1, <1>3, <2>1, <2>2, <2>3 DEF LeadTInv
  <1>8. CASE UNCHANGED leadsVars
    BY <1>1, <1>2, <1>3, <1>8 DEF leadsVars, leadVars, requestVars, LeadTInv, Dated
  <1>9. ASSUME NEW h \in Handlers, CreateLead(h) PROVE LeadTInv'
    <2>1. ASSUME NEW k \in Keys, NEW d \in Days \cup {0}, CreateLeadRead(h, k, d) PROVE LeadTInv'
      <3> DEFINE r == [op |-> "create", leads |-> FreeIds, key |-> k, date |-> d]
      <3>1. Begin(h, r) /\ UNCHANGED <<leadVars, reminderVars, today, renamed, overtook>>
        BY <2>1 DEF CreateLeadRead
      <3>2. r.op = "create" /\ r.date = d
        OBVIOUS
      <3> HIDE DEF r
      <3> QED BY <1>5, <3>1, <3>2
    <2>2. ASSUME NEW l \in LeadIds, CreateLeadWrite(h, l) PROVE LeadTInv'
      <3> DEFINE d == req[h].date
      <3>1. /\ req[h].op = "create" /\ followUp' = [followUp EXCEPT ![l] = d]
            /\ SyncFromLead(l, d) /\ CommitLead(h, l) /\ UNCHANGED <<outcomes, today, renamed>>
        BY <2>2 DEF CreateLeadWrite, Busy
      <3>2. d \in Days \cup {0}
        BY <1>2, <3>1 DEF Dated
      <3> HIDE DEF d
      <3>3. UpdatedInTurn' /\ due' \in [ReminderIds -> Days \cup {0}]
        BY <3>1, <3>2, SyncedInTurn
      <3> QED BY <1>1, <1>4, <1>6, <3>1, <3>2, <3>3 DEF LeadTInv
    <2> QED BY <1>9, <2>1, <2>2 DEF CreateLead
  <1>10. ASSUME NEW h \in Handlers, PatchLead(h) PROVE LeadTInv'
    <2>1. ASSUME NEW l \in LeadIds, NEW d \in Days \cup {0}, NEW s \in LeadStages,
                 NEW k \in Keys \cup {NoKey}, UpdateLeadRead(h, l, d, s, k)
          PROVE  LeadTInv'
      <3> DEFINE r == [op |-> "patch", leads |-> {l}, on |-> l, date |-> d, key |-> k,
                       stage |-> IF s = stage[l] THEN "kept" ELSE s]
      <3>1. Begin(h, r) /\ UNCHANGED <<leadVars, reminderVars, today, renamed, overtook>>
        BY <2>1 DEF UpdateLeadRead
      <3>2. r.op = "patch" /\ r.date = d
        OBVIOUS
      <3> HIDE DEF r
      <3> QED BY <1>5, <3>1, <3>2
    <2>2. CASE UpdateLeadWrite(h)
      <3> DEFINE d == req[h].date
                 l == req[h].on
      <3>1. /\ req[h].op = "patch" /\ followUp' = [followUp EXCEPT ![l] = d]
            /\ SyncFromLead(l, d) /\ CommitLead(h, l) /\ UNCHANGED <<outcomes, today>>
            /\ SetKey(l, req[h].key)
        BY <2>2 DEF UpdateLeadWrite, Busy
      <3>2. d \in Days \cup {0}
        BY <1>2, <3>1 DEF Dated
      <3>3. l \in LeadIds
        BY <1>2, <3>1 DEF Names
      <3>5. renamed' \subseteq LeadIds
        BY <3>1, <3>3 DEF SetKey, LeadTInv
      <3> HIDE DEF d, l
      <3>4. UpdatedInTurn' /\ due' \in [ReminderIds -> Days \cup {0}]
        BY <3>1, <3>2, <3>3, SyncedInTurn
      <3> QED BY <1>1, <1>4, <1>6, <3>1, <3>2, <3>3, <3>4, <3>5 DEF LeadTInv
    <2> QED BY <1>10, <2>1, <2>2 DEF PatchLead
  <1>11. ASSUME NEW h \in Handlers, RecordOutcome(h) PROVE LeadTInv'
    <2>1. ASSUME NEW l \in LeadIds, NEW o \in OutcomeTypes, RecordOutcomeRead(h, l, o)
          PROVE  LeadTInv'
      <3> DEFINE r == [op |-> "outcome", leads |-> {l}, on |-> l, outcome |-> o,
                       stage |-> IF StageHint[o] = stage[l] THEN "kept" ELSE StageHint[o]]
      <3>1. Begin(h, r) /\ UNCHANGED <<leadVars, reminderVars, today, renamed, overtook>>
        BY <2>1 DEF RecordOutcomeRead
      <3>2. r.op = "outcome" /\ r.outcome = o
        OBVIOUS
      <3> HIDE DEF r
      <3> QED BY <1>5, <3>1, <3>2
    <2>2. CASE RecordOutcomeWrite(h)
      <3> DEFINE l == req[h].on
                 o == req[h].outcome
      <3>1. /\ req[h].op = "outcome" /\ outcomes' = [outcomes EXCEPT ![l] = @ \cup {o}]
            /\ CommitLead(h, l) /\ UNCHANGED <<followUp, reminderVars, today, renamed>>
        BY <2>2 DEF RecordOutcomeWrite, Busy
      <3>2. l \in LeadIds /\ o \in OutcomeTypes
        BY <1>2, <3>1 DEF Names, Dated
      <3> HIDE DEF l, o
      <3>3. outcomes' \in [LeadIds -> SUBSET OutcomeTypes]
        BY <3>1, <3>2 DEF LeadTInv
      <3> QED BY <1>1, <1>3, <1>4, <3>1, <3>3 DEF LeadTInv
    <2> QED BY <1>11, <2>1, <2>2 DEF RecordOutcome
  <1>12. ASSUME NEW h \in Handlers, NEW op, NEW q \in ReminderIds, NEW d \in Days \cup {0},
                op \in {"complete", "reschedule"}, ReminderRead(h, op, q, d)
         PROVE  LeadTInv'
    <2> DEFINE r == [op |-> op, leads |-> {about[q]}, on |-> q, date |-> d]
    <2>1. Begin(h, r) /\ UNCHANGED <<leadVars, reminderVars, today, renamed, overtook>>
      BY <1>12 DEF ReminderRead
    <2>2. r.op = op /\ r.date = d
      OBVIOUS
    <2> HIDE DEF r
    <2> QED BY <1>5, <1>12, <2>1, <2>2
  <1>13. ASSUME NEW h \in Handlers, req[h].op \in {"complete", "reschedule", "queue"},
                NEW st, NEW d \in Days \cup {0}, SaveReminder(req[h].on, st, d),
                CommitLead(h, about[req[h].on]), UNCHANGED <<outcomes, today, renamed>>,
                followUp' \in [LeadIds -> Days \cup {0}]
         PROVE  LeadTInv'
    <2>1. req[h].on \in ReminderIds /\ about[req[h].on] # NoLead
      BY <1>2, <1>13 DEF Names
    <2>2. UpdatedInTurn' /\ due' \in [ReminderIds -> Days \cup {0}]
      BY <1>13, <2>1, SavedInTurn
    <2> QED BY <1>1, <1>4, <1>13, <2>2 DEF LeadTInv
  <1>14. ASSUME NEW h \in Handlers, req[h].op \in {"complete", "reschedule", "queue"}
         PROVE  req[h].on \in ReminderIds /\ due[req[h].on] \in Days \cup {0}
    BY <1>2, <1>14 DEF Names, LeadTInv
  <1>15. ASSUME NEW h \in Handlers, CompleteReminder(h) PROVE LeadTInv'
    <2>1. CASE CompleteWrite(h)
      <3>1. /\ req[h].op = "complete" /\ SaveReminder(req[h].on, "completed", due[req[h].on])
            /\ CommitLead(h, about[req[h].on]) /\ UNCHANGED <<followUp, outcomes, today, renamed>>
        BY <2>1 DEF CompleteWrite, Busy, leadVars
      <3>2. due[req[h].on] \in Days \cup {0}
        BY <1>14, <3>1
      <3> QED BY <1>13, <3>1, <3>2 DEF LeadTInv
    <2> QED BY <1>12, <1>15, <2>1 DEF CompleteReminder
  <1>16. ASSUME NEW h \in Handlers, RescheduleReminder(h) PROVE LeadTInv'
    <2>1. CASE RescheduleWrite(h)
      <3> DEFINE d == req[h].date
      <3>1. /\ req[h].op = "reschedule" /\ SaveReminder(req[h].on, Classify(d), d)
            /\ followUp' = [followUp EXCEPT ![about[req[h].on]] = d]
            /\ CommitLead(h, about[req[h].on]) /\ UNCHANGED <<outcomes, today, renamed>>
        BY <2>1 DEF RescheduleWrite, Busy
      <3>2. d \in Days \cup {0} /\ req[h].on \in ReminderIds /\ about[req[h].on] # NoLead
        BY <1>2, <3>1 DEF Dated, Names
      <3>3. about[req[h].on] \in LeadIds
        BY <3>2 DEF LeadTInv, LeadIInv, LeadShape
      <3> HIDE DEF d
      <3> QED BY <1>6, <1>13, <3>1, <3>2, <3>3
    <2> QED BY <1>12, <1>16, <2>1 DEF RescheduleReminder
  <1>17. ASSUME NEW h \in Handlers, ReminderQueue(h) PROVE LeadTInv'
    <2>1. ASSUME NEW q \in ReminderIds, QueueRead(h, q) PROVE LeadTInv'
      <3> DEFINE r == [op |-> "queue", leads |-> {about[q]}, on |-> q, state |-> Classify(due[q])]
      <3>1. Begin(h, r) /\ UNCHANGED <<leadVars, reminderVars, today, renamed, overtook>>
        BY <2>1 DEF QueueRead
      <3>2. r.op = "queue"
        OBVIOUS
      <3> HIDE DEF r
      <3> QED BY <1>5, <3>1, <3>2
    <2>2. CASE QueueWrite(h)
      <3>1. /\ req[h].op = "queue" /\ SaveReminder(req[h].on, req[h].state, due[req[h].on])
            /\ CommitLead(h, about[req[h].on]) /\ UNCHANGED <<followUp, outcomes, today, renamed>>
        BY <2>2 DEF QueueWrite, Busy, leadVars
      <3>2. due[req[h].on] \in Days \cup {0}
        BY <1>14, <3>1
      <3> QED BY <1>13, <3>1, <3>2 DEF LeadTInv
    <2> QED BY <1>17, <2>1, <2>2 DEF ReminderQueue
  <1>18. ASSUME NEW h \in Handlers, Lost(h), UNCHANGED <<leadVars, reminderVars, today, renamed, overtook>>
         PROVE  LeadTInv'
    <2>1. \A g \in Handlers : Dated(g)'
      BY <1>4, <1>18 DEF Lost
    <2> QED BY <1>1, <1>3, <1>18, <2>1 DEF LeadTInv, leadVars
  <1> QED BY <1>7, <1>8, <1>9, <1>10, <1>11, <1>15, <1>16, <1>17, <1>18 DEF LeadsNext

\* The types are those of the component.
LEMMA LeadTypes == LeadTInv => LeadsTypeOK
  BY DEF LeadTInv, LeadIInv, LeadShape, RequestsShape, UpdatedInTurn, LeadsTypeOK

\* Tokens: the invariant above, and when each was made, expires and was revoked; a
\* request to revoke is about a token that was made.
TokenTInv ==
    /\ TokenIInv
    /\ moment \in Moments
    /\ minted \in [Tokens -> Moments \cup {0}]
    /\ \A t \in Tokens : minted[t] <= moment
    /\ DOMAIN expires = Tokens
    /\ \A t \in Tokens : minted[t] # 0 => expires[t] \in minted[t] + 1 .. minted[t] + MaxTtl
    /\ revokedAt \in [Tokens -> Moments \cup {0}]
    /\ \A t \in Tokens : revokedAt[t] # 0 => minted[t] \in 1 .. revokedAt[t]
    /\ \A h \in Handlers : Busy(h, "revoke") => minted[req[h].token] # 0

\* A token lives for at least a moment and at most MaxTtl, whatever was asked for.
LEMMA ExpiryIsClipped ==
  ASSUME moment \in Moments, NEW e \in Moments \cup {0}
  PROVE  NormalizeExpiresAt(e) \in moment + 1 .. moment + MaxTtl
  BY TokensAssumption DEF NormalizeExpiresAt, Moments

\* At the start there is no token.
LEMMA TokenTypesInitially == CalendarInit => TokenTInv
  <1> SUFFICES ASSUME CalendarInit PROVE TokenTInv
    OBVIOUS
  <1>1. moment \in Moments
    BY TokensAssumption DEF CalendarInit, Moments
  <1>2. /\ minted \in [Tokens -> Moments \cup {0}]
        /\ revokedAt \in [Tokens -> Moments \cup {0}]
    BY DEF CalendarInit
  <1>3. \A h \in Handlers : ~Busy(h, "revoke")
    BY DEF CalendarInit, NoRequests, Busy, Idle
  <1>4. \A t \in Tokens : minted[t] = 0 /\ revokedAt[t] = 0 /\ minted[t] <= moment
    BY DEF CalendarInit
  <1>5. DOMAIN expires = Tokens
    BY DEF CalendarInit
  <1> QED BY <1>1, <1>2, <1>3, <1>4, <1>5, TokenInitially DEF TokenTInv

\* Every step keeps the types.
LEMMA TokenTypeSteps == TokenTInv /\ [CalendarNext]_calendarVars => TokenTInv'
  <1> SUFFICES ASSUME TokenTInv, [CalendarNext]_calendarVars PROVE TokenTInv'
    OBVIOUS
  <1>1. TokenIInv' /\ TokenShape
    BY TokenSteps DEF TokenTInv, TokenIInv
  <1>2. \A t \in Tokens : minted[t] \in Nat /\ moment \in Nat \ {0} /\ minted[t] <= moment
    BY <1>1 DEF TokenTInv, TokenShape, Moments
  <1>3. DOMAIN req = Handlers
    BY <1>1 DEF TokenShape
  <1>4. ASSUME UNCHANGED <<minted, expires, revokedAt, moment>>,
               \A h \in Handlers : req'[h] = req[h] \/ ~Busy(h, "revoke")'
                                   \/ minted[req'[h].token] # 0
        PROVE  TokenTInv'
    BY <1>1, <1>4 DEF TokenTInv, Busy
  <1>5. ASSUME NEW h \in Handlers, req' = [req EXCEPT ![h] = Idle]
        PROVE  \A g \in Handlers : req'[g] = req[g] \/ ~Busy(g, "revoke")'
    BY <1>3, <1>5 DEF Busy, Idle
  <1>6. CASE MomentPasses
    <2>1. /\ moment' \in Moments /\ moment' > moment
          /\ UNCHANGED <<minted, expires, revokedAt, req>>
      BY <1>6, TokensAssumption DEF MomentPasses, tokenVars, requestVars, TokenTInv, Moments
    <2>2. \A t \in Tokens : minted'[t] <= moment'
      BY <1>2, <2>1 DEF Moments
    <2> QED BY <1>1, <2>1, <2>2 DEF TokenTInv, Busy
  <1>7. ASSUME NEW t \in Tokens, NEW e \in Moments \cup {0}, MintToken(t, e) PROVE TokenTInv'
    <2> DEFINE x == NormalizeExpiresAt(e)
    <2>1. x \in moment + 1 .. moment + MaxTtl
      BY ExpiryIsClipped DEF TokenTInv
    <2> HIDE DEF x
    <2>2. /\ minted[t] = 0 /\ minted' = [minted EXCEPT ![t] = moment]
          /\ expires' = [expires EXCEPT ![t] = x] /\ UNCHANGED <<revokedAt, moment, req>>
      BY <1>7 DEF MintToken, AddToken, requestVars, x
    <2>3. /\ minted' \in [Tokens -> Moments \cup {0}]
          /\ minted'[t] = moment /\ expires'[t] = x /\ DOMAIN expires' = Tokens
          /\ \A u \in Tokens \ {t} : minted'[u] = minted[u] /\ expires'[u] = expires[u]
      BY <2>2 DEF TokenTInv
    <2>4. \A u \in Tokens : minted'[u] <= moment'
      BY <1>2, <2>2, <2>3
    <2>5. \A u \in Tokens : minted'[u] # 0 => expires'[u] \in minted'[u] + 1 .. minted'[u] + MaxTtl
      BY <2>1, <2>3 DEF TokenTInv
    <2>6. revokedAt[t] = 0
      <3>1. revokedAt[t] # 0 => minted[t] \in 1 .. revokedAt[t]
        BY DEF TokenTInv
      <3> QED BY <2>2, <3>1
    <2>7. \A u \in Tokens : revokedAt'[u] # 0 => minted'[u] \in 1 .. revokedAt'[u]
      BY <2>2, <2>3, <2>6 DEF TokenTInv
    <2>8. ASSUME NEW h \in Handlers, Busy(h, "revoke")' PROVE minted'[req'[h].token] # 0
      <3>1. Busy(h, "revoke") /\ req' = req
        BY <2>2, <2>8 DEF Busy
      <3>2. minted[req[h].token] # 0 /\ req[h].token \in Tokens
        BY <1>1, <3>1, TokenFields DEF TokenTInv
      <3> QED BY <2>2, <2>3, <3>1, <3>2
    <2> QED BY <1>1, <2>2, <2>3, <2>4, <2>5, <2>7, <2>8 DEF TokenTInv
  <1>8. ASSUME NEW h \in Handlers, NEW t \in Tokens, RevokeTokenRead(h, t) PROVE TokenTInv'
    <2> DEFINE r == [op |-> "revoke", token |-> t, revoked |-> revokedAt[t] # 0]
    <2>1. /\ req' = [req EXCEPT ![h] = r] /\ minted[t] # 0
          /\ UNCHANGED <<minted, expires, revokedAt, moment>>
      BY <1>8 DEF RevokeTokenRead, Begin, tokenVars
    <2>2. r.token = t
      OBVIOUS
    <2> HIDE DEF r
    <2>3. \A g \in Handlers : req'[g] = req[g] \/ minted[req'[g].token] # 0
      BY <1>3, <2>1, <2>2
    <2> QED BY <1>4, <2>1, <2>3
  <1>9. ASSUME NEW h \in Handlers, RevokeTokenWrite(h) PROVE TokenTInv'
    <2> DEFINE t == req[h].token
    <2>1. /\ Busy(h, "revoke") /\ req' = [req EXCEPT ![h] = Idle]
          /\ revokedAt' = [revokedAt EXCEPT ![t] = IF req[h].revoked THEN @ ELSE moment]
          /\ UNCHANGED <<minted, expires, moment>>
      BY <1>9 DEF RevokeTokenWrite, CommitToken
    <2>2. t \in Tokens /\ minted[t] # 0
      BY <1>1, <2>1, TokenFields DEF TokenTInv
    <2> HIDE DEF t
    <2>3. /\ revokedAt' \in [Tokens -> Moments \cup {0}]
          /\ revokedAt'[t] = revokedAt[t] \/ revokedAt'[t] = moment
          /\ \A u \in Tokens \ {t} : revokedAt'[u] = revokedAt[u]
      BY <2>1, <2>2 DEF TokenTInv
    <2>4. minted[t] \in 1 .. moment
      BY <1>2, <2>2
    <2>5. \A u \in Tokens : revokedAt'[u] # 0 => minted'[u] \in 1 .. revokedAt'[u]
      BY <2>1, <2>3, <2>4 DEF TokenTInv
    <2> QED BY <1>1, <1>5, <2>1, <2>3, <2>5 DEF TokenTInv, Busy
  <1>10. ASSUME NEW h \in Handlers, NEW t \in Tokens, ResolveToken(h, t) PROVE TokenTInv'
    <2> DEFINE r == [op |-> "use", token |-> t, uses |-> uses[t]]
    <2>1. req' = [req EXCEPT ![h] = r] /\ UNCHANGED <<minted, expires, revokedAt, moment>>
      BY <1>10 DEF ResolveToken, Begin, tokenVars
    <2>2. r.op # "revoke"
      OBVIOUS
    <2> HIDE DEF r
    <2>3. \A g \in Handlers : req'[g] = req[g] \/ ~Busy(g, "revoke")'
      BY <1>3, <2>1, <2>2 DEF Busy
    <2> QED BY <1>4, <2>1, <2>3
  <1>11. ASSUME NEW h \in Handlers, Deliver(h) PROVE TokenTInv'
    <2>1. req' = [req EXCEPT ![h] = Idle] /\ UNCHANGED <<minted, expires, revokedAt, moment>>
      BY <1>11 DEF Deliver, RecordUse, CommitToken
    <2> QED BY <1>4, <1>5, <2>1
  <1>12. ASSUME NEW h \in Handlers, Lost(h), UNCHANGED <<tokenVars, served, moment, miscounted>>
         PROVE  TokenTInv'
    BY <1>4, <1>5, <1>12 DEF Lost, End, tokenVars
  <1>13. CASE UNCHANGED calendarVars
    BY <1>4, <1>13 DEF calendarVars, tokenVars, requestVars
  <1> QED BY <1>6, <1>7, <1>8, <1>9, <1>10, <1>11, <1>12, <1>13
          DEF CalendarNext, RevokeToken, TokenizedIcs

\* The types are those of the component.
LEMMA TokenTypes == TokenTInv => CalendarTypeOK
  BY DEF TokenTInv, TokenIInv, TokenShape, CalendarTypeOK

\* The score rows are numbered in the order they are inserted, and no two alike.
RowsAreNumbered ==
    /\ current \in [ScoredEvents -> SUBSET ScoreRows]
    /\ \A e \in ScoredEvents : \A x \in current[e] : x.id <= inserted
    /\ \A d, e \in ScoredEvents : \A x \in current[d], y \in current[e] :
          x.id = y.id => d = e /\ x = y

ScoringTInv ==
    /\ ScoringIInv
    /\ RowsAreNumbered
    /\ weights \in Weights
    /\ inserted \in 0 .. MaxScores
    /\ decision \in [Suggestions -> Decisions]
    /\ proposed \in [Suggestions -> Weights]
    /\ edited \subseteq Handlers
    /\ dated \subseteq 1 .. MaxScores
    /\ \A h \in Handlers : req[h].op \in ScoringOps => req[h].weights \in Weights

\* At the start there is no score.
LEMMA ScoringTypesInitially == ScoringInit => ScoringTInv
  <1> SUFFICES ASSUME ScoringInit PROVE ScoringTInv
    OBVIOUS
  <1>1. 0 \in Weights /\ 0 \in 0 .. MaxScores
    BY ScoringAssumption DEF Weights
  <1>2. /\ decision \in [Suggestions -> Decisions] /\ proposed \in [Suggestions -> Weights]
        /\ weights \in Weights /\ inserted = 0
    BY <1>1 DEF ScoringInit, Decisions
  <1>3. \A h \in Handlers : req[h].op \notin ScoringOps
    BY DEF ScoringInit, NoRequests, Idle, ScoringOps
  <1>4. RowsAreNumbered
    BY DEF ScoringInit, RowsAreNumbered
  <1>5. edited \subseteq Handlers /\ dated \subseteq 1 .. MaxScores
    BY DEF ScoringInit
  <1> QED BY <1>1, <1>2, <1>3, <1>4, <1>5, ScoringInitially DEF ScoringTInv

\* An edit dates scores that there are.
LEMMA EditTypes ==
  ASSUME ScoringTInv, NEW w, EditWeights(w)
  PROVE  edited' \subseteq Handlers /\ dated' \subseteq 1 .. MaxScores
  <1>1. inserted \in 0 .. MaxScores
    BY DEF ScoringTInv
  <1> QED BY <1>1, ScoringAssumption DEF EditWeights

\* Scores that are added are within the bound, dated or not.
LEMMA AddTypes ==
  ASSUME ScoringTInv, NEW h, NEW n \in Nat, AddScores(h, n)
  PROVE  /\ inserted' = inserted + n /\ inserted' \in 0 .. MaxScores /\ inserted <= inserted'
         /\ edited' \subseteq Handlers /\ dated' \subseteq 1 .. MaxScores
  <1>1. inserted \in Nat /\ MaxScores \in Nat /\ inserted' = inserted + n /\ inserted' <= MaxScores
    BY ScoringAssumption DEF ScoringTInv, AddScores
  <1>2. {i \in inserted + 1 .. inserted' : h \in edited} \subseteq 1 .. MaxScores
    BY <1>1
  <1>3. dated' \subseteq 1 .. MaxScores
    <2> DEFINE added == {i \in inserted + 1 .. inserted' : h \in edited}
    <2>1. dated' = dated \cup added /\ dated \subseteq 1 .. MaxScores
      BY DEF ScoringTInv, AddScores
    <2>2. added \subseteq 1 .. MaxScores
      BY <1>2
    <2> HIDE DEF added
    <2> QED BY <2>1, <2>2
  <1>4. edited' \subseteq Handlers
    BY DEF ScoringTInv, AddScores
  <1>5. inserted' \in 0 .. MaxScores /\ inserted <= inserted'
    BY <1>1
  <1> QED BY <1>1, <1>3, <1>4, <1>5

\* Scores with numbers of their own that come after those there are.
LEMMA NumberedScores ==
  ASSUME ScoringTInv, NEW S \in SUBSET ScoredEvents, NEW w \in Weights,
         inserted' \in 0 .. MaxScores, inserted <= inserted',
         NEW number, \A x \in S : number[x] \in inserted + 1 .. inserted',
         \A x, y \in S : number[x] = number[y] => x = y,
         current' = [e \in ScoredEvents |-> current'[e]],
         \A e \in ScoredEvents \ S : current'[e] = current[e],
         \A e \in S : current'[e] \subseteq current[e] \cup {[id |-> number[e], weights |-> w]}
  PROVE  RowsAreNumbered'
  <1>1. /\ inserted \in Nat /\ inserted' \in Nat /\ MaxScores \in Nat /\ inserted' <= MaxScores
        /\ RowsAreNumbered
    BY ScoringAssumption DEF ScoringTInv
  <1>2. \A e \in ScoredEvents : \A x \in current[e] :
           x \in ScoreRows /\ x.id \in Nat /\ x.id <= inserted
    BY <1>1 DEF RowsAreNumbered, ScoreRows
  <1>3. ASSUME NEW e \in ScoredEvents, NEW x \in current'[e]
        PROVE  \/ x \in current[e]
               \/ e \in S /\ x = [id |-> number[e], weights |-> w] /\ x.id = number[e]
    <2>1. CASE e \in S
      <3>1. x \in current[e] \/ x = [id |-> number[e], weights |-> w]
        BY <1>3, <2>1
      <3> QED BY <2>1, <3>1
    <2>2. CASE e \notin S
      BY <1>3, <2>2
    <2> QED BY <2>1, <2>2
  <1>4. \A e \in S : number[e] \in Nat /\ number[e] > inserted /\ number[e] <= inserted'
    BY <1>1
  <1>5. \A e \in S : [id |-> number[e], weights |-> w] \in ScoreRows
    <2>1. \A e \in S : number[e] \in 1 .. MaxScores
      BY <1>1, <1>4
    <2> QED BY <2>1 DEF ScoreRows
  <1>6. \A e \in ScoredEvents : current'[e] \subseteq ScoreRows
    BY <1>2, <1>3, <1>5
  <1>7. \A e \in ScoredEvents : \A x \in current'[e] : x.id <= inserted'
    <2> SUFFICES ASSUME NEW e \in ScoredEvents, NEW x \in current'[e] PROVE x.id <= inserted'
      OBVIOUS
    <2>1. CASE x \in current[e]
      BY <1>1, <1>2, <2>1
    <2>2. CASE e \in S /\ x.id = number[e]
      BY <1>4, <2>2
    <2> QED BY <1>3, <2>1, <2>2
  <1>8. ASSUME NEW d \in ScoredEvents, NEW e \in ScoredEvents, NEW x \in current'[d],
               NEW y \in current'[e], x.id = y.id
        PROVE  d = e /\ x = y
    <2>1. CASE x \in current[d] /\ y \in current[e]
      BY <1>1, <1>8, <2>1 DEF RowsAreNumbered
    <2>2. CASE x \in current[d] /\ e \in S /\ y.id = number[e]
      <3>1. x.id \in Nat /\ x.id <= inserted /\ number[e] \in Nat /\ number[e] > inserted
        BY <1>2, <1>4, <2>2
      <3> QED BY <1>1, <1>8, <2>2, <3>1
    <2>3. CASE d \in S /\ x.id = number[d] /\ y \in current[e]
      <3>1. y.id \in Nat /\ y.id <= inserted /\ number[d] \in Nat /\ number[d] > inserted
        BY <1>2, <1>4, <2>3
      <3> QED BY <1>1, <1>8, <2>3, <3>1
    <2>4. CASE /\ d \in S /\ x = [id |-> number[d], weights |-> w] /\ x.id = number[d]
               /\ e \in S /\ y = [id |-> number[e], weights |-> w] /\ y.id = number[e]
      BY <1>8, <2>4
    <2> QED BY <1>3, <2>1, <2>2, <2>3, <2>4
  <1> QED BY <1>6, <1>7, <1>8 DEF RowsAreNumbered

\* Every step keeps the types.
LEMMA ScoringTypeSteps == ScoringTInv /\ [ScoringNext]_scoringVars => ScoringTInv'
  <1> SUFFICES ASSUME ScoringTInv, [ScoringNext]_scoringVars PROVE ScoringTInv'
    OBVIOUS
  <1>1. ScoringIInv'
    BY ScoringSteps DEF ScoringTInv, ScoringKept
  <1>2. /\ ScoringShape /\ \A h \in Handlers : ScoringHolds(h)
        /\ req = [h \in Handlers |-> req[h]]
    BY DEF ScoringTInv, ScoringIInv, ScoringShape
  <1>3. ASSUME RowsAreNumbered', inserted' \in 0 .. MaxScores, weights' \in Weights,
               decision' \in [Suggestions -> Decisions], proposed' \in [Suggestions -> Weights],
               edited' \subseteq Handlers, dated' \subseteq 1 .. MaxScores,
               \A h \in Handlers : \/ req'[h] = req[h] \/ req'[h].weights \in Weights
                                   \/ req'[h].op \notin ScoringOps
        PROVE  ScoringTInv'
    BY <1>1, <1>3 DEF ScoringTInv
  <1>4. ASSUME UNCHANGED <<current, inserted>> PROVE RowsAreNumbered' /\ inserted' \in 0 .. MaxScores
    BY <1>4 DEF ScoringTInv, RowsAreNumbered
  <1>5. ASSUME NEW h \in Handlers, NEW changed, CommitScoring(h, changed)
        PROVE  \A g \in Handlers : req'[g] = req[g] \/ req'[g].op \notin ScoringOps
    <2>1. \A g \in Handlers : req'[g] = req[g] \/ req'[g] = Idle
      BY <1>2, <1>5 DEF CommitScoring
    <2> QED BY <2>1 DEF Idle, ScoringOps
  <1>6. ASSUME NEW h \in Handlers, NEW r, Begin(h, r),
               r.weights = weights \/ r.op \notin ScoringOps, UNCHANGED scoringRows
        PROVE  ScoringTInv'
    <2>1. \A g \in Handlers : req'[g] = req[g] \/ req'[g] = r
      BY <1>2, <1>6 DEF Begin
    <2>2. UNCHANGED <<weights, current, inserted, decision, proposed, doubled, edited, dated>>
      BY <1>6 DEF scoringRows
    <2> QED BY <1>3, <1>4, <1>6, <2>1, <2>2 DEF ScoringTInv
  <1>7. ASSUME NEW h \in Handlers, NEW e \in ScoredEvents, RescoreRead(h, e) PROVE ScoringTInv'
    <2> DEFINE r == [op |-> "rescore", reads |-> {}, event |-> e, weights |-> weights]
    <2>1. Begin(h, r) /\ UNCHANGED scoringRows
      BY <1>7 DEF RescoreRead
    <2>2. r.weights = weights
      OBVIOUS
    <2> HIDE DEF r
    <2> QED BY <1>6, <2>1, <2>2
  <1>8. ASSUME NEW h \in Handlers, NEW e \in ScoredEvents, ScoreAllRead(h, e) PROVE ScoringTInv'
    <2> DEFINE r == [op |-> "score_all", reads |-> {}, event |-> e, weights |-> weights]
    <2>1. Begin(h, r) /\ UNCHANGED scoringRows
      BY <1>8 DEF ScoreAllRead
    <2>2. r.weights = weights
      OBVIOUS
    <2> HIDE DEF r
    <2> QED BY <1>6, <2>1, <2>2
  <1>9. ASSUME NEW h \in Handlers, NEW s \in Suggestions, ApproveRead(h, s) PROVE ScoringTInv'
    <2> DEFINE r == [op |-> "approve", reads |-> {s, "campaign"}, on |-> s]
    <2>1. Begin(h, r) /\ UNCHANGED scoringRows
      BY <1>9 DEF ApproveRead
    <2>2. r.op \notin ScoringOps
      BY DEF ScoringOps
    <2> HIDE DEF r
    <2> QED BY <1>6, <2>1, <2>2
  <1>10. ASSUME NEW h \in Handlers, NEW s \in Suggestions, RejectRead(h, s) PROVE ScoringTInv'
    <2> DEFINE r == [op |-> "reject", reads |-> {s}, on |-> s]
    <2>1. Begin(h, r) /\ UNCHANGED scoringRows
      BY <1>10 DEF RejectRead
    <2>2. r.op \notin ScoringOps
      BY DEF ScoringOps
    <2> HIDE DEF r
    <2> QED BY <1>6, <2>1, <2>2
  <1>11. ASSUME NEW h \in Handlers, RescoreWrite(h) PROVE ScoringTInv'
    <2> DEFINE e == req[h].event
               w == req[h].weights
               n == inserted + 1
    <2>1. /\ req[h].op = "rescore_looked" /\ AddScores(h, 1)
          /\ current' = [current EXCEPT ![e] = AppendScore(@, req[h].seen, n, w)]
          /\ CommitScoring(h, {e}) /\ UNCHANGED <<weights, decision, proposed>>
      BY <1>11 DEF RescoreWrite, AddScores, Busy
    <2>2. e \in ScoredEvents /\ w \in Weights
      BY <1>2, <2>1 DEF ScoringHolds, RescoreHolds, Busy, ScoringTInv, ScoringOps
    <2>3. current = [x \in ScoredEvents |-> current[x]]
      BY <1>2 DEF ScoringShape
    <2> HIDE DEF e, w
    <2>4. /\ current' = [x \in ScoredEvents |-> current'[x]]
          /\ \A x \in ScoredEvents \ {e} : current'[x] = current[x]
          /\ current'[e] = AppendScore(current[e], req[h].seen, n, w)
      BY <2>1, <2>2, <2>3
    <2>9. /\ inserted' = inserted + 1 /\ inserted' \in 0 .. MaxScores /\ inserted <= inserted'
          /\ edited' \subseteq Handlers /\ dated' \subseteq 1 .. MaxScores
      BY <2>1, AddTypes
    <2>5. inserted' \in 0 .. MaxScores /\ inserted <= inserted' /\ n \in inserted + 1 .. inserted'
      BY <2>9 DEF ScoringTInv
    <2> DEFINE number == [x \in {e} |-> n]
    <2>6. \A x \in {e} : number[x] = n
      OBVIOUS
    <2> HIDE DEF n, number
    <2>7. \A x \in {e} : current'[x] \subseteq current[x] \cup {[id |-> number[x], weights |-> w]}
      BY <2>4, <2>6 DEF AppendScore
    <2>8. RowsAreNumbered'
      <3>1. {e} \in SUBSET ScoredEvents
        BY <2>2
      <3>2. \A x \in {e} : number[x] \in inserted + 1 .. inserted'
        BY <2>5, <2>6
      <3>3. \A x, y \in {e} : number[x] = number[y] => x = y
        OBVIOUS
      <3> QED BY <2>2, <2>4, <2>5, <2>7, <3>1, <3>2, <3>3, NumberedScores
    <2> QED BY <1>3, <1>5, <2>1, <2>5, <2>8, <2>9 DEF ScoringTInv
  <1>12. ASSUME NEW h \in Handlers, ScoreAllWrite(h) PROVE ScoringTInv'
    <2> DEFINE e == req[h].event
               w == req[h].weights
               scored == {e} \cup {x \in ScoredEvents : current[x] = {}}
               seen == [x \in scored |-> IF x = e THEN req[h].seen ELSE {}]
               n == Cardinality(scored)
    <2>1. /\ req[h].op = "score_all_looked" /\ AddScores(h, n)
          /\ CommitScoring(h, scored) /\ UNCHANGED <<weights, decision, proposed>>
      BY <1>12 DEF ScoreAllWrite, Busy
    <2>2. PICK number \in [scored -> inserted + 1 .. inserted'] :
              /\ \A x, y \in scored : number[x] = number[y] => x = y
              /\ current' = [x \in ScoredEvents |->
                                IF x \in scored
                                THEN AppendScore(current[x], seen[x], number[x], w)
                                ELSE current[x]]
      BY <1>12 DEF ScoreAllWrite
    <2>3. e \in ScoredEvents /\ w \in Weights
      BY <1>2, <2>1 DEF ScoringHolds, ScoreAllHolds, Busy, ScoringTInv, ScoringOps
    <2>4. scored \in SUBSET ScoredEvents
      BY <2>3
    <2>5. n \in Nat
      BY <2>4, FS_Subset, FS_CardinalityType, ScoringAssumption
    <2> HIDE DEF e, w, scored, seen, n
    <2>6. /\ inserted' \in 0 .. MaxScores /\ inserted <= inserted'
          /\ edited' \subseteq Handlers /\ dated' \subseteq 1 .. MaxScores
      BY <2>1, <2>5, AddTypes
    <2>7. /\ current' = [x \in ScoredEvents |-> current'[x]]
          /\ \A x \in ScoredEvents \ scored : current'[x] = current[x]
          /\ \A x \in scored : current'[x] = AppendScore(current[x], seen[x], number[x], w)
      BY <2>2, <2>4
    <2>8. \A x \in scored : current'[x] \subseteq current[x] \cup {[id |-> number[x], weights |-> w]}
      BY <2>7 DEF AppendScore
    <2>9. RowsAreNumbered'
      <3>1. \A x \in scored : number[x] \in inserted + 1 .. inserted'
        BY <2>2
      <3> QED BY <2>2, <2>3, <2>4, <2>6, <2>7, <2>8, <3>1, NumberedScores
    <2> QED BY <1>3, <1>5, <2>1, <2>6, <2>9 DEF ScoringTInv
  <1>13. ASSUME NEW h \in Handlers, NEW w \in Weights, PatchWeights(h, w) PROVE ScoringTInv'
    <2>1. /\ weights' = w /\ CommitScoring(h, {"campaign"})
          /\ UNCHANGED <<current, inserted, decision, proposed>>
      BY <1>13 DEF PatchWeights, EditWeights
    <2>2. edited' \subseteq Handlers /\ dated' \subseteq 1 .. MaxScores
      BY <1>13, EditTypes DEF PatchWeights
    <2> QED BY <1>3, <1>4, <1>5, <2>1, <2>2 DEF ScoringTInv
  <1>14. ASSUME NEW h \in Handlers, NEW s \in Suggestions, NEW w \in Weights,
                GenerateSuggestion(h, s, w)
         PROVE  ScoringTInv'
    <2>1. /\ decision' = [decision EXCEPT ![s] = "pending_review"]
          /\ proposed' = [proposed EXCEPT ![s] = w] /\ CommitScoring(h, {s})
          /\ UNCHANGED <<weights, current, inserted, edited, dated>>
      BY <1>14 DEF GenerateSuggestion
    <2>2. decision' \in [Suggestions -> Decisions] /\ proposed' \in [Suggestions -> Weights]
      BY <2>1 DEF ScoringTInv, Decisions
    <2> QED BY <1>3, <1>4, <1>5, <2>1, <2>2 DEF ScoringTInv
  <1>15. ASSUME NEW h \in Handlers, ApproveWrite(h) PROVE ScoringTInv'
    <2> DEFINE s == req[h].on
    <2>1. /\ req[h].op = "approve" /\ weights' = proposed[s]
          /\ decision' = [decision EXCEPT ![s] = "approved"]
          /\ CommitScoring(h, {s, "campaign"}) /\ UNCHANGED <<current, inserted, proposed>>
      BY <1>15 DEF ApproveWrite, EditWeights, Busy
    <2>2. s \in Suggestions
      BY <1>2, <2>1 DEF ScoringHolds, ApproveHolds, Busy
    <2> HIDE DEF s
    <2>3. decision' \in [Suggestions -> Decisions] /\ weights' \in Weights
      BY <2>1, <2>2 DEF ScoringTInv, Decisions
    <2>4. edited' \subseteq Handlers /\ dated' \subseteq 1 .. MaxScores
      BY <1>15, EditTypes DEF ApproveWrite
    <2> QED BY <1>3, <1>4, <1>5, <2>1, <2>3, <2>4 DEF ScoringTInv
  <1>16. ASSUME NEW h \in Handlers, RejectWrite(h) PROVE ScoringTInv'
    <2> DEFINE s == req[h].on
    <2>1. /\ decision' = [decision EXCEPT ![s] = "rejected"]
          /\ CommitScoring(h, {s})
          /\ UNCHANGED <<weights, current, inserted, proposed, edited, dated>>
      BY <1>16 DEF RejectWrite
    <2> HIDE DEF s
    <2>2. decision' \in [Suggestions -> Decisions]
      BY <2>1 DEF ScoringTInv, Decisions
    <2> QED BY <1>3, <1>4, <1>5, <2>1, <2>2 DEF ScoringTInv
  <1>17. ASSUME NEW h \in Handlers, Lost(h), edited' = edited \ {h},
                UNCHANGED <<weights, current, inserted, decision, proposed, doubled, dated>>
         PROVE  ScoringTInv'
    <2>1. \A g \in Handlers : req'[g] = req[g] \/ req'[g] = Idle
      BY <1>2, <1>17 DEF Lost, End
    <2>2. Idle.op \notin ScoringOps
      BY DEF Idle, ScoringOps
    <2> QED BY <1>3, <1>4, <1>17, <2>1, <2>2 DEF ScoringTInv
  <1>18. CASE UNCHANGED scoringVars
    BY <1>3, <1>4, <1>18 DEF scoringVars, scoringRows, requestVars, ScoringTInv
  <1>19. ASSUME NEW h \in Handlers, NEW op, NEW e, req[h].op \in ScoringOps, Look(h, op, e)
         PROVE  ScoringTInv'
    <2> DEFINE r == [op |-> op, reads |-> {e}, event |-> e,
                     weights |-> req[h].weights, seen |-> current[e]]
    <2>1. /\ req' = [req EXCEPT ![h] = r]
          /\ UNCHANGED <<weights, current, inserted, decision, proposed, doubled, edited, dated>>
      BY <1>19 DEF Look, scoringRows
    <2>2. r.weights \in Weights
      BY <1>19 DEF ScoringTInv
    <2> HIDE DEF r
    <2>3. \A g \in Handlers : req'[g] = req[g] \/ req'[g] = r
      BY <1>2, <2>1
    <2> QED BY <1>3, <1>4, <2>1, <2>2, <2>3 DEF ScoringTInv
  <1>20. ASSUME NEW h \in Handlers, RescoreLook(h) \/ ScoreAllLook(h) PROVE ScoringTInv'
    BY <1>19, <1>20 DEF RescoreLook, ScoreAllLook, Busy, ScoringOps
  <1> QED BY <1>7, <1>8, <1>9, <1>10, <1>11, <1>12, <1>13, <1>14, <1>15, <1>16, <1>17, <1>18, <1>20
          DEF ScoringNext, Rescore, ScoreAll, ApproveSuggestion, RejectSuggestion

\* The types are those of the component.
LEMMA ScoringTypes == ScoringTInv => ScoringTypeOK
  BY DEF ScoringTInv, RowsAreNumbered, ScoringIInv, ScoringShape, ScoringTypeOK

\* Where the thread of a session may be.
ThreadPlaces == {"new", "scheduled", "launching", "navigating", "acting", "ended"}

\* What a request is to write of what it has seen.
SeesStop(h) == req[h].op \in SyncedOps /\ req[h].holds => req[h].view.stop \in BOOLEAN

\* A session: the two invariants above, and the columns and the bound they leave out.
SessionTInv ==
    /\ LifeIInv
    /\ BookIInv
    /\ stopAsked \in BOOLEAN
    /\ page \in {"none", "open", "closed"}
    /\ thread \in ThreadPlaces
    /\ logged \in 0 .. MaxLog
    /\ \A h \in Handlers : SeesStop(h)

\* At the start there is no session.
LEMMA SessionTypesInitially == SessionInit => SessionTInv
  <1> SUFFICES ASSUME SessionInit PROVE SessionTInv
    OBVIOUS
  <1>1. \A h \in Handlers : SeesStop(h)
    BY DEF SessionInit, NoRequests, Idle, SeesStop, SyncedOps
  <1>2. logged \in 0 .. MaxLog
    BY SessionAssumption DEF SessionInit
  <1> QED BY <1>1, <1>2, LifeInitially, BookInitially DEF SessionInit, SessionTInv, ThreadPlaces

\* A request that begins sees a flag.
LEMMA SyncedSeesStop ==
  ASSUME SessionTInv, NEW h \in Handlers, NEW what, NEW c, BeginSynced(h, what, c)
  PROVE  /\ \A g \in Handlers : SeesStop(g)'
         /\ \A g \in Handlers : g # h => req'[g] = req[g]
  <1> DEFINE r == [op |-> what, conf |-> c, loaded |-> state, loadedStop |-> stopAsked,
                   view |-> Seen, used |-> logged, holds |-> Outdated]
  <1>1. req' = [req EXCEPT ![h] = r] /\ DOMAIN req = Handlers
    BY DEF BeginSynced, Begin, SessionTInv, LifeIInv
  <1>2. r.view = Seen
    OBVIOUS
  <1>3. Seen.stop \in BOOLEAN
    BY DEF Seen, SessionTInv, LifeIInv, SessionRow
  <1> HIDE DEF r
  <1>4. /\ req'[h] = r
        /\ \A g \in Handlers : g # h => req'[g] = req[g]
    BY <1>1
  <1> QED BY <1>2, <1>3, <1>4 DEF SeesStop, SessionTInv

\* Every step keeps the types.
LEMMA SessionTypeSteps == SessionTInv /\ [SessionNext]_sessionVars => SessionTInv'
  <1> SUFFICES ASSUME SessionTInv, [SessionNext]_sessionVars PROVE SessionTInv'
    OBVIOUS
  <1>1. LifeIInv' /\ BookIInv'
    BY LifeSteps, BookSteps DEF SessionTInv
  <1>2. /\ DOMAIN req = Handlers /\ \A h \in Handlers : SeesStop(h)
        /\ liveStop \in BOOLEAN /\ stopAsked \in BOOLEAN
    BY DEF SessionTInv, LifeIInv, SessionRow
  <1>3. ASSUME stopAsked' \in BOOLEAN, page' \in {page, "none", "open", "closed"},
               thread' \in ThreadPlaces \cup {thread}, logged' = logged \/ LogAction,
               \A g \in Handlers : SeesStop(g)'
        PROVE  SessionTInv'
    <2>1. logged' \in 0 .. MaxLog
      BY <1>3, SessionAssumption DEF LogAction, SessionTInv
    <2> QED BY <1>1, <1>3, <2>1 DEF SessionTInv
  <1>4. ASSUME req' = req PROVE \A g \in Handlers : SeesStop(g)'
    BY <1>2, <1>4 DEF SeesStop
  <1>5. ASSUME NEW h \in Handlers, End(h) \/ EndAndOvertake(h) PROVE \A g \in Handlers : SeesStop(g)'
    <2>1. \A g \in Handlers : req'[g] = req[g] \/ req'[g] = Idle
      BY <1>2, <1>5 DEF End, EndAndOvertake
    <2>2. Idle.op \notin SyncedOps
      BY DEF Idle, SyncedOps
    <2> QED BY <1>2, <2>1, <2>2 DEF SeesStop
  <1>6. ASSUME NEW h \in Handlers, NEW r, r.op \notin SyncedOps \/ ~r.holds, req' = [req EXCEPT ![h] = r]
        PROVE  \A g \in Handlers : SeesStop(g)'
    <2>1. \A g \in Handlers : req'[g] = req[g] \/ req'[g] = r
      BY <1>2, <1>6
    <2> QED BY <1>2, <1>6, <2>1 DEF SeesStop
  <1>7. ASSUME NEW h \in Handlers, req[h].op \in SyncedOps, KeepView(h) PROVE stopAsked' \in BOOLEAN
    <2>1. stopAsked' = stopAsked \/ (req[h].holds /\ stopAsked' = req[h].view.stop)
      BY <1>7 DEF KeepView
    <2>2. req[h].op \in SyncedOps /\ req[h].holds => req[h].view.stop \in BOOLEAN
      BY <1>2 DEF SeesStop
    <2>3. CASE stopAsked' = stopAsked
      BY <1>2, <2>3
    <2>4. CASE req[h].holds /\ stopAsked' = req[h].view.stop
      BY <1>7, <2>2, <2>4
    <2> QED BY <2>1, <2>3, <2>4
  <1>8. ASSUME NEW h \in Handlers, FollowRuntime(h) PROVE stopAsked' \in BOOLEAN
    BY <1>2, <1>8 DEF FollowRuntime
  <1>9. CASE RunSession
    <2>1. UNCHANGED <<stopAsked, logged, req>>
      BY <1>9 DEF RunSession, ThreadStarts, ThreadStops, Launched, LaunchFails, Navigated,
                  NavigationFails, Becomes, rowVars, logVars, requestVars
    <2>2. /\ page' \in {page, "none", "open", "closed"}
          /\ thread' \in ThreadPlaces
      BY <1>9 DEF RunSession, ThreadStarts, ThreadStops, Launched, LaunchFails, Navigated,
                  NavigationFails, ThreadPlaces
    <2> QED BY <1>2, <1>3, <1>4, <2>1, <2>2
  <1>10. CASE Restart
    <2>1. /\ UNCHANGED <<stopAsked, logged>> /\ page' = "none" /\ thread' = "ended"
          /\ req' = [h \in Handlers |-> Idle]
      BY <1>10 DEF Restart, rowVars, logVars
    <2>2. \A g \in Handlers : SeesStop(g)'
      BY <2>1 DEF SeesStop, Idle, SyncedOps
    <2> QED BY <1>2, <1>3, <2>1, <2>2 DEF ThreadPlaces
  <1>11. ASSUME NEW c \in Confirmations, ConfirmationLapses(c) PROVE SessionTInv'
    BY <1>2, <1>3, <1>4, <1>11 DEF ConfirmationLapses, rowVars, liveVars, requestVars
  <1>12. CASE UNCHANGED sessionVars
    BY <1>2, <1>3, <1>4, <1>12 DEF sessionVars, rowVars, liveVars, logVars, requestVars
  <1>13. ASSUME NEW h \in Handlers, OpenSession(h) PROVE SessionTInv'
    <2>1. CASE CreateRead(h)
      <3> DEFINE r == [op |-> "open", holds |-> TRUE]
      <3>1. /\ req' = [req EXCEPT ![h] = r] /\ thread' = "scheduled"
            /\ UNCHANGED <<stopAsked, page, logged>>
        BY <2>1 DEF CreateRead, Begin, rowVars, logVars
      <3>2. r.op \notin SyncedOps
        BY DEF SyncedOps
      <3> HIDE DEF r
      <3> QED BY <1>2, <1>3, <1>6, <3>1, <3>2 DEF ThreadPlaces
    <2>2. CASE CreateCommit(h)
      BY <1>2, <1>3, <1>5, <2>2 DEF CreateCommit, liveVars, logVars
    <2> QED BY <1>13, <2>1, <2>2 DEF OpenSession
  <1>14. ASSUME NEW h \in Handlers, NEW what, NEW c, BeginSynced(h, what, c),
                UNCHANGED <<rowVars, liveVars, logVars, sessionHistory>>
         PROVE  SessionTInv'
    BY <1>2, <1>3, <1>14, SyncedSeesStop DEF rowVars, liveVars, logVars
  <1>15. ASSUME NEW h \in Handlers, GetStatus(h) PROVE SessionTInv'
    <2>1. CASE Busy(h, "status") /\ KeepView(h) /\ End(h)
               /\ UNCHANGED <<liveVars, logVars, sessionHistory>>
      <3>1. stopAsked' \in BOOLEAN
        BY <1>7, <2>1 DEF Busy, SyncedOps
      <3> QED BY <1>3, <1>5, <2>1, <3>1 DEF liveVars, logVars
    <2> QED BY <1>14, <1>15, <2>1 DEF GetStatus
  <1>16. ASSUME NEW h \in Handlers, StopSession(h) PROVE SessionTInv'
    <2>1. CASE StopRead(h)
      <3> DEFINE r == [op |-> "stop", holds |-> FALSE]
      <3>1. /\ req' = [req EXCEPT ![h] = r] /\ UNCHANGED <<stopAsked, page, thread, logged>>
        BY <2>1 DEF StopRead, Begin, rowVars, liveVars, logVars
      <3>2. r.op \notin SyncedOps
        BY DEF SyncedOps
      <3> HIDE DEF r
      <3> QED BY <1>2, <1>3, <1>6, <3>1, <3>2
    <2>2. CASE StopUnknown(h) \/ StopEnded(h) \/ StopDone(h)
      <3>1. /\ End(h) /\ stopAsked' = TRUE /\ UNCHANGED <<page, thread, logged>>
        BY <2>2 DEF StopUnknown, StopEnded, StopDone, liveVars, logVars
      <3> QED BY <1>3, <1>5, <3>1
    <2>3. CASE StopMark(h)
      <3> DEFINE r == [op |-> "close", holds |-> TRUE]
      <3>1. /\ req' = [req EXCEPT ![h] = r] /\ UNCHANGED <<stopAsked, page, thread, logged>>
        BY <2>3 DEF StopMark, rowVars, logVars
      <3>2. r.op \notin SyncedOps
        BY DEF SyncedOps
      <3> HIDE DEF r
      <3> QED BY <1>2, <1>3, <1>6, <3>1, <3>2
    <2>4. CASE StopClose(h)
      <3>1. /\ req' = [req EXCEPT ![h] = [req[h] EXCEPT !.op = "stopped"]] /\ page' = "none"
            /\ UNCHANGED <<stopAsked, thread, logged>>
        BY <2>4 DEF StopClose, rowVars, logVars
      <3>2. req[h] = [op |-> "close", holds |-> TRUE]
        BY <2>4 DEF StopClose, Busy, SessionTInv, LifeIInv, Informed
      <3> DEFINE r == [req[h] EXCEPT !.op = "stopped"]
      <3>3. r.op \notin SyncedOps
        BY <3>2 DEF SyncedOps
      <3>4. req' = [req EXCEPT ![h] = r]
        BY <3>1
      <3> HIDE DEF r
      <3> QED BY <1>2, <1>3, <1>6, <3>1, <3>3, <3>4
    <2> QED BY <1>16, <2>1, <2>2, <2>3, <2>4 DEF StopSession
  <1>17. ASSUME NEW h \in Handlers, ExecuteReadOnly(h) PROVE SessionTInv'
    <2>1. CASE ActRefused(h)
      <3>1. /\ req[h].op \in SyncedOps /\ KeepView(h) /\ EndAndOvertake(h) /\ LogAction
            /\ UNCHANGED <<page, thread>>
        BY <2>1 DEF ActRefused, Busy, SyncedOps, CommitDecision, liveVars
      <3> QED BY <1>3, <1>5, <1>7, <3>1
    <2>2. CASE ActRun(h)
      <3>1. /\ FollowRuntime(h) /\ EndAndOvertake(h) /\ LogAction /\ UNCHANGED <<page, thread>>
        BY <2>2 DEF ActRun, CommitDecision
      <3> QED BY <1>3, <1>5, <1>8, <3>1
    <2>3. CASE ActLost(h)
      BY <1>2, <1>3, <1>5, <2>3 DEF ActLost, rowVars, logVars
    <2> QED BY <1>14, <1>17, <2>1, <2>2, <2>3 DEF ExecuteReadOnly, ActRead
  <1>18. ASSUME NEW h \in Handlers, RequestConfirmation(h) PROVE SessionTInv'
    <2>1. ASSUME NEW c \in Confirmations, AskWrite(h, c) PROVE SessionTInv'
      <3>1. /\ req[h].op \in SyncedOps /\ KeepView(h) /\ EndAndOvertake(h) /\ LogAction
            /\ UNCHANGED <<page, thread>>
        BY <2>1 DEF AskWrite, Busy, SyncedOps, CommitDecision, liveVars
      <3> QED BY <1>3, <1>5, <1>7, <3>1
    <2> QED BY <1>14, <1>18, <2>1 DEF RequestConfirmation, AskRead
  <1>19. ASSUME NEW h \in Handlers, NEW c \in Confirmations, CancelRead(h, c) PROVE SessionTInv'
    <2> DEFINE r == [op |-> IF lapsed[c] THEN "expire" ELSE "cancel", conf |-> {c}, holds |-> FALSE]
    <2>1. /\ req' = [req EXCEPT ![h] = r] /\ UNCHANGED <<stopAsked, page, thread, logged>>
      BY <1>19 DEF CancelRead, Begin, rowVars, liveVars, logVars
    <2>2. ~r.holds
      OBVIOUS
    <2> HIDE DEF r
    <2> QED BY <1>2, <1>3, <1>6, <2>1, <2>2
  <1>20. ASSUME NEW h \in Handlers, DecideConfirmation(h) PROVE SessionTInv'
    <2>1. CASE ExpireWrite(h) \/ ConfirmBlocked(h)
      <3>1. /\ req[h].op \in SyncedOps /\ KeepView(h) /\ EndAndOvertake(h)
            /\ UNCHANGED <<page, thread, logged>>
        BY <2>1 DEF ExpireWrite, ConfirmBlocked, Busy, SyncedOps, CommitDecision, liveVars
      <3> QED BY <1>3, <1>5, <1>7, <3>1
    <2>2. CASE CancelWrite(h)
      <3>1. /\ EndAndOvertake(h) /\ LogAction /\ UNCHANGED <<stopAsked, page, thread>>
        BY <2>2 DEF CancelWrite, CommitDecision, rowVars, liveVars
      <3> QED BY <1>2, <1>3, <1>5, <3>1
    <2>3. CASE ConfirmWrite(h)
      <3>1. /\ FollowRuntime(h) /\ EndAndOvertake(h) /\ LogAction /\ UNCHANGED <<page, thread>>
        BY <2>3 DEF ConfirmWrite, CommitDecision, liveVars
      <3> QED BY <1>3, <1>5, <1>8, <3>1
    <2>4. CASE ConfirmLost(h)
      BY <1>2, <1>3, <1>5, <2>4 DEF ConfirmLost, rowVars, liveVars, logVars
    <2>5. ASSUME NEW c \in Confirmations, ConfirmRead(h, c) PROVE SessionTInv'
      BY <1>14, <2>5 DEF ConfirmRead
    <2> QED BY <1>19, <1>20, <2>1, <2>2, <2>3, <2>4, <2>5 DEF DecideConfirmation
  <1>21. ASSUME NEW h \in Handlers, SessionRequestLost(h) PROVE SessionTInv'
    BY <1>2, <1>3, <1>5, <1>21 DEF SessionRequestLost, Lost, rowVars, liveVars, logVars
  <1> QED BY <1>9, <1>10, <1>11, <1>12, <1>13, <1>15, <1>16, <1>17, <1>18, <1>20, <1>21
          DEF SessionNext

\* The types are those of the component.
LEMMA SessionTypes == SessionTInv => SessionTypeOK
  BY DEF SessionTInv, LifeIInv, SessionRow, BookIInv, BookShape, SessionTypeOK, ThreadPlaces,
         ConfirmationStates

\* Captures: the invariant above and the flags it leaves out.
CaptureTInv ==
    /\ CaptureIInv
    /\ overdue \in [Artifacts -> BOOLEAN]
    /\ debug \in BOOLEAN
    /\ \A h \in Handlers : req[h].op = "capture" => req[h].debug \in BOOLEAN

\* At the start nothing is captured.
LEMMA CaptureTypesInitially == ArtifactInit => CaptureTInv
  <1> SUFFICES ASSUME ArtifactInit PROVE CaptureTInv
    OBVIOUS
  <1>1. overdue \in [Artifacts -> BOOLEAN] /\ debug \in BOOLEAN
    BY DEF ArtifactInit
  <1>2. \A h \in Handlers : req[h].op # "capture"
    BY DEF ArtifactInit, NoRequests, Idle
  <1> QED BY <1>1, <1>2, CaptureInitially DEF CaptureTInv

\* Every step keeps the types.
LEMMA CaptureTypeSteps == CaptureTInv /\ [ArtifactNext]_artifactVars => CaptureTInv'
  <1> SUFFICES ASSUME CaptureTInv, [ArtifactNext]_artifactVars PROVE CaptureTInv'
    OBVIOUS
  <1>1. CaptureIInv'
    BY CaptureSteps DEF CaptureTInv
  <1>2. DOMAIN req = Handlers
    BY DEF CaptureTInv, CaptureIInv
  <1>3. CASE UNCHANGED artifactVars
    BY <1>1, <1>3 DEF artifactVars, requestVars, CaptureTInv
  <1>4. ASSUME NEW a \in Artifacts, ArtifactElapses(a) PROVE CaptureTInv'
    BY <1>1, <1>4 DEF ArtifactElapses, requestVars, CaptureTInv
  <1>5. ASSUME NEW h \in Handlers, NEW w, NEW on \in BOOLEAN, BeginCapture(h, w, on)
        PROVE  CaptureTInv'
    <2> DEFINE r == [op |-> "capture", holds |-> TRUE, wanted |-> w, left |-> w, debug |-> on]
    <2>1. req' = [req EXCEPT ![h] = r] /\ UNCHANGED <<overdue, debug>>
      BY <1>5 DEF BeginCapture, Begin
    <2>2. r.debug \in BOOLEAN
      OBVIOUS
    <2> HIDE DEF r
    <2>3. \A g \in Handlers : req'[g] = req[g] \/ req'[g] = r
      BY <1>2, <2>1
    <2> QED BY <1>1, <2>1, <2>2, <2>3 DEF CaptureTInv
  <1>6. ASSUME NEW h \in Handlers, NEW a \in Artifacts, PersistArtifact(h, a) PROVE CaptureTInv'
    <2>1. /\ req' = [req EXCEPT ![h] = [req[h] EXCEPT !.left = req[h].left \ {a}]]
          /\ UNCHANGED <<overdue, debug>>
      BY <1>6 DEF PersistArtifact
    <2>2. /\ req'[h] = [req[h] EXCEPT !.left = req[h].left \ {a}]
          /\ \A g \in Handlers : g # h => req'[g] = req[g]
      BY <1>2, <2>1
    <2>3. req'[h].debug = req[h].debug /\ req'[h].op = req[h].op
      BY <2>2
    <2> QED BY <1>1, <2>1, <2>2, <2>3 DEF CaptureTInv
  <1>7. ASSUME NEW h \in Handlers, req' = [req EXCEPT ![h] = Idle], overdue' = overdue,
               debug' \in BOOLEAN
        PROVE  CaptureTInv'
    <2>1. \A g \in Handlers : req'[g] = req[g] \/ req'[g].op = "idle"
      BY <1>2, <1>7 DEF Idle
    <2> QED BY <1>1, <1>7, <2>1 DEF CaptureTInv
  <1>8. ASSUME NEW h \in Handlers, CaptureCommit(h) PROVE CaptureTInv'
    <2>1. debug' \in BOOLEAN
      BY <1>8 DEF CaptureCommit, Busy, CaptureTInv
    <2> QED BY <1>7, <1>8, <2>1 DEF CaptureCommit, End
  <1>9. ASSUME NEW h \in Handlers, CaptureLost(h) PROVE CaptureTInv'
    <2>1. debug' \in BOOLEAN
      BY <1>9 DEF CaptureLost, CaptureTInv
    <2> QED BY <1>7, <1>9, <2>1 DEF CaptureLost, Lost, End
  <1>10. ASSUME NEW h \in Handlers, DisableDebug(h) \/ ListArtifacts(h) PROVE CaptureTInv'
    BY <1>1, <1>10 DEF DisableDebug, ListArtifacts, requestVars, CaptureTInv
  <1> QED BY <1>3, <1>4, <1>5, <1>6, <1>8, <1>9, <1>10
          DEF ArtifactNext, CaptureScreenshot, EnableDebug

\* A profile: the invariant above and the columns it leaves out.
ProfileTInv == ProfileIInv /\ elapsed \in BOOLEAN /\ lastUsed \in BOOLEAN

\* At the start there is no profile.
LEMMA ProfileTypesInitially == ProfileInit => ProfileTInv
  BY ProfileInitially DEF ProfileInit, ProfileTInv

\* Every step keeps the types.
LEMMA ProfileTypeSteps == ProfileTInv /\ [ProfileNext]_profileVars => ProfileTInv'
  <1> SUFFICES ASSUME ProfileTInv, [ProfileNext]_profileVars PROVE ProfileTInv'
    OBVIOUS
  <1>1. ProfileIInv'
    BY ProfileSteps DEF ProfileTInv
  <1>2. elapsed' \in {elapsed, TRUE, FALSE} /\ lastUsed' \in {lastUsed, TRUE}
    BY DEF ProfileNext, profileVars, profileRow, CreateProfile, LaunchWithProfile, ProfileElapses,
           LockProfile, LockWrite, RenewProfile, RenewRead, RenewWrite, ExpireProfile,
           ExpireProfileWrite, DeleteProfile, DeleteWrite, RecordConsent, GrantConsentWrite,
           RevokeConsentWrite, StoreMaterial, StoreMaterialWrite, LoadProfile
  <1> QED BY <1>1, <1>2 DEF ProfileTInv

\* A capture's values are among them.
LEMMA CaptureTypes == CaptureTInv => ArtifactTypeOK
  BY DEF CaptureTInv, CaptureIInv, ArtifactTypeOK

\* So are a profile's.
LEMMA ProfileTypes == ProfileTInv => ProfileTypeOK
  BY DEF ProfileTInv, ProfileIInv, ProfileShape, Consents, ProfileTypeOK

\* A policy: the invariant above and the bounds of what it counts.
PolicyTInv ==
    /\ PolicyIInv
    /\ purpose \in 0 .. MaxPurposes
    /\ killSwitch \in BOOLEAN
    /\ twoRows \in BOOLEAN
    /\ ownerSaw \in 0 .. MaxPurposes
    /\ complianceSaw \in 0 .. MaxPurposes
    /\ withdrawn \in 0 .. MaxPurposes
    /\ \A h \in Handlers : req[h].op \in PolicyOps => req[h].purpose \in 0 .. MaxPurposes

\* At the start nothing is requested.
LEMMA PolicyTypesInitially == PolicyInit => PolicyTInv
  <1> SUFFICES ASSUME PolicyInit PROVE PolicyTInv
    OBVIOUS
  <1>1. 0 \in 0 .. MaxPurposes
    BY PurposesAssumption
  <1>2. \A h \in Handlers : req[h].op \notin PolicyOps
    BY DEF PolicyInit, NoRequests, Idle, PolicyOps
  <1> QED BY <1>1, <1>2, PolicyInitially DEF PolicyInit, PolicyTInv

\* Every step keeps the types.
LEMMA PolicyTypeSteps == PolicyTInv /\ [PolicyNext]_policyVars => PolicyTInv'
  <1> SUFFICES ASSUME PolicyTInv, [PolicyNext]_policyVars PROVE PolicyTInv'
    OBVIOUS
  <1>1. PolicyIInv'
    BY PolicySteps DEF PolicyTInv
  <1>2. DOMAIN req = Handlers
    BY DEF PolicyTInv, PolicyIInv, PolicyShape
  <1>3. CASE SetKillSwitch \/ UNCHANGED policyVars
    <2>1. /\ UNCHANGED <<purpose, twoRows, ownerSaw, complianceSaw, withdrawn, req>>
          /\ killSwitch' \in BOOLEAN
      BY <1>3 DEF SetKillSwitch, policyVars, policyRow, policyHistory, requestVars, PolicyTInv
    <2> QED BY <1>1, <2>1 DEF PolicyTInv
  <1>4. ASSUME NEW h \in Handlers, NEW op \in PolicyOps, LoadPolicy(h, op),
               UNCHANGED <<policyRow, pinMatches, killSwitch, policyHistory>>
        PROVE  PolicyTInv'
    <2> DEFINE r == [op |-> op, purpose |-> purpose, revoked |-> revoked,
                     owner |-> ownerOk, compliance |-> complianceOk]
    <2>1. req' = [req EXCEPT ![h] = r]
      BY <1>4 DEF LoadPolicy, Begin
    <2>2. r.purpose = purpose
      OBVIOUS
    <2> HIDE DEF r
    <2>3. \A g \in Handlers : req'[g] = req[g] \/ req'[g].purpose = purpose
      BY <1>2, <2>1, <2>2
    <2> QED BY <1>1, <1>4, <2>3 DEF PolicyTInv, policyRow, policyHistory
  <1>5. ASSUME NEW h \in Handlers, req'[h] = Idle, DOMAIN req' = Handlers,
               \A g \in Handlers : g # h => req'[g] = req[g],
               purpose' \in 0 .. MaxPurposes, killSwitch' = killSwitch, twoRows' \in BOOLEAN,
               ownerSaw' \in 0 .. MaxPurposes, complianceSaw' \in 0 .. MaxPurposes,
               withdrawn' \in 0 .. MaxPurposes
        PROVE  PolicyTInv'
    <2>1. \A g \in Handlers : req'[g] = req[g] \/ req'[g].op \notin PolicyOps
      BY <1>5 DEF Idle, PolicyOps
    <2> QED BY <1>1, <1>5, <2>1 DEF PolicyTInv
  <1>6. ASSUME NEW h \in Handlers, CommitPolicy(h)
        PROVE  /\ req'[h] = Idle /\ DOMAIN req' = Handlers
               /\ \A g \in Handlers : g # h => req'[g] = req[g]
    BY <1>2, <1>6 DEF CommitPolicy, EndAndOvertake
  <1>7. ASSUME NEW h \in Handlers, UpsertRequest(h) PROVE PolicyTInv'
    <2>1. purpose' \in 0 .. MaxPurposes
      BY <1>7, PurposesAssumption DEF UpsertRequest, PolicyTInv
    <2>2. /\ CommitPolicy(h) /\ twoRows' \in BOOLEAN
          /\ UNCHANGED <<killSwitch, ownerSaw, complianceSaw, withdrawn>>
      BY <1>7 DEF UpsertRequest
    <2> QED BY <1>5, <1>6, <2>1, <2>2 DEF PolicyTInv
  <1>8. ASSUME NEW h \in Handlers, OwnerApproval(h) \/ ComplianceApproval(h) \/ RevokeWrite(h)
        PROVE  PolicyTInv'
    <2>1. req[h].op \in PolicyOps /\ CommitPolicy(h) /\ UNCHANGED <<purpose, twoRows, killSwitch>>
      BY <1>8 DEF OwnerApproval, ComplianceApproval, RevokeWrite, Busy, PolicyOps
    <2>2. /\ ownerSaw' \in {ownerSaw, req[h].purpose}
          /\ complianceSaw' \in {complianceSaw, req[h].purpose}
          /\ withdrawn' \in {withdrawn, purpose}
      BY <1>8 DEF OwnerApproval, ComplianceApproval, RevokeWrite
    <2> QED BY <1>5, <1>6, <2>1, <2>2 DEF PolicyTInv
  <1>9. ASSUME NEW h \in Handlers, Lost(h),
               UNCHANGED <<policyRow, pinMatches, killSwitch, policyHistory>>
        PROVE  PolicyTInv'
    <2>1. /\ req'[h] = Idle /\ DOMAIN req' = Handlers
          /\ \A g \in Handlers : g # h => req'[g] = req[g]
      BY <1>2, <1>9 DEF Lost, End
    <2> QED BY <1>5, <1>9, <2>1 DEF policyRow, policyHistory, PolicyTInv
  <1>10. ASSUME NEW h \in Handlers,
                \/ RequestEnablement(h) \/ ApproveOwnerAdmin(h) \/ ApproveCompliance(h)
                \/ RevokePolicy(h)
         PROVE  PolicyTInv'
    BY <1>4, <1>7, <1>8, <1>10 DEF RequestEnablement, ApproveOwnerAdmin, ApproveCompliance,
       RevokePolicy, RequirePolicy, PolicyOps
  <1> QED BY <1>3, <1>9, <1>10 DEF PolicyNext

\* A policy's values are among them.
LEMMA PolicyTypes == PolicyTInv => PolicyTypeOK
  BY DEF PolicyTInv, PolicyIInv, PolicyShape, PolicyTypeOK

\* The component that runs keeps its own.
ReviewTInv ==
    /\ part \in Parts
    /\ part = "content" => ContentTInv
    /\ part = "leads" => LeadTInv
    /\ part = "watchlist" => WatchIInv
    /\ part = "calendar" => TokenTInv
    /\ part = "scoring" => ScoringTInv
    /\ part = "session" => SessionTInv
    /\ part = "profile" => ProfileTInv
    /\ part = "cloak" => PolicyTInv
    /\ part = "artifacts" => CaptureTInv

\* Each component starts right.
LEMMA ReviewTypesInitially == ReviewInit => ReviewTInv
  BY ContentTypesInitially, LeadTypesInitially, WatchInitially, TokenTypesInitially,
     ScoringTypesInitially, SessionTypesInitially, ProfileTypesInitially, PolicyTypesInitially,
     CaptureTypesInitially
     DEF ReviewInit, ReviewTInv

\* A step is one of the component that runs.
LEMMA ReviewTypeSteps == ReviewTInv /\ [ReviewNext]_reviewVars => ReviewTInv'
  <1> SUFFICES ASSUME ReviewTInv, [ReviewNext]_reviewVars PROVE ReviewTInv'
    OBVIOUS
  <1>1. part' = part
    BY DEF ReviewNext, reviewVars, Alone
  <1>2. UNCHANGED reviewVars =>
            UNCHANGED <<contentVars, leadsVars, watchlistVars, calendarVars, scoringVars,
                        sessionVars, profileVars, policyVars, artifactVars>>
    BY DEF reviewVars
  <1>3. CASE part = "content"
    <2>1. ContentTInv /\ [ContentNext]_contentVars
      BY <1>2, <1>3 DEF ReviewTInv, ReviewNext
    <2>2. ContentTInv'
      BY <2>1, ContentTypeSteps
    <2> QED BY <1>1, <1>3, <2>2 DEF ReviewTInv
  <1>4. CASE part = "leads"
    <2>1. LeadTInv /\ [LeadsNext]_leadsVars
      BY <1>2, <1>4 DEF ReviewTInv, ReviewNext
    <2>2. LeadTInv'
      BY <2>1, LeadTypeSteps
    <2> QED BY <1>1, <1>4, <2>2 DEF ReviewTInv
  <1>5. CASE part = "watchlist"
    <2>1. WatchIInv /\ [WatchlistNext]_watchlistVars
      BY <1>2, <1>5 DEF ReviewTInv, ReviewNext
    <2>2. WatchIInv'
      BY <2>1, WatchSteps
    <2> QED BY <1>1, <1>5, <2>2 DEF ReviewTInv
  <1>6. CASE part = "calendar"
    <2>1. TokenTInv /\ [CalendarNext]_calendarVars
      BY <1>2, <1>6 DEF ReviewTInv, ReviewNext
    <2>2. TokenTInv'
      BY <2>1, TokenTypeSteps
    <2> QED BY <1>1, <1>6, <2>2 DEF ReviewTInv
  <1>7. CASE part = "scoring"
    <2>1. ScoringTInv /\ [ScoringNext]_scoringVars
      BY <1>2, <1>7 DEF ReviewTInv, ReviewNext
    <2>2. ScoringTInv'
      BY <2>1, ScoringTypeSteps
    <2> QED BY <1>1, <1>7, <2>2 DEF ReviewTInv
  <1>8. CASE part = "session"
    <2>1. SessionTInv /\ [SessionNext]_sessionVars
      BY <1>2, <1>8 DEF ReviewTInv, ReviewNext
    <2>2. SessionTInv'
      BY <2>1, SessionTypeSteps
    <2> QED BY <1>1, <1>8, <2>2 DEF ReviewTInv
  <1>9. CASE part = "profile"
    <2>1. ProfileTInv /\ [ProfileNext]_profileVars
      BY <1>2, <1>9 DEF ReviewTInv, ReviewNext
    <2>2. ProfileTInv'
      BY <2>1, ProfileTypeSteps
    <2> QED BY <1>1, <1>9, <2>2 DEF ReviewTInv
  <1>10. CASE part = "cloak"
    <2>1. PolicyTInv /\ [PolicyNext]_policyVars
      BY <1>2, <1>10 DEF ReviewTInv, ReviewNext
    <2>2. PolicyTInv'
      BY <2>1, PolicyTypeSteps
    <2> QED BY <1>1, <1>10, <2>2 DEF ReviewTInv
  <1>11. CASE part = "artifacts"
    <2>1. CaptureTInv /\ [ArtifactNext]_artifactVars
      BY <1>2, <1>11 DEF ReviewTInv, ReviewNext
    <2>2. CaptureTInv'
      BY <2>1, CaptureTypeSteps
    <2> QED BY <1>1, <1>11, <2>2 DEF ReviewTInv
  <1> QED BY <1>3, <1>4, <1>5, <1>6, <1>7, <1>8, <1>9, <1>10, <1>11 DEF ReviewTInv, Parts

\* Every variable of the component that runs has its values (ContentService,
\* LeadService, ReminderService, EventWatchlistService, CalendarExportService,
\* ScoringService, ScoringSuggestionService, BrowserSessionService,
\* BrowserProfileService, CloakBrowserPolicyService, BrowserDebugArtifactService).
THEOREM ReviewTypesHold == ReviewSpec => []ReviewTypeOK
  <1>1. ReviewTInv => ReviewTypeOK
    <2> SUFFICES ASSUME ReviewTInv PROVE ReviewTypeOK
      OBVIOUS
    <2>1. part = "content" => ContentTypeOK
      BY ContentTypes DEF ReviewTInv
    <2>2. part = "leads" => LeadsTypeOK
      BY LeadTypes DEF ReviewTInv
    <2>3. part = "watchlist" => WatchlistTypeOK
      BY DEF ReviewTInv, WatchIInv
    <2>4. part = "calendar" => CalendarTypeOK
      BY TokenTypes DEF ReviewTInv
    <2>5. part = "scoring" => ScoringTypeOK
      BY ScoringTypes DEF ReviewTInv
    <2>6. part = "session" => SessionTypeOK
      BY SessionTypes DEF ReviewTInv
    <2>7. part = "profile" => ProfileTypeOK
      BY ProfileTypes DEF ReviewTInv
    <2>8. part = "cloak" => PolicyTypeOK
      BY PolicyTypes DEF ReviewTInv
    <2>9. part = "artifacts" => ArtifactTypeOK
      BY CaptureTypes DEF ReviewTInv
    <2> QED BY <2>1, <2>2, <2>3, <2>4, <2>5, <2>6, <2>7, <2>8, <2>9
           DEF ReviewTInv, ReviewTypeOK, Parts
  <1> QED BY <1>1, ReviewTypesInitially, ReviewTypeSteps, PTL DEF ReviewSpec

=============================================================================
