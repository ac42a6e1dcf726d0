----------------------------- MODULE AccessProofs -----------------------------
(***************************************************************************)
(* Proofs about who gets in: the login limiter for every threshold and     *)
(* number of requests, and the governance of members for every set of      *)
(* users, roles, invitations and requests.                                 *)
(***************************************************************************)
EXTENDS LoginLimit, Membership, FiniteSetTheorems, TLAPS

-----------------------------------------------------------------------------
(* The limiter.                                                              *)

\* The requests that have passed the limiter's check and not yet failed.
Past == {l \in Logins : login[l] \in {"checked", "read"}}

\* A window is left before it is full; wrong passwords are in the window until it
\* locks the key, and from then on can only come from those past the check.
Counts ==
    /\ window < Threshold
    /\ ~held => guesses <= window
    /\ held => guesses + Cardinality(Past) <= Threshold + Cardinality(Logins) - 1

LimiterIInv == LoginTypeOK /\ Counts

\* The failed logins of the window are finitely many.
LEMMA PastIsFinite ==
    /\ IsFiniteSet(Past) /\ Cardinality(Past) \in Nat
    /\ Cardinality(Logins) \in Nat
    /\ Cardinality(Past) <= Cardinality(Logins)
<1>1. Past \subseteq Logins /\ IsFiniteSet(Logins)
    BY LoginAssumption DEF Past
<1> QED
    BY <1>1, FS_Subset, FS_CardinalityType

\* A request that leaves takes one away, and nobody comes when the key is locked.
LEMMA PastShrinks ==
    ASSUME Past' \subseteq Past
    PROVE  /\ Cardinality(Past') \in Nat
           /\ Cardinality(Past') <= Cardinality(Past)
           /\ \A l \in Past : l \notin Past' => Cardinality(Past') <= Cardinality(Past) - 1
<1>1. IsFiniteSet(Past)
    BY PastIsFinite
<1>2. Cardinality(Past') \in Nat /\ Cardinality(Past') <= Cardinality(Past)
    BY <1>1, FS_Subset, FS_CardinalityType
<1>3. ASSUME NEW l \in Past, l \notin Past' PROVE Cardinality(Past') <= Cardinality(Past) - 1
    <2>1. Past' \subseteq Past \ {l}
        BY <1>3
    <2>2. IsFiniteSet(Past \ {l}) /\ Cardinality(Past \ {l}) = Cardinality(Past) - 1
        BY <1>1, <1>3, FS_RemoveElement
    <2> QED
        BY <2>1, <2>2, FS_Subset
<1> QED
    BY <1>2, <1>3

\* At the start nobody has tried to log in.
LEMMA LimiterInit == LoginInit => LimiterIInv
<1> SUFFICES ASSUME LoginInit PROVE LimiterIInv
    OBVIOUS
<1>1. LoginTypeOK
    <2>1. window \in 0 .. Threshold /\ guesses \in Nat
        BY LoginAssumption DEF LoginInit
    <2> QED
        BY <2>1 DEF LoginInit, LoginTypeOK
<1>2. Counts
    BY LoginAssumption DEF LoginInit, Counts
<1> QED
    BY <1>1, <1>2 DEF LimiterIInv

\* A failure is recorded and its request leaves or goes on to lock the row.
LEMMA LimiterFails ==
    ASSUME LimiterIInv, NEW l \in Logins, LoginFails(l) \/ LoginRefused(l)
    PROVE  LimiterIInv'
<1>1. PICK next \in {"idle", "locking"} : login' = [login EXCEPT ![l] = next]
    BY DEF LoginFails, LoginRefused
<1>2. login \in [Logins -> {"idle", "checked", "read", "locking"}] /\ login[l] \in {"checked", "read"}
    BY DEF LoginFails, LoginRefused, LimiterIInv, LoginTypeOK
<1>3. \A x \in Logins : login'[x] = IF x = l THEN next ELSE login[x]
    BY <1>1, <1>2
<1>4. Past' \subseteq Past /\ l \in Past /\ l \notin Past'
    BY <1>2, <1>3 DEF Past
<1>5. /\ guesses' = guesses + 1 /\ RecordFailure
      /\ UNCHANGED <<lockedUntil, wrong>>
    BY DEF LoginFails, LoginRefused
<1>6. LoginTypeOK' /\ window' < Threshold
    <2>1. login' \in [Logins -> {"idle", "checked", "read", "locking"}]
        BY <1>1, <1>2
    <2>2. window' \in 0 .. Threshold /\ window' < Threshold
        BY <1>5, LoginAssumption DEF RecordFailure, FailuresLock, LimiterIInv, LoginTypeOK, Counts
    <2>3. held' \in BOOLEAN /\ guesses' \in Nat
        BY <1>5 DEF RecordFailure, LimiterIInv, LoginTypeOK
    <2> QED
        BY <1>5, <2>1, <2>2, <2>3 DEF LoginTypeOK, LimiterIInv
<1>7. ASSUME ~held' PROVE guesses' <= window'
    <2>1. ~held /\ ~FailuresLock(window + 1)
        BY <1>5, <1>7 DEF RecordFailure
    <2>2. window' = window + 1 /\ guesses <= window
        BY <1>5, <2>1 DEF RecordFailure, LimiterIInv, Counts
    <2> QED
        BY <1>5, <2>2 DEF LimiterIInv, LoginTypeOK
<1>8. ASSUME held' PROVE guesses' + Cardinality(Past') <= Threshold + Cardinality(Logins) - 1
    <2>1. Cardinality(Past') <= Cardinality(Past) - 1 /\ Cardinality(Past') \in Nat
        BY <1>4, PastShrinks
    <2>2. guesses + Cardinality(Past) <= Threshold + Cardinality(Logins) - 1
        <3>1. CASE held
            BY <3>1 DEF LimiterIInv, Counts
        <3>2. CASE ~held
            <4>1. guesses <= window /\ window < Threshold /\ guesses \in Nat /\ window \in Nat
                BY <3>2 DEF LimiterIInv, Counts, LoginTypeOK
            <4> QED
                BY <4>1, PastIsFinite, LoginAssumption
        <3> QED
            BY <3>1, <3>2
    <2>3. guesses' = guesses + 1 /\ guesses \in Nat
        BY <1>5 DEF LimiterIInv, LoginTypeOK
    <2> QED
        BY <2>1, <2>2, <2>3, PastIsFinite, LoginAssumption
<1> QED
    BY <1>6, <1>7, <1>8 DEF LimiterIInv, Counts

\* A step that fails nobody keeps the counts if it keeps their relation.
LEMMA CountsKept ==
    ASSUME LimiterIInv, Past' \subseteq Past, UNCHANGED <<window, held, guesses>>
    PROVE  Counts'
<1>1. Cardinality(Past') <= Cardinality(Past) /\ Cardinality(Past') \in Nat
    BY PastShrinks
<1>2. held => guesses + Cardinality(Past') <= Threshold + Cardinality(Logins) - 1
    BY <1>1, PastIsFinite, LoginAssumption DEF LimiterIInv, Counts, LoginTypeOK
<1> QED
    BY <1>2 DEF LimiterIInv, Counts

\* Every login, and the passing of time, keeps it.
LEMMA LimiterNext == LimiterIInv /\ [LoginNext]_loginVars => LimiterIInv'
<1> SUFFICES ASSUME LimiterIInv, [LoginNext]_loginVars PROVE LimiterIInv'
    OBVIOUS
<1>1. ASSUME NEW l \in Logins, NEW isWrong \in BOOLEAN, LoginCheck(l, isWrong) PROVE LimiterIInv'
    <2>1. LoginTypeOK'
        BY <1>1 DEF LoginCheck, LimiterIInv, LoginTypeOK
    <2>2. ~held' /\ UNCHANGED <<window, held, guesses>>
        BY <1>1 DEF LoginCheck, Allowed
    <2>3. Counts'
        BY <2>2 DEF LimiterIInv, Counts
    <2> QED
        BY <2>1, <2>3 DEF LimiterIInv
<1>2. ASSUME NEW l \in Logins, LoginReadUser(l) \/ SetLocked(l) PROVE LimiterIInv'
    <2>1. LoginTypeOK'
        BY <1>2 DEF LoginReadUser, SetLocked, LimiterIInv, LoginTypeOK
    <2>2. \A x \in Logins : \/ login'[x] = login[x]
                            \/ login'[x] = "idle"
                            \/ login[x] = "checked" /\ login'[x] = "read"
        BY <1>2 DEF LoginReadUser, SetLocked, LimiterIInv, LoginTypeOK
    <2>3. Past' \subseteq Past
        BY <2>2 DEF Past
    <2>4. Counts'
        BY <1>2, <2>3, CountsKept DEF LoginReadUser, SetLocked
    <2> QED
        BY <2>1, <2>4 DEF LimiterIInv
\* Steps that leave the key unlocked.
<1>3. ASSUME LoginTypeOK', ~held', window' < Threshold, guesses' <= window' PROVE LimiterIInv'
    BY <1>3 DEF LimiterIInv, Counts
<1>4. ASSUME NEW l \in Logins, LoginSucceeds(l) PROVE LimiterIInv'
    <2>1. LoginTypeOK'
        <3>1. window' \in 0 .. Threshold /\ guesses' \in Nat
            BY <1>4, LoginAssumption
            DEF LoginSucceeds, RecordSuccess, LimiterIInv, LoginTypeOK
        <3> QED
            BY <1>4, <3>1 DEF LoginSucceeds, RecordLogin, RecordSuccess, LimiterIInv, LoginTypeOK
    <2> QED
        BY <1>3, <1>4, <2>1, LoginAssumption DEF LoginSucceeds, RecordSuccess
<1>5. CASE FailureForgotten
    <2>1. window' = window - 1 /\ guesses' = (IF guesses > 0 THEN guesses - 1 ELSE 0)
          /\ window > 0 /\ UNCHANGED <<held, lockedUntil, login, wrong>>
        BY <1>5 DEF FailureForgotten
    <2>2. window \in 0 .. Threshold /\ guesses \in Nat
        BY DEF LimiterIInv, LoginTypeOK
    <2>3. LoginTypeOK'
        BY <2>1, <2>2, LoginAssumption DEF LimiterIInv, LoginTypeOK
    <2>4. window' < Threshold
        BY <2>1, <2>2, LoginAssumption DEF LimiterIInv, Counts
    <2>5. ASSUME ~held' PROVE guesses' <= window'
        <3>1. guesses <= window
            BY <2>1, <2>5 DEF LimiterIInv, Counts
        <3> QED
            BY <2>1, <2>2, <3>1
    <2>6. ASSUME held' PROVE guesses' + Cardinality(Past') <= Threshold + Cardinality(Logins) - 1
        <3>1. Past' = Past /\ guesses' <= guesses /\ guesses' \in Nat
            BY <2>1, <2>2 DEF Past
        <3>2. guesses + Cardinality(Past) <= Threshold + Cardinality(Logins) - 1
            BY <2>1, <2>6 DEF LimiterIInv, Counts
        <3> QED
            BY <2>2, <3>1, <3>2, PastIsFinite, LoginAssumption
    <2> QED
        BY <2>3, <2>4, <2>5, <2>6 DEF LimiterIInv, Counts
<1>6. CASE KeyUnlocks
    <2>1. LoginTypeOK'
        <3>1. window' \in 0 .. Threshold /\ guesses' \in Nat
            BY <1>6, LoginAssumption DEF KeyUnlocks, LimiterIInv, LoginTypeOK
        <3> QED
            BY <1>6, <3>1 DEF KeyUnlocks, LimiterIInv, LoginTypeOK
    <2>2. ~held' /\ window' < Threshold /\ guesses' <= window'
        BY <1>6, LoginAssumption DEF KeyUnlocks, LimiterIInv, LoginTypeOK, Counts
    <2> QED
        BY <1>3, <2>1, <2>2
<1>7. CASE RowUnlocks \/ UNCHANGED loginVars
    <2>1. LoginTypeOK'
        BY <1>7 DEF RowUnlocks, loginVars, LimiterIInv, LoginTypeOK
    <2>2. UNCHANGED <<window, held, guesses, login>>
        BY <1>7 DEF RowUnlocks, loginVars
    <2>3. Counts'
        BY <2>2, CountsKept DEF Past
    <2> QED
        BY <2>1, <2>3 DEF LimiterIInv
<1>8. CASE ApiRestarts
    <2>1. LoginTypeOK'
        <3>1. window' \in 0 .. Threshold /\ guesses' \in Nat
            BY <1>8, LoginAssumption DEF ApiRestarts, LimiterIInv, LoginTypeOK
        <3> QED
            BY <1>8, <3>1 DEF ApiRestarts, LimiterIInv, LoginTypeOK
    <2> QED
        BY <1>3, <1>8, <2>1, LoginAssumption DEF ApiRestarts
<1> QED
    BY <1>1, <1>2, <1>4, <1>5, <1>6, <1>7, <1>8, LimiterFails DEF LoginNext, LoginRequest

\* The inductive invariant holds in every reachable state.
THEOREM LimiterInvariance == LoginSpec => []LimiterIInv
BY LimiterInit, LimiterNext, PTL DEF LoginSpec

\* Whatever requests overlap, and through lapses of the key's lock, forgotten failures
\* and restarts of the API, LoginRateLimiter lets at most the threshold and the other
\* requests already past its check try a wrong password.
THEOREM GuessesAreBounded == LoginSpec => []GuessesBounded
<1>1. LimiterIInv => GuessesBounded
    <2> SUFFICES ASSUME LimiterIInv PROVE guesses <= Threshold + Cardinality(Logins) - 1
        BY DEF GuessesBounded
    <2>1. window \in Nat /\ guesses \in Nat /\ window < Threshold
        BY DEF LimiterIInv, LoginTypeOK, Counts
    <2>2. guesses <= window \/ guesses + Cardinality(Past) <= Threshold + Cardinality(Logins) - 1
        BY DEF LimiterIInv, LoginTypeOK, Counts
    <2> QED
        BY <2>1, <2>2, PastIsFinite, LoginAssumption
<1> QED
    BY <1>1, LimiterInvariance, PTL

-----------------------------------------------------------------------------
(* Members, sessions and invitations.                                        *)

\* What request r of a handler has read still holds.
Holds(r) ==
    /\ r.op = "role" => ~DemoteWouldLock(r.on, r.new)
    /\ r.op = "state" => ~WouldLock(r.on, r.new)
    /\ r.op = "accept" => invite[r.on] = "pending" /\ ~Usable(state, invitee[r.on])
    /\ r.op = "uninvite" => invite[r.on] = "pending"
    /\ r.op = "session" => Usable(state, r.on)

\* It holds until another request commits a change.
ReadingsHold == \A h \in Handlers : raced \/ stale[h] \/ Holds(req[h])

\* What a request has seen of rows that are never removed holds for good.
RowsStay ==
    /\ \A i \in Invites : invite[i] # "unused" => invitee[i] \in Users
    /\ \A h \in Handlers :
          /\ Busy(h, "accept") =>
                /\ invite[req[h].on] # "unused"
                /\ req[h].user => invitee[req[h].on] \in known
                /\ req[h].member => invitee[req[h].on] \in known
          /\ Busy(h, "uninvite") => invite[req[h].on] # "unused"
          /\ Busy(h, "state") => req[h].on \in known

\* Before there is a user nobody can ask for anything.
Closed ==
    known = {} =>
        /\ \A h \in Handlers : req[h] = Idle
        /\ \A u \in Users : live[u] = {}
        /\ \A i \in Invites : invite[i] = "unused"

MemberIInv ==
    /\ MembershipTypeOK
    /\ ReadingsHold
    /\ RowsStay
    /\ Closed
    /\ OwnerRemains
    /\ SessionsAreMembers

\* The fields of a request under way.
LEMMA RequestFields ==
    ASSUME NEW r \in Request
    PROVE  /\ r.op = "role" => r.on \in Users /\ r.new \in Roles
           /\ r.op = "state" => r.on \in Users /\ r.new \in MemberState \ {"none"}
           /\ r.op = "invite" => r.on \in Users /\ r.new \in Roles
           /\ r.op = "accept" => r.on \in Invites /\ r.user \in BOOLEAN /\ r.member \in BOOLEAN
           /\ r.op = "uninvite" => r.on \in Invites
           /\ r.op = "session" => r.on \in Users /\ r.role \in Roles
<1>1. Idle.op = "idle"
    BY DEF Idle
<1> QED
    BY <1>1 DEF Request

\* An idle handler has read nothing.
LEMMA IdleHolds == Holds(Idle)
<1>1. Idle.op = "idle"
    BY DEF Idle
<1> QED
    BY <1>1 DEF Holds

\* At the start the organization has its first owner, and nobody asks for anything.
LEMMA MemberInit == MembershipInit => MemberIInv
<1> SUFFICES ASSUME MembershipInit PROVE MemberIInv
    OBVIOUS
<1>1. MembershipTypeOK
    <2>1. req \in [Handlers -> Request] /\ stale \in [Handlers -> BOOLEAN]
        BY DEF MembershipInit, NoRequests, Request
    <2> QED
        BY <2>1, MembershipAssumption DEF MembershipInit, MembershipTypeOK, MemberState
<1>2. ReadingsHold /\ RowsStay /\ Closed
    <2>1. \A h \in Handlers : req[h] = Idle
        BY DEF MembershipInit, NoRequests
    <2>2. Idle.op = "idle"
        BY DEF Idle
    <2> QED
        BY <2>1, <2>2, IdleHolds DEF MembershipInit, ReadingsHold, RowsStay, Closed, Busy
<1>3. OwnerRemains /\ SessionsAreMembers
    BY DEF MembershipInit, OwnerRemains, SessionsAreMembers
<1> QED
    BY <1>1, <1>2, <1>3 DEF MemberIInv

\* Where there is a live session or an invitation there is a user.
LEMMA SomebodyIsKnown ==
    ASSUME MemberIInv,
           \/ \E u \in Users : live[u] # {}
           \/ \E i \in Invites : invite[i] # "unused"
           \/ \E h \in Handlers : req[h] # Idle
    PROVE  known # {}
BY DEF MemberIInv, Closed

\* A request that has read what holds, and changes nothing else.
LEMMA Begun ==
    ASSUME MemberIInv, NEW h \in Handlers, NEW r \in Request, Begin(h, r),
           UNCHANGED <<memberVars, live, inviteVars, raced>>,
           known # {},
           raced \/ Holds(r),
           r.op = "accept" =>
               /\ invite[r.on] # "unused"
               /\ r.user \/ r.member => invitee[r.on] \in known,
           r.op = "uninvite" => invite[r.on] # "unused",
           r.op = "state" => r.on \in known
    PROVE  MemberIInv'
<1> USE DEF memberVars, inviteVars
<1>1. /\ req' \in [Handlers -> Request] /\ stale' \in [Handlers -> BOOLEAN]
      /\ \A g \in Handlers : req'[g] = IF g = h THEN r ELSE req[g]
      /\ \A g \in Handlers : stale'[g] = IF g = h THEN FALSE ELSE stale[g]
    BY DEF Begin, MemberIInv, MembershipTypeOK
<1>2. MembershipTypeOK'
    BY <1>1 DEF MemberIInv, MembershipTypeOK
<1>3. \A q : Holds(q)' <=> Holds(q)
    BY DEF Holds, DemoteWouldLock, WouldLock, DisableWouldLock, RevokeWouldLock, ActiveOwners, Usable
<1>4. ReadingsHold'
    BY <1>1, <1>3 DEF MemberIInv, ReadingsHold
<1>5. RowsStay'
    BY <1>1 DEF MemberIInv, RowsStay, Busy
<1>6. Closed' /\ OwnerRemains' /\ SessionsAreMembers'
    BY DEF MemberIInv, Closed, OwnerRemains, SessionsAreMembers, ActiveOwners, Usable
<1> QED
    BY <1>2, <1>4, <1>5, <1>6 DEF MemberIInv

\* Every request under way has been overtaken by the one that commits.
LEMMA Overtaken ==
    ASSUME MemberIInv, NEW h \in Handlers, EndAndOvertake(h)
    PROVE  /\ req' \in [Handlers -> Request] /\ stale' \in [Handlers -> BOOLEAN]
           /\ \A g \in Handlers : req'[g] \in {Idle, req[g]}
           /\ ReadingsHold'
<1>1. /\ req' = [req EXCEPT ![h] = Idle]
      /\ \A g \in Handlers : stale'[g] = (g # h /\ req[g] # Idle)
      /\ stale' \in [Handlers -> BOOLEAN]
    BY DEF EndAndOvertake
<1>2. req' \in [Handlers -> Request] /\ \A g \in Handlers : req'[g] = IF g = h THEN Idle ELSE req[g]
    BY <1>1 DEF MemberIInv, MembershipTypeOK, Request
<1>3. \A g \in Handlers : stale'[g] \/ req'[g].op = "idle"
    BY <1>1, <1>2 DEF Idle
<1>4. ReadingsHold'
    BY <1>3 DEF ReadingsHold, Holds
<1> QED
    BY <1>1, <1>2, <1>4

\* A request that ends without a change is forgotten.
LEMMA Ended ==
    ASSUME MemberIInv, NEW h \in Handlers, End(h), UNCHANGED <<memberVars, inviteVars>>,
           raced => raced'
    PROVE  /\ req' \in [Handlers -> Request] /\ stale' \in [Handlers -> BOOLEAN]
           /\ \A g \in Handlers : req'[g] \in {Idle, req[g]}
           /\ ReadingsHold'
<1>1. /\ req' \in [Handlers -> Request] /\ stale' \in [Handlers -> BOOLEAN]
      /\ \A g \in Handlers : req'[g] = IF g = h THEN Idle ELSE req[g]
      /\ \A g \in Handlers : stale'[g] = IF g = h THEN FALSE ELSE stale[g]
    BY DEF End, MemberIInv, MembershipTypeOK, Request
<1>2. \A q : Holds(q)' <=> Holds(q)
    BY DEF Holds, DemoteWouldLock, WouldLock, DisableWouldLock, RevokeWouldLock, ActiveOwners, Usable,
           memberVars, inviteVars
<1>3. ReadingsHold'
    BY <1>1, <1>2, IdleHolds DEF MemberIInv, ReadingsHold
<1> QED
    BY <1>1, <1>3

\* What the rows say of requests stays while rows are only added.
LEMMA RowsStayKept ==
    ASSUME MemberIInv,
           \A g \in Handlers : req'[g] \in {Idle, req[g]},
           known \subseteq known',
           \A i \in Invites :
               /\ invite[i] # "unused" => invite'[i] # "unused" /\ invitee'[i] = invitee[i]
               /\ invite'[i] # "unused" => invitee'[i] \in Users
    PROVE  RowsStay'
<1>1. \A g \in Handlers : req'[g].op = "idle" \/ (req'[g] = req[g] /\ req[g] \in Request)
    BY DEF Idle, MemberIInv, MembershipTypeOK
<1>2. ASSUME NEW g \in Handlers, req'[g].op = "accept"
      PROVE  /\ invite'[req'[g].on] # "unused"
             /\ req'[g].user => invitee'[req'[g].on] \in known'
             /\ req'[g].member => invitee'[req'[g].on] \in known'
    <2>1. req'[g] = req[g] /\ req[g].op = "accept" /\ req[g].on \in Invites
        BY <1>1, <1>2, RequestFields
    <2> QED
        BY <2>1 DEF MemberIInv, RowsStay, Busy
<1>3. ASSUME NEW g \in Handlers, req'[g].op = "uninvite" PROVE invite'[req'[g].on] # "unused"
    <2>1. req'[g] = req[g] /\ req[g].op = "uninvite" /\ req[g].on \in Invites
        BY <1>1, <1>3, RequestFields
    <2> QED
        BY <2>1 DEF MemberIInv, RowsStay, Busy
<1>4. ASSUME NEW g \in Handlers, req'[g].op = "state" PROVE req'[g].on \in known'
    <2>1. req'[g] = req[g] /\ req[g].op = "state"
        BY <1>1, <1>4
    <2> QED
        BY <2>1 DEF MemberIInv, RowsStay, Busy
<1> QED
    BY <1>2, <1>3, <1>4 DEF RowsStay, Busy

\* An organization without users gets its first owner.
LEMMA FirstOwner ==
    ASSUME MemberIInv, NEW u \in Users, EnsureDefaultOwner(u)
    PROVE  MemberIInv'
<1>1. /\ known = {} /\ known' = {u} /\ state[u] = "none"
      /\ state' = [state EXCEPT ![u] = "active"] /\ role' = [role EXCEPT ![u] = "owner"]
      /\ UNCHANGED <<live, inviteVars, raced, requestVars>>
    BY DEF EnsureDefaultOwner, AddUser, AddMembership
<1>2. MembershipTypeOK'
    BY <1>1, MembershipAssumption
    DEF MemberIInv, MembershipTypeOK, MemberState, inviteVars, requestVars
<1>3. /\ \A h \in Handlers : req'[h] = Idle
      /\ \A w \in Users : live'[w] = {}
      /\ \A i \in Invites : invite'[i] = "unused"
    BY <1>1 DEF MemberIInv, Closed, inviteVars, requestVars
<1>4. ReadingsHold' /\ RowsStay'
    <2>1. \A h \in Handlers : req'[h].op = "idle"
        BY <1>3 DEF Idle
    <2> QED
        BY <1>3, <2>1 DEF ReadingsHold, Holds, RowsStay, Busy
<1>5. u \in ActiveOwners(state', role')
    BY <1>1 DEF MemberIInv, MembershipTypeOK, ActiveOwners, Usable
<1>6. OwnerRemains' /\ SessionsAreMembers' /\ Closed'
    BY <1>1, <1>3, <1>5 DEF OwnerRemains, SessionsAreMembers, Closed
<1> QED
    BY <1>2, <1>4, <1>6 DEF MemberIInv

\* An active owner stays one when another member's role or state is written, and
\* there is one left when the write was found not to lock everybody out.
LEMMA RoleWritten ==
    ASSUME MemberIInv, NEW h \in Handlers, ChangeRoleWrite(h)
    PROVE  MemberIInv'
<1>1. PICK u \in Users, new \in Roles : req[h].on = u /\ req[h].new = new
    BY RequestFields DEF ChangeRoleWrite, Busy, MemberIInv, MembershipTypeOK
<1>2. /\ req[h].op = "role" /\ role' = [role EXCEPT ![u] = new]
      /\ raced' = (raced \/ stale[h]) /\ EndAndOvertake(h)
      /\ UNCHANGED <<known, state, live, inviteVars>>
    BY <1>1 DEF ChangeRoleWrite, Busy, SetRole
<1>3. /\ req' \in [Handlers -> Request] /\ stale' \in [Handlers -> BOOLEAN]
      /\ \A g \in Handlers : req'[g] \in {Idle, req[g]}
      /\ ReadingsHold'
    BY <1>2, Overtaken
<1>4. MembershipTypeOK'
    BY <1>2, <1>3 DEF MemberIInv, MembershipTypeOK, inviteVars
<1>5. RowsStay'
    BY <1>2, <1>3, RowsStayKept DEF inviteVars, MemberIInv, RowsStay
<1>6. known # {}
    BY <1>2, SomebodyIsKnown DEF Idle
<1>7. OwnerRemains'
    <2> SUFFICES ASSUME ~raced' PROVE ActiveOwners(state, role') # {}
        BY <1>2 DEF OwnerRemains
    <2>1. ~DemoteWouldLock(u, new) /\ ActiveOwners(state, role) # {}
        BY <1>1, <1>2, <1>6 DEF MemberIInv, ReadingsHold, Holds, OwnerRemains, MembershipTypeOK
    <2>2. CASE role[u] = "owner" /\ new # "owner"
        BY <1>2, <2>1, <2>2 DEF DemoteWouldLock
    <2>3. CASE role[u] # "owner" \/ new = "owner"
        BY <1>2, <2>1, <2>3 DEF ActiveOwners, MemberIInv, MembershipTypeOK
    <2> QED
        BY <2>2, <2>3
<1>8. SessionsAreMembers' /\ Closed'
    BY <1>2, <1>6 DEF MemberIInv, SessionsAreMembers, Usable, Closed
<1> QED
    BY <1>3, <1>4, <1>5, <1>7, <1>8 DEF MemberIInv

\* A membership is suspended, removed or restored.
LEMMA StateWritten ==
    ASSUME MemberIInv, NEW h \in Handlers, ChangeStateWrite(h)
    PROVE  MemberIInv'
<1>1. PICK u \in Users, new \in MemberState \ {"none"} : req[h].on = u /\ req[h].new = new
    BY RequestFields DEF ChangeStateWrite, Busy, MemberIInv, MembershipTypeOK
<1>2. /\ req[h].op = "state" /\ state' = [state EXCEPT ![u] = new]
      /\ \/ new = "active" /\ UNCHANGED live
         \/ new # "active" /\ live' = [live EXCEPT ![u] = {}]
      /\ raced' = (raced \/ stale[h]) /\ EndAndOvertake(h)
      /\ UNCHANGED <<known, role, inviteVars>>
    BY <1>1 DEF ChangeStateWrite, Busy, SetState, RevokeSessions
<1>3. /\ req' \in [Handlers -> Request] /\ stale' \in [Handlers -> BOOLEAN]
      /\ \A g \in Handlers : req'[g] \in {Idle, req[g]}
      /\ ReadingsHold'
    BY <1>2, Overtaken
<1>4. known # {}
    BY <1>2, SomebodyIsKnown DEF Idle
<1>5. u \in known
    BY <1>1, <1>2 DEF MemberIInv, RowsStay, Busy
<1>6. MembershipTypeOK'
    <2>1. state' \in [Users -> MemberState] /\ live' \in [Users -> SUBSET Roles]
        BY <1>2 DEF MemberIInv, MembershipTypeOK
    <2>2. \A w \in Users : state'[w] # "none" => w \in known'
        BY <1>2, <1>5 DEF MemberIInv, MembershipTypeOK
    <2>3. raced' \in BOOLEAN
        BY <1>2 DEF MemberIInv, MembershipTypeOK
    <2> QED
        BY <1>2, <1>3, <2>1, <2>2, <2>3 DEF MemberIInv, MembershipTypeOK, inviteVars
<1>7. RowsStay'
    BY <1>2, <1>3, RowsStayKept DEF inviteVars, MemberIInv, RowsStay
<1>8. OwnerRemains'
    <2> SUFFICES ASSUME ~raced' PROVE ActiveOwners(state', role) # {}
        BY <1>2 DEF OwnerRemains
    <2>1. ~WouldLock(u, new) /\ ActiveOwners(state, role) # {}
        BY <1>1, <1>2, <1>4 DEF MemberIInv, ReadingsHold, Holds, OwnerRemains, MembershipTypeOK
    <2>2. CASE new = "active" \/ role[u] # "owner"
        BY <1>2, <2>1, <2>2 DEF ActiveOwners, Usable, MemberIInv, MembershipTypeOK
    <2>3. CASE new # "active" /\ role[u] = "owner"
        BY <1>2, <2>1, <2>3 DEF WouldLock, DisableWouldLock, RevokeWouldLock, MemberState
    <2> QED
        BY <2>2, <2>3
<1>9. SessionsAreMembers'
    BY <1>2 DEF MemberIInv, MembershipTypeOK, SessionsAreMembers, Usable
<1> QED
    BY <1>2, <1>3, <1>4, <1>6, <1>7, <1>8, <1>9 DEF MemberIInv, Closed

\* An invitation is issued.
LEMMA InvitationWritten ==
    ASSUME MemberIInv, NEW h \in Handlers, NEW i \in Invites, InviteWrite(h, i)
    PROVE  MemberIInv'
<1>1. PICK u \in Users, ro \in Roles : req[h].on = u /\ req[h].new = ro
    BY RequestFields DEF InviteWrite, Busy, MemberIInv, MembershipTypeOK
<1>2. /\ req[h].op = "invite" /\ invite[i] = "unused"
      /\ invite' = [invite EXCEPT ![i] = "pending"]
      /\ invitee' = [invitee EXCEPT ![i] = u] /\ offered' = [offered EXCEPT ![i] = ro]
      /\ raced' = (raced \/ stale[h]) /\ EndAndOvertake(h)
      /\ UNCHANGED <<memberVars, live, lapsed>>
    BY <1>1 DEF InviteWrite, Busy, SetInvitationState
<1>3. /\ req' \in [Handlers -> Request] /\ stale' \in [Handlers -> BOOLEAN]
      /\ \A g \in Handlers : req'[g] \in {Idle, req[g]}
      /\ ReadingsHold'
    BY <1>2, Overtaken
<1>4. known # {}
    BY <1>2, SomebodyIsKnown DEF Idle
<1>5. MembershipTypeOK'
    BY <1>2, <1>3 DEF MemberIInv, MembershipTypeOK, memberVars
<1>6. RowsStay'
    <2>1. \A x \in Invites :
             /\ invite[x] # "unused" => invite'[x] # "unused" /\ invitee'[x] = invitee[x]
             /\ invite'[x] # "unused" => invitee'[x] \in Users
        BY <1>2 DEF MemberIInv, RowsStay, MembershipTypeOK
    <2> QED
        BY <1>2, <1>3, <2>1, RowsStayKept DEF memberVars
<1>7. OwnerRemains' /\ SessionsAreMembers' /\ Closed'
    BY <1>2, <1>4 DEF MemberIInv, OwnerRemains, SessionsAreMembers, Closed, ActiveOwners, Usable,
                      memberVars
<1> QED
    BY <1>3, <1>5, <1>6, <1>7 DEF MemberIInv

\* An invitation is accepted.
LEMMA InvitationAccepted ==
    ASSUME MemberIInv, NEW h \in Handlers, AcceptWrite(h)
    PROVE  /\ MemberIInv'
           /\ \A i \in Invites :
                 invite[i] \in {"accepted", "revoked"} => raced' \/ invite'[i] = invite[i]
<1>1. PICK i \in Invites : req[h].on = i
    BY RequestFields DEF AcceptWrite, Busy, MemberIInv, MembershipTypeOK
<1>2. /\ req[h].op = "accept" /\ invite[i] # "unused"
      /\ req[h].user => invitee[i] \in known
      /\ req[h].member => invitee[i] \in known
    BY <1>1 DEF AcceptWrite, Busy, MemberIInv, RowsStay
<1>3. PICK u \in Users, ro \in Roles : invitee[i] = u /\ offered[i] = ro
    BY <1>2 DEF MemberIInv, RowsStay, MembershipTypeOK
<1>4. /\ invite' = [invite EXCEPT ![i] = "accepted"]
      /\ live' = [live EXCEPT ![u] = @ \cup {ro}]
      /\ raced' = (raced \/ stale[h]) /\ EndAndOvertake(h)
      /\ UNCHANGED <<invitee, offered, lapsed>>
    BY <1>1, <1>3 DEF AcceptWrite, SetInvitationState, AddSession
<1>5. known \subseteq known' /\ u \in known' /\ known' \subseteq Users
    BY <1>1, <1>2, <1>3 DEF AcceptWrite, AcceptUser, AddUser, MemberIInv, MembershipTypeOK
<1>6. state' = [state EXCEPT ![u] = "active"] /\ role' = [role EXCEPT ![u] = ro]
    BY <1>1, <1>3 DEF AcceptWrite, AcceptMembership, SetRole, SetState, AddMembership
<1>7. /\ req' \in [Handlers -> Request] /\ stale' \in [Handlers -> BOOLEAN]
      /\ \A g \in Handlers : req'[g] \in {Idle, req[g]}
      /\ ReadingsHold'
    BY <1>4, Overtaken
<1>8. ~raced' => invite[i] = "pending" /\ ~Usable(state, u)
    BY <1>1, <1>2, <1>3, <1>4 DEF MemberIInv, ReadingsHold, Holds, MembershipTypeOK
<1>9. MembershipTypeOK'
    <2>1. state' \in [Users -> MemberState] /\ role' \in [Users -> Roles]
        BY <1>6 DEF MemberIInv, MembershipTypeOK, MemberState
    <2>2. \A w \in Users : state'[w] # "none" => w \in known'
        BY <1>5, <1>6 DEF MemberIInv, MembershipTypeOK
    <2>3. raced' \in BOOLEAN /\ live' \in [Users -> SUBSET Roles]
          /\ invite' \in [Invites -> {"unused", "pending", "accepted", "revoked"}]
        BY <1>4 DEF MemberIInv, MembershipTypeOK
    <2> QED
        BY <1>4, <1>5, <1>7, <2>1, <2>2, <2>3 DEF MemberIInv, MembershipTypeOK
<1>10. RowsStay'
    <2>1. \A x \in Invites :
             /\ invite[x] # "unused" => invite'[x] # "unused" /\ invitee'[x] = invitee[x]
             /\ invite'[x] # "unused" => invitee'[x] \in Users
        BY <1>2, <1>4 DEF MemberIInv, RowsStay, MembershipTypeOK
    <2> QED
        BY <1>5, <1>7, <2>1, RowsStayKept
<1>11. OwnerRemains'
    <2> SUFFICES ASSUME ~raced' PROVE ActiveOwners(state', role') # {}
        BY DEF OwnerRemains
    <2>1. known # {} /\ ~Usable(state, u)
        BY <1>2, <1>8, SomebodyIsKnown
    <2>2. PICK o \in Users : Usable(state, o) /\ role[o] = "owner"
        BY <1>4, <2>1 DEF MemberIInv, OwnerRemains, ActiveOwners
    <2>3. o # u
        BY <2>1, <2>2
    <2>4. Usable(state', o) /\ role'[o] = "owner"
        BY <1>6, <2>2, <2>3 DEF Usable, MemberIInv, MembershipTypeOK
    <2> QED
        BY <2>4 DEF ActiveOwners
<1>12. SessionsAreMembers' /\ Closed'
    BY <1>4, <1>5, <1>6 DEF MemberIInv, MembershipTypeOK, SessionsAreMembers, Usable, Closed
<1>13. \A x \in Invites :
          invite[x] \in {"accepted", "revoked"} => raced' \/ invite'[x] = invite[x]
    BY <1>4, <1>8 DEF MemberIInv, MembershipTypeOK
<1> QED
    BY <1>7, <1>9, <1>10, <1>11, <1>12, <1>13 DEF MemberIInv

\* An invitation is revoked.
LEMMA InvitationRevoked ==
    ASSUME MemberIInv, NEW h \in Handlers, RevokeInvitationWrite(h)
    PROVE  /\ MemberIInv'
           /\ \A i \in Invites :
                 invite[i] \in {"accepted", "revoked"} => raced' \/ invite'[i] = invite[i]
<1>1. PICK i \in Invites : req[h].on = i
    BY RequestFields DEF RevokeInvitationWrite, Busy, MemberIInv, MembershipTypeOK
<1>2. /\ req[h].op = "uninvite" /\ invite[i] # "unused"
      /\ invite' = [invite EXCEPT ![i] = "revoked"]
      /\ raced' = (raced \/ stale[h]) /\ EndAndOvertake(h)
      /\ UNCHANGED <<memberVars, live, invitee, offered, lapsed>>
    BY <1>1 DEF RevokeInvitationWrite, SetInvitationState, Busy, MemberIInv, RowsStay
<1>3. /\ req' \in [Handlers -> Request] /\ stale' \in [Handlers -> BOOLEAN]
      /\ \A g \in Handlers : req'[g] \in {Idle, req[g]}
      /\ ReadingsHold'
    BY <1>2, Overtaken
<1>4. MembershipTypeOK'
    BY <1>2, <1>3 DEF MemberIInv, MembershipTypeOK, memberVars
<1>5. RowsStay'
    <2>1. \A x \in Invites :
             /\ invite[x] # "unused" => invite'[x] # "unused" /\ invitee'[x] = invitee[x]
             /\ invite'[x] # "unused" => invitee'[x] \in Users
        BY <1>2 DEF MemberIInv, RowsStay, MembershipTypeOK
    <2> QED
        BY <1>2, <1>3, <2>1, RowsStayKept DEF memberVars
<1>6. known # {}
    BY <1>2, SomebodyIsKnown
<1>7. OwnerRemains' /\ SessionsAreMembers' /\ Closed'
    BY <1>2, <1>6 DEF MemberIInv, OwnerRemains, SessionsAreMembers, Closed, ActiveOwners, Usable,
                      memberVars
<1>8. \A x \in Invites :
         invite[x] \in {"accepted", "revoked"} => raced' \/ invite'[x] = invite[x]
    <2>1. ~raced' => invite[i] = "pending"
        BY <1>1, <1>2 DEF MemberIInv, ReadingsHold, Holds, MembershipTypeOK
    <2> QED
        BY <1>2, <2>1 DEF MemberIInv, MembershipTypeOK
<1> QED
    BY <1>3, <1>4, <1>5, <1>7, <1>8 DEF MemberIInv

\* Steps that leave the rows as they are.
LEMMA RowsUntouched ==
    ASSUME MemberIInv,
           (\E h \in Handlers : End(h)) \/ UNCHANGED requestVars,
           UNCHANGED <<memberVars, invite, invitee, offered>>,
           lapsed' \in [Invites -> BOOLEAN], live' \in [Users -> SUBSET Roles], raced' \in BOOLEAN,
           raced => raced',
           lapsed' # lapsed => UNCHANGED requestVars,
           \A u \in Users : live'[u] # {} => live[u] # {} \/ raced' \/ Usable(state, u),
           known = {} => UNCHANGED live
    PROVE  MemberIInv'
<1>1. \A q : Holds(q)' <=> Holds(q)
    BY DEF Holds, DemoteWouldLock, WouldLock, DisableWouldLock, RevokeWouldLock, ActiveOwners, Usable,
           memberVars
<1>2. /\ req' \in [Handlers -> Request] /\ stale' \in [Handlers -> BOOLEAN]
      /\ \A g \in Handlers : req'[g] \in {Idle, req[g]}
      /\ ReadingsHold'
    <2>1. CASE UNCHANGED requestVars
        BY <1>1, <2>1 DEF MemberIInv, MembershipTypeOK, ReadingsHold, requestVars
    <2>2. ASSUME NEW h \in Handlers, End(h), ~UNCHANGED requestVars
          PROVE  /\ req' \in [Handlers -> Request] /\ stale' \in [Handlers -> BOOLEAN]
                 /\ \A g \in Handlers : req'[g] \in {Idle, req[g]}
                 /\ ReadingsHold'
        BY <2>2, Ended DEF inviteVars
    <2> QED
        BY <2>1, <2>2
<1>3. MembershipTypeOK'
    BY <1>2 DEF MemberIInv, MembershipTypeOK, memberVars
<1>4. RowsStay'
    BY <1>2, RowsStayKept DEF memberVars, MemberIInv, RowsStay
<1>5. OwnerRemains' /\ SessionsAreMembers'
    BY DEF MemberIInv, OwnerRemains, SessionsAreMembers, ActiveOwners, Usable, memberVars
<1>6. Closed'
    BY <1>2 DEF MemberIInv, Closed, memberVars
<1> QED
    BY <1>2, <1>3, <1>4, <1>5, <1>6 DEF MemberIInv

\* A login opens a session.
LEMMA SessionIssued ==
    ASSUME MemberIInv, NEW h \in Handlers, IssueSession(h)
    PROVE  MemberIInv'
<1>1. PICK u \in Users, r \in Roles : req[h].on = u /\ req[h].role = r
    BY RequestFields DEF IssueSession, Busy, MemberIInv, MembershipTypeOK
<1>2. /\ req[h].op = "session" /\ live' = [live EXCEPT ![u] = @ \cup {r}]
      /\ raced' = (raced \/ stale[h]) /\ End(h)
      /\ UNCHANGED <<memberVars, inviteVars>>
    BY <1>1 DEF IssueSession, Busy, AddSession
<1>3. known # {}
    BY <1>2, SomebodyIsKnown DEF Idle
<1>4. raced' \/ Usable(state, u)
    BY <1>1, <1>2 DEF MemberIInv, ReadingsHold, Holds
<1>5. /\ live' \in [Users -> SUBSET Roles] /\ raced' \in BOOLEAN
      /\ lapsed' \in [Invites -> BOOLEAN]
    BY <1>2 DEF MemberIInv, MembershipTypeOK, inviteVars
<1>6. \A w \in Users : live'[w] # {} => live[w] # {} \/ raced' \/ Usable(state, w)
    BY <1>2, <1>4 DEF MemberIInv, MembershipTypeOK
<1> QED
    BY <1>2, <1>3, <1>5, <1>6, RowsUntouched DEF inviteVars

\* Where a request reads, somebody holds a session or an invitation, and what it
\* decides on holds when it has read it.
LEMMA SomethingRead ==
    ASSUME MemberIInv, NEW h \in Handlers,
           \/ ChangeMember(h) /\ ~ChangeRoleWrite(h)
           \/ DisableMember(h) \/ EnableMember(h) \/ RevokeMember(h)
           \/ CreateInvitation(h) /\ \A i \in Invites : ~InviteWrite(h, i)
           \/ AcceptInvitation(h) /\ ~AcceptWrite(h)
           \/ RevokeInvitation(h) /\ ~RevokeInvitationWrite(h)
           \/ Login(h) \/ Refresh(h)
    PROVE  MemberIInv' /\ UNCHANGED invite
<1> USE DEF Idle
<1>1. ASSUME NEW r \in Roles, Actor(r) PROVE known # {}
    BY <1>1, SomebodyIsKnown DEF Actor
<1>2. ASSUME NEW r \in Roles, NEW u \in Users, NEW new \in Roles, Actor(r), ChangeRoleRead(h, r, u, new)
      PROVE  MemberIInv' /\ UNCHANGED invite
    <2> DEFINE q == [op |-> "role", on |-> u, new |-> new]
    <2>1. q \in Request /\ Holds(q)
        BY <1>2 DEF ChangeRoleRead, Request, Holds
    <2> QED
        BY <1>1, <1>2, <2>1, Begun DEF ChangeRoleRead, inviteVars
<1>3. ASSUME NEW r \in Roles, NEW u \in Users, NEW target \in {"disabled", "active", "revoked"},
             Actor(r), ChangeStateRead(h, r, u, target)
      PROVE  MemberIInv' /\ UNCHANGED invite
    <2> DEFINE q == [op |-> "state", on |-> u, new |-> target]
    <2>1. q \in Request /\ Holds(q)
        BY <1>3 DEF ChangeStateRead, Request, MemberState, Holds
    <2>2. u \in known
        BY <1>3 DEF ChangeStateRead, MemberIInv, MembershipTypeOK
    <2> QED
        BY <1>1, <1>3, <2>1, <2>2, Begun DEF ChangeStateRead, inviteVars
<1>4. ASSUME NEW r \in Roles, NEW u \in Users, NEW ro \in Roles, Actor(r), InviteRead(h, r, u, ro)
      PROVE  MemberIInv' /\ UNCHANGED invite
    <2> DEFINE q == [op |-> "invite", on |-> u, new |-> ro]
    <2>1. q \in Request /\ Holds(q)
        BY <1>4 DEF Request, Holds
    <2> QED
        BY <1>1, <1>4, <2>1, Begun DEF InviteRead, inviteVars
<1>5. ASSUME NEW i \in Invites, AcceptRead(h, i) PROVE MemberIInv' /\ UNCHANGED invite
    <2> DEFINE q == [op |-> "accept", on |-> i,
                     user |-> invitee[i] \in known, member |-> state[invitee[i]] # "none"]
    <2>1. invite[i] = "pending" /\ ~Usable(state, invitee[i]) /\ invitee[i] \in Users
        BY <1>5 DEF AcceptRead, Redeemable, MemberIInv, RowsStay
    <2>2. q \in Request
        BY DEF Request
    <2>3. Holds(q)
        BY <2>1 DEF Holds
    <2>4. q.user \/ q.member => invitee[i] \in known
        BY <2>1 DEF MemberIInv, MembershipTypeOK
    <2>5. known # {}
        BY <2>1, SomebodyIsKnown
    <2> QED
        BY <1>5, <2>1, <2>2, <2>3, <2>4, <2>5, Begun DEF AcceptRead, inviteVars
<1>6. ASSUME NEW i \in Invites, RevokeInvitationRead(h, i) PROVE MemberIInv' /\ UNCHANGED invite
    <2> DEFINE q == [op |-> "uninvite", on |-> i]
    <2>1. q \in Request /\ Holds(q) /\ invite[i] # "unused"
        BY <1>6 DEF RevokeInvitationRead, Request, Holds
    <2>2. known # {}
        BY <2>1, SomebodyIsKnown
    <2> QED
        BY <1>6, <2>1, <2>2, Begun DEF RevokeInvitationRead, inviteVars
<1>7. ASSUME NEW u \in Users, LoginRead(h, u) PROVE MemberIInv' /\ UNCHANGED invite
    <2> DEFINE q == [op |-> "session", on |-> u, role |-> role[u]]
    <2>1. q \in Request /\ Holds(q)
        BY <1>7 DEF LoginRead, Request, Holds, MemberIInv, MembershipTypeOK
    <2> QED
        BY <1>7, <2>1, Begun DEF LoginRead, inviteVars
<1>8. ASSUME NEW u \in Users, NEW r \in Roles, RefreshRead(h, u, r) PROVE MemberIInv' /\ UNCHANGED invite
    <2> DEFINE q == [op |-> "session", on |-> u, role |-> r]
    <2>1. q \in Request
        BY DEF Request
    <2>2. raced \/ Holds(q)
        BY <1>8 DEF RefreshRead, Holds, MemberIInv, SessionsAreMembers
    <2>3. known # {}
        BY <1>8, SomebodyIsKnown DEF RefreshRead
    <2> QED
        BY <1>8, <2>1, <2>2, <2>3, Begun DEF RefreshRead, inviteVars
<1> QED
    BY <1>2, <1>3, <1>4, <1>5, <1>6, <1>7, <1>8
    DEF ChangeMember, DisableMember, EnableMember, RevokeMember, ReadsState, CreateInvitation,
        AcceptInvitation, RevokeInvitation, Login, Refresh

\* What a step may do to the end of an invitation.
EndsKept ==
    \A i \in Invites : invite[i] \in {"accepted", "revoked"} => raced' \/ invite'[i] = invite[i]

\* Every step keeps the invariant and ends an invitation once.
LEMMA MemberNext == MemberIInv /\ [MembershipNext]_membershipVars => MemberIInv' /\ EndsKept
<1> SUFFICES ASSUME MemberIInv, [MembershipNext]_membershipVars PROVE MemberIInv' /\ EndsKept
    OBVIOUS
<1>1. ASSUME NEW u \in Users, EnsureDefaultOwner(u) PROVE MemberIInv' /\ EndsKept
    BY <1>1, FirstOwner DEF EnsureDefaultOwner, EndsKept, inviteVars
<1>2. ASSUME NEW h \in Handlers, MemberHandler(h) PROVE MemberIInv' /\ EndsKept
    <2>1. CASE ChangeRoleWrite(h)
        BY <2>1, RoleWritten DEF ChangeRoleWrite, EndsKept, inviteVars
    <2>2. CASE ChangeStateWrite(h)
        BY <2>2, StateWritten DEF ChangeStateWrite, EndsKept, inviteVars
    <2>3. ASSUME NEW i \in Invites, InviteWrite(h, i) PROVE MemberIInv' /\ EndsKept
        BY <2>3, InvitationWritten
        DEF InviteWrite, SetInvitationState, EndsKept, MemberIInv, MembershipTypeOK
    <2>4. CASE AcceptWrite(h)
        BY <2>4, InvitationAccepted DEF EndsKept
    <2>5. CASE RevokeInvitationWrite(h)
        BY <2>5, InvitationRevoked DEF EndsKept
    <2>6. CASE IssueSession(h)
        BY <2>6, SessionIssued DEF IssueSession, EndsKept, inviteVars
    <2>7. CASE Lost(h) /\ UNCHANGED <<memberVars, live, inviteVars, raced>>
        BY <2>7, RowsUntouched DEF Lost, EndsKept, inviteVars, MemberIInv, MembershipTypeOK
    <2> QED
        BY <1>2, <2>1, <2>2, <2>3, <2>4, <2>5, <2>6, <2>7, SomethingRead
        DEF MemberHandler, EndsKept
<1>3. ASSUME NEW u \in Users, NEW r \in Roles, Logout(u, r) PROVE MemberIInv' /\ EndsKept
    <2>1. /\ r \in live[u] /\ live' = [live EXCEPT ![u] = @ \ {r}]
          /\ UNCHANGED <<memberVars, inviteVars, raced, requestVars>>
        BY <1>3 DEF Logout
    <2>2. known # {}
        BY <2>1, SomebodyIsKnown
    <2>3. live' \in [Users -> SUBSET Roles] /\ \A w \in Users : live'[w] \subseteq live[w]
        BY <2>1 DEF MemberIInv, MembershipTypeOK
    <2>4. MemberIInv'
        BY <2>1, <2>2, <2>3, RowsUntouched DEF inviteVars, MemberIInv, MembershipTypeOK
    <2> QED
        BY <2>1, <2>4 DEF EndsKept, inviteVars
<1>4. ASSUME NEW i \in Invites, InvitationLapses(i) PROVE MemberIInv' /\ EndsKept
    <2>1. lapsed' \in [Invites -> BOOLEAN]
        BY <1>4 DEF InvitationLapses, MemberIInv, MembershipTypeOK
    <2>2. MemberIInv'
        BY <1>4, <2>1, RowsUntouched DEF InvitationLapses, MemberIInv, MembershipTypeOK
    <2> QED
        BY <1>4, <2>2 DEF InvitationLapses, EndsKept
<1>5. CASE UNCHANGED membershipVars
    <2>1. MemberIInv'
        BY <1>5, RowsUntouched DEF membershipVars, inviteVars, MemberIInv, MembershipTypeOK
    <2> QED
        BY <1>5, <2>1 DEF membershipVars, inviteVars, EndsKept
<1> QED
    BY <1>1, <1>2, <1>3, <1>4, <1>5 DEF MembershipNext

\* The inductive invariant holds in every reachable state.
THEOREM MemberInvariance == MembershipSpec => []MemberIInv
BY MemberInit, MemberNext, PTL DEF MembershipSpec

\* Where no request wrote over what it was decided on, the organization keeps an active
\* owner, only active members hold sessions, and an invitation ends once: the checks of
\* change_member_role, _change_member_state, accept_invitation, login and refresh are
\* enough for each other, for any number of users, roles, invitations and requests.
THEOREM MembersStayGoverned == MembershipSpec => MembersAreGoverned
<1>1. MemberIInv => OwnerRemains /\ SessionsAreMembers
    BY DEF MemberIInv
<1>2. MemberIInv /\ [MembershipNext]_membershipVars => [EndsKept]_membershipVars
    BY MemberNext
<1>3. MembershipSpec => [][EndsKept]_membershipVars
    BY <1>2, MemberInvariance, PTL DEF MembershipSpec
<1>4. MembershipSpec => EndsOnce
    BY <1>3, PTL DEF EndsOnce, EndsKept
<1> QED
    BY <1>1, <1>4, MemberInvariance, PTL DEF MembersAreGoverned

=============================================================================
