------------------------------ MODULE DataDeletion ------------------------------
(***************************************************************************)
(* Governed deletion (DataDeletionService): a lead is anonymized, a user   *)
(* disabled and an observation redacted.  The row is read, and a second    *)
(* deletion refused, before anything is written.                           *)
(***************************************************************************)
EXTENDS Requests, Naturals, FiniteSets

CONSTANTS
    LeadRows, UserRows, ObservationRows     \* what can be deleted

ASSUME DeletionAssumption == IsFiniteSet(Handlers)

Deletables == LeadRows \cup UserRows \cup ObservationRows

VARIABLES
    reachable,     \* leads with a public address, users with an e-mail address
    erased,        \* rows marked anonymized, disabled or redacted
    deletions,     \* per row: the deletions the audit log has of it
    rejected,      \* history: accepted deletions the database refused
    doubly         \* history: two deletions of one row crossed

deletionVars == <<reachable, erased, deletions, rejected, doubly, requestVars>>

DeletionInit ==
    /\ reachable = LeadRows \cup UserRows
    /\ erased = {}
    /\ deletions = [x \in Deletables |-> 0]
    /\ rejected = {}
    /\ doubly = FALSE
    /\ NoRequests

-----------------------------------------------------------------------------
\* Seeded fault: a row that was deleted is deleted again.
Deletable_Again(x) == TRUE

\* ..._ALREADY_ANONYMIZED, _DISABLED, _REDACTED
Deletable(x) == x \notin erased

\* delete_data: the request names who accepts it and why.
DeleteRead(h, x) ==
    /\ Deletable(x)
    /\ Begin(h, [op |-> "delete", row |-> x])
    /\ UNCHANGED <<reachable, erased, deletions, rejected, doubly>>

\* users.email is not nullable: the flush that clears it fails.
Refused(x) == x \in UserRows

\* Marked, cleared and audited in one transaction.
DeleteWrite(h) ==
    /\ Busy(h, "delete")
    /\ ~Refused(req[h].row)
    /\ reachable' = reachable \ {req[h].row}
    /\ erased' = erased \cup {req[h].row}
    /\ deletions' = [deletions EXCEPT ![req[h].row] = @ + 1]
    /\ doubly' = (doubly \/ (stale[h] /\ req[h].row \in erased))
    /\ EndAndOvertake(h)
    /\ UNCHANGED rejected

\* The request fails with the flush.
DeleteRefused(h) ==
    /\ Busy(h, "delete")
    /\ Refused(req[h].row)
    /\ rejected' = rejected \cup {req[h].row}
    /\ End(h)
    /\ UNCHANGED <<reachable, erased, deletions, doubly>>

DeletionNext ==
    \E h \in Handlers :
        \/ \E x \in Deletables : DeleteRead(h, x)
        \/ DeleteWrite(h)
        \/ DeleteRefused(h)
        \/ Lost(h) /\ UNCHANGED <<reachable, erased, deletions, rejected, doubly>>

DeletionSpec == DeletionInit /\ [][DeletionNext]_deletionVars

-----------------------------------------------------------------------------
(* Properties. *)

DeletionTypeOK ==
    /\ reachable \subseteq LeadRows \cup UserRows
    /\ erased \subseteq Deletables
    /\ deletions \in [Deletables -> 0 .. Cardinality(Handlers)]
    /\ rejected \subseteq UserRows

\* The audit log has one deletion of every row that was erased and of no other, as
\* long as no two deletions of one row crossed.
DeletedOnce ==
    ~doubly => \A x \in Deletables : deletions[x] = IF x \in erased THEN 1 ELSE 0

\* Documented: an accepted deletion of a user disables it and removes its address.
DeletionsHappen == rejected = {}

=============================================================================
