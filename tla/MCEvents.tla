------------------------------- MODULE MCEvents -------------------------------
(* Values for Events: sources that agree on an event in part. *)
EXTENDS Events, FiniteSets, Integers, TLC

CONSTANTS f1, f2, s1, A, B

\* f2 has the title of f1 and another URL of the same source.
MCSaid ==
    [g \in Findings |->
        [f \in Fields |-> IF g = f2 /\ f = "source_url" THEN B ELSE A]]

MCSourceOf == [f \in Findings |-> s1]

MCExternalId == [v \in Values |-> v]

-----------------------------------------------------------------------------
Editing == {h \in Editors : doing[h] # "idle"}

\* Three jobs persist, and one reviewer edits titles ...
PersistBound ==
    /\ Cardinality(Editing) <= 1
    /\ \A h \in Editing : Target(h) \subseteq {"title"}
    /\ \A e \in Ids : touched[e] \subseteq {"title"} /\ raced[e] = {}

\* ... or two reviewers edit both fields of one event of one job.
OverridesBound ==
    /\ Cardinality({j \in Jobs : phase[j] # "new"}) <= 1
    /\ Cardinality(Allocated) <= 1

EventsSpec == Init /\ [][Next /\ (PersistBound \/ OverridesBound)']_vars

\* Ids, jobs and handlers are interchangeable; used without liveness.
Symmetry == Permutations(Ids) \cup Permutations(Jobs) \cup Permutations(Editors)

=============================================================================
