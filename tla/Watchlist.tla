------------------------------- MODULE Watchlist -------------------------------
(***************************************************************************)
(* One user's watch of one event (EventWatchlistService, its repository    *)
(* and REST handlers): the row, which a unique key makes the only one, and *)
(* the history that is to tell how it came about.                          *)
(***************************************************************************)
EXTENDS Requests, Naturals

CONSTANTS
    Times,       \* values of reminder_at
    NoTime,      \* null: a watch without a reminder
    Unwatched    \* there is no row

ASSUME WatchlistAssumption == NoTime \notin Times /\ Unwatched \notin Times \cup {NoTime}

VARIABLES
    watch,       \* the row's reminder_at, Unwatched where there is none
    row,         \* which row it is: 0, 1, ... in the order they are inserted
    story,       \* what the last entry of the history leads to
    gap,         \* an entry of the history did not begin where the last one ended
    behind       \* a stale request has written

watchlistVars == <<watch, row, story, gap, behind, requestVars>>

WatchlistInit ==
    /\ watch = Unwatched
    /\ row = 0
    /\ story = Unwatched
    /\ gap = FALSE
    /\ behind = FALSE
    /\ NoRequests

\* Seeded fault: the history is told what was asked for last, not what was there.
AppendHistory_NoBefore(from, to) ==
    /\ story' = to
    /\ gap' = (gap \/ Unwatched # story)

\* history.append with the reminder before and after.
AppendHistory(from, to) ==
    /\ story' = to
    /\ gap' = (gap \/ from # story)

CommitWatch(h) ==
    /\ behind' = (behind \/ stale[h])
    /\ EndAndOvertake(h)

-----------------------------------------------------------------------------
(* PUT /events/{id}/watchlist *)

UpsertRead(h, t) ==
    /\ Begin(h, [op |-> "upsert", to |-> t, from |-> watch, row |-> row])
    /\ UNCHANGED <<watch, row, story, gap, behind>>

\* upsert_entry looks again before it writes: it updates the row there is, ...
UpdateEntry == watch # Unwatched /\ UNCHANGED row

\* ... or inserts one; the unique key refuses a second.
InsertEntry == watch = Unwatched /\ row' = row + 1

UpsertWrite(h) ==
    /\ Busy(h, "upsert")
    /\ UpdateEntry \/ InsertEntry
    /\ watch' = req[h].to
    /\ AppendHistory(req[h].from, req[h].to)
    /\ CommitWatch(h)

\* The whole of a PUT.
UpsertWatch(h) ==
    \/ \E t \in Times \cup {NoTime} : UpsertRead(h, t)
    \/ UpsertWrite(h)

-----------------------------------------------------------------------------
(* DELETE /events/{id}/watchlist *)

RemoveRead(h) ==
    /\ watch # Unwatched
    /\ Begin(h, [op |-> "remove", to |-> Unwatched, from |-> watch, row |-> row])
    /\ UNCHANGED <<watch, row, story, gap, behind>>

\* Seeded fault: the row stays.
RemoveWrite_RowKept(h) ==
    /\ Busy(h, "remove")
    /\ UNCHANGED <<row, watch>>
    /\ AppendHistory(req[h].from, Unwatched)
    /\ CommitWatch(h)

\* delete_entry looks again and deletes the row it finds; one that is gone by the
\* time it writes is no error.
RemoveWrite(h) ==
    /\ Busy(h, "remove")
    /\ \/ watch' = Unwatched
       \/ row # req[h].row /\ UNCHANGED watch
    /\ AppendHistory(req[h].from, Unwatched)
    /\ CommitWatch(h)
    /\ UNCHANGED row

\* The whole of a DELETE.
RemoveWatch(h) == RemoveRead(h) \/ RemoveWrite(h)

-----------------------------------------------------------------------------
\* MaxRows bounds the rows of the model.
MaxRows == 3

WatchlistNext ==
    \E h \in Handlers :
        \/ row < MaxRows /\ UpsertWatch(h)
        \/ RemoveWatch(h)
        \/ Lost(h) /\ UNCHANGED <<watch, row, story, gap, behind>>

WatchlistSpec == WatchlistInit /\ [][WatchlistNext]_watchlistVars

-----------------------------------------------------------------------------
(* Properties. *)

Reminder == Times \cup {NoTime, Unwatched}

\* The values each variable takes.
WatchlistTypeOK ==
    /\ watch \in Reminder
    /\ row \in Nat
    /\ story \in Reminder
    /\ gap \in BOOLEAN
    /\ behind \in BOOLEAN
    /\ req \in [Handlers -> {Idle} \cup [op : {"upsert", "remove"}, to : Reminder,
                                         from : Reminder, row : Nat]]
    /\ stale \in [Handlers -> BOOLEAN]

\* The history is a chain, each entry starting from what the one before left, unless a
\* request wrote over what it had not seen: it is the product's record of the watch.
HistoryIsAChain == behind \/ ~gap

\* The chain ends in what the row says, with the same exception.
HistoryTells == behind \/ story = watch

=============================================================================
