------------------------------ MODULE LoginLimit ------------------------------
(***************************************************************************)
(* Failed logins of one account from one address: the limiter of the API   *)
(* process (LoginRateLimiter: a window of failures and a lock, under one   *)
(* key), the lock in the user's row, and the logins under way, which wait  *)
(* for the database between the limiter's check, the user's row and the    *)
(* limiter's record of how it ended.                                       *)
(***************************************************************************)
EXTENDS Naturals, FiniteSets

CONSTANTS
    Logins,      \* login requests the API can work on at a time
    Threshold    \* auth_rate_limit_threshold

ASSUME LoginAssumption == Threshold \in Nat \ {0} /\ IsFiniteSet(Logins)

VARIABLES
    window,      \* failures of the key that are in the window
    held,        \* the key's lock lies in the future
    lockedUntil, \* users.locked_until: null, past or future
    login,       \* per request: idle, checked, or it has read the user's row
    wrong,       \* its password is wrong
    guesses      \* history: wrong passwords tried since the key was last clean

loginVars == <<window, held, lockedUntil, login, wrong, guesses>>

LoginInit ==
    /\ window = 0
    /\ held = FALSE
    /\ lockedUntil = "null"
    /\ login = [l \in Logins |-> "idle"]
    /\ wrong = [l \in Logins |-> FALSE]
    /\ guesses = 0

-----------------------------------------------------------------------------
(* The limiter; its three operations hold a mutex. *)

\* check: a key whose lock lies in the future is refused.
Allowed == ~held

\* Seeded fault: one failure too many is allowed.
FailuresLock_Late(n) == n > Threshold

\* record_failure locks once the window holds threshold failures ...
FailuresLock(n) == n >= Threshold

\* Seeded fault: the window is not emptied.
RecordFailure_KeepsWindow ==
    /\ window' = window + 1
    /\ held' = (held \/ FailuresLock(window + 1))

\* ... and starts a new window.
RecordFailure ==
    /\ window' = IF FailuresLock(window + 1) THEN 0 ELSE window + 1
    /\ held' = (held \/ FailuresLock(window + 1))

\* record_success forgets the key's failures and its lock.
RecordSuccess == window' = 0 /\ held' = FALSE

-----------------------------------------------------------------------------
(* AuthService.login. *)

LoginCheck(l, isWrong) ==
    /\ login[l] = "idle"
    /\ Allowed
    /\ login' = [login EXCEPT ![l] = "checked"]
    /\ wrong' = [wrong EXCEPT ![l] = isWrong]
    /\ UNCHANGED <<window, held, lockedUntil, guesses>>

\* The user's row is read; an account that is locked is refused.
LoginReadUser(l) ==
    /\ login[l] = "checked"
    /\ login' = [login EXCEPT ![l] = IF lockedUntil = "future" THEN "idle" ELSE "read"]
    /\ UNCHANGED <<window, held, lockedUntil, wrong, guesses>>

\* A wrong password: the limiter records it at once, the row is written later.
LoginFails(l) ==
    /\ login[l] = "read"
    /\ wrong[l]
    /\ RecordFailure
    /\ guesses' = guesses + 1
    /\ login' = [login EXCEPT ![l] = IF held' THEN "locking" ELSE "idle"]
    /\ UNCHANGED <<lockedUntil, wrong>>

\* An address without an account, or a user without an active membership: only
\* the limiter records it.
LoginRefused(l) ==
    /\ login[l] \in {"checked", "read"}
    /\ wrong[l]
    /\ RecordFailure
    /\ guesses' = guesses + 1
    /\ login' = [login EXCEPT ![l] = "idle"]
    /\ UNCHANGED <<lockedUntil, wrong>>

\* set_locked, when the limiter's answer was that the key is locked.
SetLocked(l) ==
    /\ login[l] = "locking"
    /\ lockedUntil' = "future"
    /\ login' = [login EXCEPT ![l] = "idle"]
    /\ UNCHANGED <<window, held, wrong, guesses>>

\* record_login clears locked_until.
RecordLogin == lockedUntil' = "null"

LoginSucceeds(l) ==
    /\ login[l] = "read"
    /\ ~wrong[l]
    /\ RecordLogin
    /\ RecordSuccess
    /\ guesses' = 0
    /\ login' = [login EXCEPT ![l] = "idle"]
    /\ UNCHANGED <<wrong>>

\* POST /auth/login
LoginRequest(l) ==
    \/ \E isWrong \in BOOLEAN : LoginCheck(l, isWrong)
    \/ LoginReadUser(l)
    \/ LoginFails(l)
    \/ LoginRefused(l)
    \/ SetLocked(l)
    \/ LoginSucceeds(l)

-----------------------------------------------------------------------------
(* Time, and the process that holds the limiter. *)

FailureForgotten ==
    /\ window > 0
    /\ window' = window - 1
    /\ guesses' = IF guesses > 0 THEN guesses - 1 ELSE 0
    /\ UNCHANGED <<held, lockedUntil, login, wrong>>

\* The key's lock passes, what it locked out is forgotten.
KeyUnlocks ==
    /\ held
    /\ held' = FALSE
    /\ guesses' = window
    /\ UNCHANGED <<window, lockedUntil, login, wrong>>

RowUnlocks ==
    /\ lockedUntil = "future"
    /\ lockedUntil' = "past"
    /\ UNCHANGED <<window, held, login, wrong, guesses>>

\* The API process restarts: the limiter is empty, requests are gone.
ApiRestarts ==
    /\ window' = 0
    /\ held' = FALSE
    /\ guesses' = 0
    /\ login' = [l \in Logins |-> "idle"]
    /\ UNCHANGED <<lockedUntil, wrong>>

LoginNext ==
    \/ \E l \in Logins : LoginRequest(l)
    \/ FailureForgotten
    \/ KeyUnlocks
    \/ RowUnlocks
    \/ ApiRestarts

LoginSpec == LoginInit /\ [][LoginNext]_loginVars

-----------------------------------------------------------------------------
(* Properties. *)

\* The values each variable takes.
LoginTypeOK ==
    /\ window \in 0 .. Threshold
    /\ held \in BOOLEAN
    /\ lockedUntil \in {"null", "past", "future"}
    /\ login \in [Logins -> {"idle", "checked", "read", "locking"}]
    /\ wrong \in [Logins -> BOOLEAN]
    /\ guesses \in Nat

\* The limiter lets through no more wrong passwords than its threshold and those
\* that had passed its check when it locked the key.
GuessesBounded == guesses <= Threshold + Cardinality(Logins) - 1

=============================================================================
