------------------------------- MODULE Requests -------------------------------
(***************************************************************************)
(* REST handlers between two steps.  A handler opens a database session,   *)
(* reads, decides and then writes; SQLite's lock is taken by its first     *)
(* write and held until it commits, so a handler is two steps: up to the   *)
(* last read it decides on, and the rest.  What it has read is its request *)
(* record; a handler that changes nothing is no step.                      *)
(***************************************************************************)
CONSTANT Handlers      \* requests the API can work on at a time

VARIABLES
    req,               \* per handler: idle, or what it does and what it has read
    stale              \* another handler has committed a change since

requestVars == <<req, stale>>

Idle == [op |-> "idle"]

NoRequests ==
    /\ req = [h \in Handlers |-> Idle]
    /\ stale = [h \in Handlers |-> FALSE]

Busy(h, op) == req[h].op = op

\* A request with fields r has read what it decides on.
Begin(h, r) ==
    /\ req[h] = Idle
    /\ req' = [req EXCEPT ![h] = r]
    /\ stale' = [stale EXCEPT ![h] = FALSE]

\* It commits, or gives up.
End(h) ==
    /\ req' = [req EXCEPT ![h] = Idle]
    /\ stale' = [stale EXCEPT ![h] = FALSE]

\* It commits a change that others under way have not seen: they are stale.
EndAndOvertake(h) ==
    /\ req' = [req EXCEPT ![h] = Idle]
    /\ stale' = [x \in Handlers |-> x # h /\ req[x] # Idle]

\* An exception, a client that hangs up or a process that dies: rolled back.
Lost(h) ==
    /\ req[h] # Idle
    /\ End(h)

=============================================================================
