------------------------------- MODULE Requests -------------------------------
(***************************************************************************)
(* Requests in progress.  The server runs the handlers of one process in   *)
(* turns, and of several processes at once: between two awaits a handler   *)
(* is not interrupted, at an await any other may go on.  A request is the  *)
(* name of the await it waits at, the row it works on and what it has read *)
(* before.                                                                 *)
(***************************************************************************)
CONSTANTS
    Procs, \* requests that may be in progress at once
    None

VARIABLE req

NoRequest == [at |-> "idle", row |-> None, seen |-> None]

ReqInit == req = [p \in Procs |-> NoRequest]

Idle(p) == req[p].at = "idle"
At(p, at) == req[p].at = at

Begins(p, at, row, seen) ==
    /\ Idle(p)
    /\ req' = [req EXCEPT ![p] = [at |-> at, row |-> row, seen |-> seen]]

GoesTo(p, at) ==
    req' = [req EXCEPT ![p] = [at |-> at, row |-> req[p].row, seen |-> req[p].seen]]

Ends(p) == req' = [req EXCEPT ![p] = NoRequest]

(* The process dies, or an await throws: the rest of the handler is lost. *)
Dies(p) == ~Idle(p) /\ Ends(p)

Waiting(at, row) == {p \in Procs : req[p].at = at /\ req[p].row = row}
=============================================================================
