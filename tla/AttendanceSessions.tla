--------------------------- MODULE AttendanceSessions ---------------------------
(***************************************************************************)
(* The head counts of one service on one date, one per branch, and the     *)
(* check-ins that are their details:                                       *)
(* src/attendance/attendance-sessions.service.ts, attendance.service.ts    *)
(* and attendance-session-links.ts.                                        *)
(*                                                                         *)
(* A check-in looks for its session before it is stored; a session takes   *)
(* over the details that are there when it is stored.  The two are not in  *)
(* one transaction, and a bulk of check-ins looks only once.               *)
(***************************************************************************)
EXTENDS Integers, FiniteSets, Requests

CONSTANTS
    People,   \* members and visitors: each has one check-in for the date
    Branches,
    Home,     \* the branch of each; None of a visitor who only left a name
    Batch     \* bound on the records of a bulk

ASSUME AttendanceAssumption ==
    /\ Batch \in Nat \ {0}
    /\ IsFiniteSet(People) /\ IsFiniteSet(Procs)
    /\ None \notin Branches /\ Home \in [People -> Branches \cup {None}]

VARIABLES
    service,  \* "none", "live", "archived" or "deleted"
    parent,   \* its branch, None if it is for the whole church
    sessions, \* attendance_sessions: (service, branch, date) is unique
    checkin,  \* attendance: the session of each, and the branch it was looked for in
    took      \* history: which loose details a session took over

attendanceVars == <<service, parent, sessions, checkin, took, req>>

NotHere == [state |-> "none", session |-> None, sought |-> None]

AttendanceInit ==
    /\ service = "none" /\ parent = None
    /\ sessions = {}
    /\ checkin = [m \in People |-> NotHere]
    /\ took = [b \in Branches |-> "nothing"]
    /\ ReqInit

CheckedIn(m) == checkin[m].state = "here"
Loose(m) == CheckedIn(m) /\ checkin[m].session = None
Exists == service \in {"live", "archived"}

CreateService(b) ==
    /\ service = "none"
    /\ service' = "live" /\ parent' = b
    /\ UNCHANGED <<sessions, checkin, took, req>>

ArchiveService ==
    /\ service = "live"
    /\ service' = "archived"
    /\ UNCHANGED <<parent, sessions, checkin, took, req>>

RestoreService ==
    /\ service = "archived"
    /\ service' = "live"
    /\ UNCHANGED <<parent, sessions, checkin, took, req>>

UpdateService(p) ==
    /\ service = "live"
    /\ Begins(p, "edit", None, None)
    /\ UNCHANGED <<service, parent, sessions, checkin, took>>

(* The service moves to another branch; what was recorded of it does not.  *)
EditService(p, b) ==
    /\ At(p, "edit")
    /\ parent' = IF Exists THEN b ELSE parent
    /\ Ends(p)
    /\ UNCHANGED <<service, sessions, checkin, took>>

(* Check-ins and sessions are counted first. *)
DeleteService(p) ==
    /\ Exists
    /\ sessions = {} /\ \A m \in People : ~CheckedIn(m)
    /\ Begins(p, "dropService", None, None)
    /\ UNCHANGED <<service, parent, sessions, checkin, took>>

(* A session stored meanwhile makes it fail; a check-in loses the service. *)
DropService(p) ==
    /\ At(p, "dropService")
    /\ Ends(p)
    /\ IF sessions # {} \/ ~Exists
         THEN UNCHANGED <<service, checkin>>
         ELSE /\ service' = "deleted"
              /\ checkin' = [m \in People |-> NotHere]
    /\ UNCHANGED <<parent, sessions, took>>

-----------------------------------------------------------------------------
(* Check-ins *)

(* Who records is of one branch, or of the headquarters (None). *)
Viewers == Branches \cup {None}
Visible(v) == v \in {None, parent}

(* The headquarters have no branch to look in for the whole church. *)
LookedFor(v) == IF parent # None THEN parent ELSE v

(* recordAttendance and recordVisitorAttendance; archived services count.  *)
RecordAttendance(p, m, v) ==
    /\ Exists /\ Visible(v)
    /\ Begins(p, "look", {m}, LookedFor(v))
    /\ UNCHANGED <<service, parent, sessions, checkin, took>>

RecordBulkAttendance(p, ms, v) ==
    /\ Exists /\ Visible(v)
    /\ ms # {} /\ Cardinality(ms) <= Batch
    /\ Begins(p, "look", ms, LookedFor(v))
    /\ UNCHANGED <<service, parent, sessions, checkin, took>>

(* Slip: the session is not looked for. *)
SlipSessionFound(b) == None

(* attendanceSessionId *)
SessionFound(b) == IF b \in sessions THEN b ELSE None

FindSession(p) ==
    LET sought == req[p].seen IN
    /\ At(p, "look")
    /\ req' = [req EXCEPT ![p].at = "checkIn",
                          ![p].seen = [session |-> SessionFound(sought), sought |-> sought]]
    /\ UNCHANGED <<service, parent, sessions, checkin, took>>

(* The next record; who is checked in already is skipped. *)
CheckIn(p, m) ==
    /\ At(p, "checkIn")
    /\ m \in req[p].row
    /\ checkin' = IF CheckedIn(m) \/ ~Exists THEN checkin
                  ELSE [checkin EXCEPT ![m] = [state |-> "here", session |-> req[p].seen.session,
                                               sought |-> req[p].seen.sought]]
    /\ IF req[p].row = {m}
         THEN Ends(p)
         ELSE req' = [req EXCEPT ![p].row = @ \ {m}]
    /\ UNCHANGED <<service, parent, sessions, took>>

DeleteAttendance(m) ==
    /\ CheckedIn(m)
    /\ checkin' = [checkin EXCEPT ![m] = NotHere]
    /\ UNCHANGED <<service, parent, sessions, took, req>>

-----------------------------------------------------------------------------
(* The session *)

(* Of the service's branch, or of any for the whole church. *)
RecordSession(p, b) ==
    /\ service = "live"
    /\ parent \in {None, b}
    /\ Begins(p, "session", b, parent)
    /\ UNCHANGED <<service, parent, sessions, checkin, took>>

InsertSession(p) ==
    /\ At(p, "session")
    /\ IF req[p].row \in sessions \/ ~Exists
         THEN Ends(p) /\ UNCHANGED sessions
         ELSE GoesTo(p, "attach") /\ sessions' = sessions \cup {req[p].row}
    /\ UNCHANGED <<service, parent, checkin, took>>

(* Of a service for the whole church, a branch takes over its own people.  *)
Takes(how, b, m) == how = "all" \/ (how = "own" /\ Home[m] = b)

AttachDetails(p) ==
    LET b == req[p].row
        how == IF req[p].seen = None THEN "own" ELSE "all"
    IN
    /\ At(p, "attach")
    /\ checkin' = [m \in People |-> IF Loose(m) /\ Takes(how, b, m)
                                      THEN [checkin[m] EXCEPT !.session = b] ELSE checkin[m]]
    /\ took' = [took EXCEPT ![b] = how]
    /\ Ends(p)
    /\ UNCHANGED <<service, parent, sessions>>

AttendanceDies(p) == Dies(p) /\ UNCHANGED <<service, parent, sessions, checkin, took>>

AttendanceNext ==
    \/ ArchiveService \/ RestoreService
    \/ \E b \in Branches \cup {None} : CreateService(b)
    \/ \E m \in People : DeleteAttendance(m)
    \/ \E p \in Procs :
          \/ UpdateService(p) \/ DeleteService(p) \/ DropService(p)
          \/ FindSession(p) \/ InsertSession(p) \/ AttachDetails(p) \/ AttendanceDies(p)
          \/ \E b \in Branches \cup {None} : EditService(p, b)
          \/ \E b \in Branches : RecordSession(p, b)
          \/ \E m \in People : CheckIn(p, m)
          \/ \E v \in Viewers :
                \/ \E m \in People : RecordAttendance(p, m, v)
                \/ \E ms \in SUBSET People : RecordBulkAttendance(p, ms, v)

AttendanceSpec == AttendanceInit /\ [][AttendanceNext]_attendanceVars

-----------------------------------------------------------------------------
AttendanceTypeOK ==
    /\ service \in {"none", "live", "archived", "deleted"}
    /\ parent \in Branches \cup {None} /\ sessions \subseteq Branches
    /\ checkin \in [People -> [state : {"none", "here"}, session : sessions \cup {None},
                               sought : Branches \cup {None}]]
    /\ took \in [Branches -> {"nothing", "all", "own"}]
    /\ \A b \in Branches : took[b] # "nothing" => b \in sessions
    /\ sessions # {} => Exists

(* The details a session should have and does not, and those that are      *)
(* going to be left out.                                                   *)
Owed(b) == {m \in People : Loose(m) /\ checkin[m].sought = b /\ Takes(took[b], b, m)}
Late(b) == {x \in Procs \X People :
               /\ At(x[1], "checkIn") /\ req[x[1]].seen = [session |-> None, sought |-> b]
               /\ x[2] \in req[x[1]].row}

(* A check-in that looked before the session was stored and is written     *)
(* after the session took over its details is attached by neither; but     *)
(* only such a one: once a session took over the details of its service,   *)
(* those left out that looked for it, with those still to come, are never  *)
(* more than the requests in progress at once can bring (attachDetails,    *)
(* attendanceSessionId).                                                   *)
LooseFollowRaces ==
    \A b \in Branches : took[b] # "nothing" =>
        Cardinality(Owed(b)) + Cardinality(Late(b)) <= Batch * Cardinality(Procs)
=============================================================================
