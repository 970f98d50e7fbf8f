----------------------------- MODULE PlanCapacity -----------------------------
(***************************************************************************)
(* What a church's plan has room for: members, locations and staff.  The   *)
(* trigger churchos_check_capacity of                                      *)
(* prisma/migrations/20261019140000_subscription_entitlements locks the    *)
(* church's row, counts, and lets the write go on or raises; the lock is   *)
(* kept until the transaction commits.  A staff member is invited over     *)
(* several awaits, and a reservation of fifteen minutes keeps the seat     *)
(* (billing/entitlements.ts, company-email/staff-invitation.service.ts).   *)
(*                                                                         *)
(* A person of the staff is named by the e-mail address, which does not    *)
(* change here.                                                            *)
(***************************************************************************)
EXTENDS Integers, FiniteSets, Requests

CONSTANTS
    Members, Locations, Staff,
    Plans  \* what the plans have room for, by resource

ASSUME PlanAssumption ==
    /\ Plans \subseteq [{"members", "locations", "staff"} -> Nat]
    /\ IsFiniteSet(Members) /\ IsFiniteSet(Locations) /\ IsFiniteSet(Staff)
    /\ Members \cap Locations = {}
    /\ None \notin Procs

VARIABLES
    plan,        \* what the church's plan has room for
    row,         \* members and branches that count: live, not archived
    staff,       \* profiles: "none", "active" or "inactive"
    seat,        \* staff_invitation_reservations, and who made them
    identity,    \* addresses with an account at the identity provider
    churchLock   \* the transaction that holds the church's row

planVars == <<plan, row, staff, seat, identity, churchLock, req>>

Free == [state |-> "free", by |-> None]

PlanInit ==
    /\ plan \in Plans
    /\ row = {}
    /\ staff = [e \in Staff |-> "none"]
    /\ seat = [e \in Staff |-> Free]
    /\ identity = {}
    /\ churchLock = None
    /\ ReqInit

-----------------------------------------------------------------------------
(* The trigger *)

Active == {e \in Staff : staff[e] = "active"}
Held == {e \in Staff : seat[e].state = "held"}
LiveOf(kind) == kind \cap row

RowHasRoom(r) ==
    IF r \in Members
    THEN Cardinality(LiveOf(Members)) < plan["members"]
    ELSE Cardinality(LiveOf(Locations)) < plan["locations"]

(* The reservation under the row's own address does not count. *)
StaffHasRoom(e) ==
    Cardinality(Active) + Cardinality(Held \ {e}) < plan["staff"]

(* Slip: the church's row is not locked. *)
SlipUnlocked == TRUE

Unlocked == churchLock = None

(* A transaction that adds a row passes the trigger, and commits later. *)
Adding(p, at, x) ==
    /\ Unlocked
    /\ churchLock' = p
    /\ req' = [req EXCEPT ![p] = [at |-> at, row |-> x, seen |-> None]]

AddRow(p, r) ==
    /\ Idle(p)
    /\ r \notin row
    /\ RowHasRoom(r)
    /\ Adding(p, "addRow", r)
    /\ UNCHANGED <<plan, row, staff, seat, identity>>

CommitRow(p) ==
    /\ At(p, "addRow")
    /\ row' = row \cup {req[p].row}
    /\ churchLock' = None
    /\ Ends(p)
    /\ UNCHANGED <<plan, staff, seat, identity>>

(* Fewer rows are always allowed. *)
ArchiveRow(r) ==
    /\ r \in row
    /\ row' = row \ {r}
    /\ UNCHANGED <<plan, staff, seat, identity, churchLock, req>>

(* A settled payment or a scheduled change, under the same lock. *)
ChangePlan(new) ==
    /\ Unlocked
    /\ plan' = new
    /\ UNCHANGED <<row, staff, seat, identity, churchLock, req>>

-----------------------------------------------------------------------------
(* Staff *)

Deactivate(e) ==
    /\ staff[e] = "active"
    /\ staff' = [staff EXCEPT ![e] = "inactive"]
    /\ UNCHANGED <<plan, row, seat, identity, churchLock, req>>

Activate(p, e) ==
    /\ Idle(p)
    /\ staff[e] = "inactive"
    /\ StaffHasRoom(e)
    /\ Adding(p, "activate", e)
    /\ UNCHANGED <<plan, row, staff, seat, identity>>

(* A profile that was deleted meanwhile cannot be written. *)
CommitActive(p) ==
    /\ At(p, "activate")
    /\ staff' = [staff EXCEPT ![req[p].row] = IF @ = "none" THEN @ ELSE "active"]
    /\ churchLock' = None
    /\ Ends(p)
    /\ UNCHANGED <<plan, row, seat, identity>>

(* The login goes before the profile: when the provider refuses, the       *)
(* profile stays, inactive.  Bound: no other request is about the address. *)
DeleteUserAccount(p, e) ==
    /\ staff[e] # "none"
    /\ \A q \in Procs : req[q].row # e
    /\ Begins(p, "unlink", e, None)
    /\ staff' = [staff EXCEPT ![e] = "inactive"]
    /\ UNCHANGED <<plan, row, seat, identity, churchLock>>

DeleteIdentity(p) ==
    /\ At(p, "unlink")
    /\ identity' = identity \ {req[p].row}
    /\ GoesTo(p, "dropProfile")
    /\ UNCHANGED <<plan, row, staff, seat, churchLock>>

DropProfile(p) ==
    /\ At(p, "dropProfile")
    /\ staff' = [staff EXCEPT ![req[p].row] = "none"]
    /\ Ends(p)
    /\ UNCHANGED <<plan, row, seat, identity, churchLock>>

InviteUser(p, e) ==
    /\ staff[e] = "none"
    /\ Begins(p, "reserve", e, None)
    /\ UNCHANGED <<plan, row, staff, seat, identity, churchLock>>

Reservable(e) == e \notin Held /\ staff[e] # "active" /\ StaffHasRoom(e)

ReserveStaffSeat(p) ==
    /\ At(p, "reserve")
    /\ IF Reservable(req[p].row)
         THEN Adding(p, "reserving", req[p].row)
         ELSE Unlocked /\ Ends(p) /\ UNCHANGED churchLock
    /\ UNCHANGED <<plan, row, staff, seat, identity>>

(* Reservations that have expired go with it. *)
CommitSeat(p) ==
    LET e == req[p].row IN
    /\ At(p, "reserving")
    /\ seat' = [f \in Staff |->
                   IF f = e THEN [state |-> "held", by |-> p]
                   ELSE IF seat[f].state = "expired" THEN Free ELSE seat[f]]
    /\ churchLock' = None
    /\ GoesTo(p, "link")
    /\ UNCHANGED <<plan, row, staff, identity>>

(* The identity provider makes the account and the link, or knows the      *)
(* address already.                                                        *)
GenerateLink(p) ==
    /\ At(p, "link")
    /\ IF req[p].row \in identity
         THEN GoesTo(p, "release") /\ UNCHANGED identity
         ELSE GoesTo(p, "profile") /\ identity' = identity \cup {req[p].row}
    /\ UNCHANGED <<plan, row, staff, seat, churchLock>>

(* The trigger raises when the seat was lost meanwhile; the account is     *)
(* deleted again, unless that fails too.                                   *)
CreateProfile(p) ==
    /\ At(p, "profile")
    /\ IF StaffHasRoom(req[p].row)
         THEN Adding(p, "invited", req[p].row) /\ UNCHANGED identity
         ELSE /\ Unlocked
              /\ GoesTo(p, "release")
              /\ identity' \in {identity, identity \ {req[p].row}}
              /\ UNCHANGED churchLock
    /\ UNCHANGED <<plan, row, staff, seat>>

CommitProfile(p) ==
    /\ At(p, "invited")
    /\ staff' = [staff EXCEPT ![req[p].row] = "active"]
    /\ churchLock' = None
    /\ GoesTo(p, "release")
    /\ UNCHANGED <<plan, row, seat, identity>>

(* By the id of the reservation: one that replaced it is left alone. *)
ReleaseStaffSeat(p) ==
    LET e == req[p].row IN
    /\ At(p, "release")
    /\ seat' = IF seat[e].by = p THEN [seat EXCEPT ![e] = Free] ELSE seat
    /\ Ends(p)
    /\ UNCHANGED <<plan, row, staff, identity, churchLock>>

(* Fifteen minutes pass. *)
SeatExpires(e) ==
    /\ e \in Held
    /\ seat' = [seat EXCEPT ![e] = [state |-> "expired", by |-> seat[e].by]]
    /\ UNCHANGED <<plan, row, staff, identity, churchLock, req>>

(* A transaction that dies is rolled back.  The name of the request may be *)
(* used again, but not while its reservation is there.                     *)
PlanDies(p) ==
    /\ Dies(p)
    /\ churchLock' = IF churchLock = p THEN None ELSE churchLock
    /\ seat' = [e \in Staff |-> IF seat[e].by = p
                                  THEN [state |-> seat[e].state, by |-> None] ELSE seat[e]]
    /\ UNCHANGED <<plan, row, staff, identity>>

PlanNext ==
    \/ \E r \in Members \cup Locations : ArchiveRow(r) \/ \E p \in Procs : AddRow(p, r)
    \/ \E new \in Plans : ChangePlan(new)
    \/ \E e \in Staff :
          \/ Deactivate(e) \/ SeatExpires(e)
          \/ \E p \in Procs : Activate(p, e) \/ InviteUser(p, e) \/ DeleteUserAccount(p, e)
    \/ \E p \in Procs :
          \/ CommitRow(p) \/ CommitActive(p) \/ ReserveStaffSeat(p) \/ CommitSeat(p)
          \/ GenerateLink(p) \/ CreateProfile(p) \/ CommitProfile(p)
          \/ ReleaseStaffSeat(p) \/ DeleteIdentity(p) \/ DropProfile(p) \/ PlanDies(p)

PlanSpec == PlanInit /\ [][PlanNext]_planVars

-----------------------------------------------------------------------------
Adders == {"addRow", "activate", "reserving", "invited"}

PlanTypeOK ==
    /\ plan \in Plans
    /\ row \subseteq Members \cup Locations
    /\ staff \in [Staff -> {"none", "active", "inactive"}]
    /\ seat \in [Staff -> [state : {"free", "held", "expired"}, by : Procs \cup {None}]]
    /\ identity \subseteq Staff
    /\ churchLock \in Procs \cup {None}
    /\ \A p \in Procs : req[p].at \in Adders <=> churchLock = p

(* Seats that are taken: people who can sign in, and addresses for which   *)
(* one is kept.                                                            *)
Seats == Active \cup Held

(* Whoever writes at the same time, whatever plan the church moves to, and *)
(* however slow an invitation is, nothing grows past what the plan in      *)
(* force has room for (churchos_check_capacity).  A smaller plan takes     *)
(* nothing away.                                                           *)
GrowsWithinPlan ==
    [][ /\ \A kind \in {Members, Locations} :
              LET used == Cardinality(kind \cap row') IN
              used > Cardinality(LiveOf(kind)) =>
                 used <= plan'[IF kind = Members THEN "members" ELSE "locations"]
        /\ Cardinality(Seats') > Cardinality(Seats) =>
              Cardinality(Seats') <= plan'["staff"]
      ]_planVars
=============================================================================
