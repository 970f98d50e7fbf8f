----------------------------- MODULE RegisterProofs -----------------------------
(***************************************************************************)
(* What a church keeps a register of, proved for any plans, people, forms, *)
(* assets, requests and bounds: every step may fall between two others.    *)
(*                                                                         *)
(* The plan.  A transaction that adds holds the church's row from its      *)
(* count until its commit.  What can happen in between only makes room:    *)
(* archiving, deactivation, a reservation that runs out.  So the room it   *)
(* has counted is still there when it commits.                             *)
(*                                                                         *)
(* Attendance.  A session is of one branch.  Once it has taken over its    *)
(* details, a record that looked for it and that it would have taken comes *)
(* in loose only from a request that looked before it was stored: one late *)
(* record less for one loose record more.  Every request brings at most a  *)
(* batch.                                                                  *)
(*                                                                         *)
(* Forms.  The device that holds the form's lock will still find what it   *)
(* found, because nobody else inserts for a device meanwhile.  Every other *)
(* request that has found the limit unreached is counted beside the        *)
(* answers that keep it; who inserts trades one for the other.             *)
(*                                                                         *)
(* Assets.  Who is about to insert a loan is counted beside the loans, so  *)
(* that an insert trades one for the other.  Who has read the asset this   *)
(* year has read what its last entry closed at, and that still is the last *)
(* line unless this year has been booked meanwhile, in which case the key  *)
(* refuses a second; if the year has changed since, the line is marked     *)
(* late.                                                                   *)
(***************************************************************************)
EXTENDS MCRegisters, FiniteSetTheorems, TLAPS

-----------------------------------------------------------------------------
(* Counting *)

LEMMA Fewer ==
    ASSUME NEW T, IsFiniteSet(T), NEW U \in SUBSET T
    PROVE  /\ IsFiniteSet(U)
           /\ Cardinality(T) \in Nat /\ Cardinality(U) \in Nat
           /\ Cardinality(U) <= Cardinality(T)
BY FS_Subset, FS_CardinalityType

LEMMA OneMore ==
    ASSUME NEW T, IsFiniteSet(T), NEW x, NEW U \in SUBSET (T \cup {x})
    PROVE  /\ IsFiniteSet(U)
           /\ Cardinality(T) \in Nat /\ Cardinality(U) \in Nat
           /\ Cardinality(U) <= Cardinality(T) + 1
<1>1. IsFiniteSet(T \cup {x}) /\ Cardinality(T) \in Nat
        /\ Cardinality(T \cup {x}) <= Cardinality(T) + 1
  BY FS_AddElement, FS_CardinalityType
<1>2. QED
  BY <1>1, Fewer

LEMMA OneLess ==
    ASSUME NEW T, IsFiniteSet(T), NEW x \in T, NEW U \in SUBSET (T \ {x})
    PROVE  /\ IsFiniteSet(U)
           /\ Cardinality(T) \in Nat /\ Cardinality(U) \in Nat
           /\ Cardinality(U) + 1 <= Cardinality(T)
<1>1. /\ IsFiniteSet(T \ {x}) /\ Cardinality(T) \in Nat
      /\ Cardinality(T \ {x}) = Cardinality(T) - 1
  BY FS_RemoveElement, FS_CardinalityType
<1>2. QED
  BY <1>1, Fewer

(* Sets of at most n elements, one for each of finitely many names, have   *)
(* together at most n times as many.                                       *)
LEMMA FewOfEach ==
    ASSUME NEW P, NEW M, IsFiniteSet(P), IsFiniteSet(M), NEW n \in Nat,
           NEW S \in SUBSET (P \X M),
           \A p \in P : Cardinality({m \in M : <<p, m>> \in S}) <= n
    PROVE  Cardinality(S) <= n * Cardinality(P)
<1> DEFINE of(p) == {m \in M : <<p, m>> \in S}
<1>1. ASSUME NEW p \in P
      PROVE  \E f \in [of(p) -> 1..n] : \A m, k \in of(p) : f[m] = f[k] => m = k
  <2>1. IsFiniteSet(of(p)) /\ Cardinality(of(p)) \in Nat
    <3>1. of(p) \in SUBSET M
      OBVIOUS
    <3>2. QED
      BY <3>1, FS_Subset, FS_CardinalityType
  <2>2. ExistsBijection(1..Cardinality(of(p)), of(p))
    BY <2>1, FS_CardinalityType
  <2>3. PICK g \in Bijection(1..Cardinality(of(p)), of(p)) : TRUE
    BY <2>2 DEF ExistsBijection
  <2>4. /\ g \in [1..Cardinality(of(p)) -> of(p)]
        /\ \A m \in of(p) : \E i \in 1..Cardinality(of(p)) : g[i] = m
    BY <2>3 DEF Bijection, Surjection
  <2> DEFINE f == [m \in of(p) |-> CHOOSE i \in 1..Cardinality(of(p)) : g[i] = m]
  <2>5. \A m \in of(p) : f[m] \in 1..Cardinality(of(p)) /\ g[f[m]] = m
    BY <2>4
  <2>6. Cardinality(of(p)) <= n
    OBVIOUS
  <2> HIDE DEF of
  <2>7. f \in [of(p) -> 1..n]
    BY <2>1, <2>5, <2>6
  <2>8. \A m, k \in of(p) : f[m] = f[k] => m = k
    BY <2>5
  <2> HIDE DEF f
  <2>9. QED
    BY <2>7, <2>8
<1> DEFINE num == [p \in P |-> CHOOSE f \in [of(p) -> 1..n] :
                                  \A m, k \in of(p) : f[m] = f[k] => m = k]
<1>2. \A p \in P : /\ num[p] \in [of(p) -> 1..n]
                   /\ \A m, k \in of(p) : num[p][m] = num[p][k] => m = k
  BY <1>1
<1> HIDE DEF num
<1> DEFINE h == [x \in S |-> <<x[1], num[x[1]][x[2]]>>]
<1>3. \A x \in S : x[1] \in P /\ x[2] \in of(x[1]) /\ x = <<x[1], x[2]>>
  OBVIOUS
<1> HIDE DEF of
<1>4. h \in [S -> P \X (1..n)]
  BY <1>2, <1>3
<1>5. ASSUME NEW x \in S, NEW y \in S, h[x] = h[y] PROVE x = y
  <2>1. x[1] = y[1] /\ num[x[1]][x[2]] = num[y[1]][y[2]]
    BY <1>5
  <2>2. x[2] = y[2]
    BY <1>2, <1>3, <2>1
  <2>3. QED
    BY <1>3, <2>1, <2>2
<1>6. h \in Injection(S, P \X (1..n))
  BY <1>4, <1>5 DEF Injection, IsInjective
<1>7. IsFiniteSet(1..n) /\ Cardinality(1..n) = n
  BY FS_Interval
<1>8. IsFiniteSet(P \X (1..n)) /\ Cardinality(P \X (1..n)) = Cardinality(P) * n
  BY <1>7, FS_Product
<1>9. Cardinality(S) <= Cardinality(P) * n
  BY <1>6, <1>8, FS_Injection
<1>10. Cardinality(P) \in Nat
  BY FS_CardinalityType
<1> HIDE DEF h
<1>11. n * Cardinality(P) = Cardinality(P) * n
  BY <1>10
<1>12. QED
  BY <1>9, <1>11

-----------------------------------------------------------------------------
(* The plan: its argument *)

PlanTyped ==
    /\ plan \in Plans
    /\ row \subseteq Members \cup Locations
    /\ DOMAIN staff = Staff /\ DOMAIN seat = Staff /\ DOMAIN req = Procs
    /\ \A p \in Procs :
          /\ At(p, "addRow") => req[p].row \in Members \cup Locations
          /\ req[p].at \notin {"idle", "addRow"} => req[p].row \in Staff

LockIsHeld == \A p \in Procs : req[p].at \in Adders <=> churchLock = p

(* Who has counted and not yet committed has the room it has seen. *)
HasRoom(p) == IF At(p, "addRow") THEN RowHasRoom(req[p].row) ELSE StaffHasRoom(req[p].row)
RoomIsKept == \A p \in Procs : req[p].at \in Adders => HasRoom(p)

PlanInv == PlanTyped /\ LockIsHeld /\ RoomIsKept

(* The property, of one step. *)
StaysWithin ==
    /\ \A kind \in {Members, Locations} :
          LET used == Cardinality(kind \cap row') IN
          used > Cardinality(LiveOf(kind)) =>
             used <= plan'[IF kind = Members THEN "members" ELSE "locations"]
    /\ Cardinality(Seats') > Cardinality(Seats) => Cardinality(Seats') <= plan'["staff"]

-----------------------------------------------------------------------------
(* Counting what the plan limits *)

LEMMA PlanFinite ==
    ASSUME NEW S \in {Staff, Members, Locations}, NEW T \in SUBSET S
    PROVE  IsFiniteSet(T) /\ Cardinality(T) \in Nat
<1>1. IsFiniteSet(S)
  BY PlanAssumption
<1>2. IsFiniteSet(T)
  BY <1>1, FS_Subset
<1>3. QED
  BY <1>2, FS_CardinalityType

LEMMA PlanFewer ==
    ASSUME NEW S \in {Staff, Members, Locations}, NEW T \in SUBSET S, NEW U \in SUBSET T
    PROVE  /\ Cardinality(T) \in Nat /\ Cardinality(U) \in Nat
           /\ Cardinality(U) <= Cardinality(T)
<1>1. IsFiniteSet(T) /\ Cardinality(T) \in Nat
  BY PlanFinite
<1>2. IsFiniteSet(U) /\ Cardinality(U) <= Cardinality(T)
  BY <1>1, FS_Subset
<1>3. QED
  BY <1>1, <1>2, FS_CardinalityType

LEMMA PlanOneMore ==
    ASSUME NEW S \in {Staff, Members, Locations}, NEW T \in SUBSET S, NEW U \in SUBSET S,
           NEW x \in S, U \subseteq T \cup {x}
    PROVE  Cardinality(U) \in Nat /\ Cardinality(T) \in Nat /\ Cardinality(U) <= Cardinality(T) + 1
<1>1. IsFiniteSet(T) /\ Cardinality(T) \in Nat
  BY PlanFinite
<1>2. IsFiniteSet(T \cup {x}) /\ Cardinality(T \cup {x}) <= Cardinality(T) + 1
  BY <1>1, FS_AddElement
<1>3. Cardinality(T \cup {x}) \in Nat
  BY <1>2, FS_CardinalityType
<1>4. Cardinality(U) <= Cardinality(T \cup {x}) /\ Cardinality(U) \in Nat
  BY <1>2, FS_Subset, FS_CardinalityType
<1>5. QED
  BY <1>1, <1>2, <1>3, <1>4

LEMMA PlanTogether ==
    ASSUME NEW T \in SUBSET Staff, NEW U \in SUBSET Staff
    PROVE  Cardinality(T \cup U) <= Cardinality(T) + Cardinality(U)
<1>1. IsFiniteSet(T) /\ IsFiniteSet(U) /\ Cardinality(T) \in Nat /\ Cardinality(U) \in Nat
  BY PlanFinite
<1>2. T \cap U \in SUBSET Staff
  OBVIOUS
<1>3. Cardinality(T \cap U) \in Nat
  BY <1>2, PlanFinite
<1>4. Cardinality(T \cup U) = Cardinality(T) + Cardinality(U) - Cardinality(T \cap U)
  BY <1>1, FS_Union
<1>5. QED
  BY <1>1, <1>3, <1>4

(* The plan gives numbers. *)
LEMMA PlanGives ==
    ASSUME plan \in Plans
    PROVE  plan["members"] \in Nat /\ plan["locations"] \in Nat /\ plan["staff"] \in Nat
BY PlanAssumption

-----------------------------------------------------------------------------
(* The shapes of steps *)

Shrinks == row' \subseteq row /\ Active' \subseteq Active /\ Held' \subseteq Held

LEMMA ShrinkingStays == ASSUME PlanTyped, Shrinks PROVE StaysWithin
<1>1. ASSUME NEW kind \in {Members, Locations}
      PROVE  ~(Cardinality(kind \cap row') > Cardinality(LiveOf(kind)))
  <2>1. kind \cap row \in SUBSET kind /\ kind \cap row' \in SUBSET (kind \cap row)
    BY DEF Shrinks
  <2>2. /\ Cardinality(kind \cap row) \in Nat /\ Cardinality(kind \cap row') \in Nat
        /\ Cardinality(kind \cap row') <= Cardinality(kind \cap row)
    BY <2>1, PlanFewer
  <2>3. QED
    BY <2>2 DEF LiveOf
<1>2. ~(Cardinality(Seats') > Cardinality(Seats))
  <2>1. Seats \in SUBSET Staff /\ Seats' \in SUBSET Seats
    BY DEF Seats, Active, Held, Shrinks
  <2>2. /\ Cardinality(Seats) \in Nat /\ Cardinality(Seats') \in Nat
        /\ Cardinality(Seats') <= Cardinality(Seats)
    BY <2>1, PlanFewer
  <2>3. QED
    BY <2>2
<1>3. QED
  BY <1>1, <1>2 DEF StaysWithin

LEMMA ShrinkingKeepsRoom ==
    ASSUME PlanTyped, Shrinks, plan' = plan
    PROVE  /\ \A r \in Members \cup Locations : RowHasRoom(r) => RowHasRoom(r)'
           /\ \A e \in Staff : StaffHasRoom(e) => StaffHasRoom(e)'
<1>1. plan["members"] \in Nat /\ plan["locations"] \in Nat /\ plan["staff"] \in Nat
  BY PlanGives DEF PlanTyped
<1>2. ASSUME NEW r \in Members \cup Locations, RowHasRoom(r) PROVE RowHasRoom(r)'
  <2>1. ASSUME NEW kind \in {Members, Locations}
        PROVE  /\ Cardinality(LiveOf(kind)) \in Nat /\ Cardinality(LiveOf(kind)') \in Nat
               /\ Cardinality(LiveOf(kind)') <= Cardinality(LiveOf(kind))
    <3>1. LiveOf(kind) \in SUBSET kind /\ LiveOf(kind)' \in SUBSET LiveOf(kind)
      BY DEF LiveOf, Shrinks
    <3>2. QED
      BY <3>1, PlanFewer
  <2>2. QED
    BY <1>1, <1>2, <2>1 DEF RowHasRoom
<1>3. ASSUME NEW e \in Staff, StaffHasRoom(e) PROVE StaffHasRoom(e)'
  <2>1. /\ Active \in SUBSET Staff /\ Active' \in SUBSET Active
        /\ Held \ {e} \in SUBSET Staff /\ (Held \ {e})' \in SUBSET (Held \ {e})
    BY DEF Active, Held, Shrinks
  <2>2. /\ Cardinality(Active) \in Nat /\ Cardinality(Active') \in Nat
        /\ Cardinality(Active') <= Cardinality(Active)
    BY <2>1, PlanFewer
  <2>3. /\ Cardinality(Held \ {e}) \in Nat /\ Cardinality((Held \ {e})') \in Nat
        /\ Cardinality((Held \ {e})') <= Cardinality(Held \ {e})
    BY <2>1, PlanFewer
  <2>4. QED
    BY <1>1, <1>3, <2>2, <2>3 DEF StaffHasRoom
<1>4. QED
  BY <1>2, <1>3

(* Nobody who adds is touched. *)
PlanQuiet ==
    /\ PlanTyped' /\ Shrinks /\ plan' = plan /\ churchLock' = churchLock
    /\ \A q \in Procs :
          req'[q] = req[q] \/ (req[q].at \notin Adders /\ req'[q].at \notin Adders)

LEMMA PlanQuietHolds == ASSUME PlanInv, PlanQuiet PROVE PlanInv' /\ StaysWithin
<1>1. LockIsHeld'
  BY DEF PlanInv, LockIsHeld, PlanQuiet, Adders
<1>2. RoomIsKept'
  <2> SUFFICES ASSUME NEW q \in Procs, req'[q].at \in Adders PROVE HasRoom(q)'
    BY DEF RoomIsKept, Adders
  <2>1. req'[q] = req[q] /\ req[q].at \in Adders /\ HasRoom(q)
    BY DEF PlanQuiet, PlanInv, RoomIsKept
  <2>2. IF At(q, "addRow") THEN req[q].row \in Members \cup Locations ELSE req[q].row \in Staff
    BY <2>1 DEF PlanInv, PlanTyped, At, Adders
  <2>3. QED
    BY <2>1, <2>2, ShrinkingKeepsRoom DEF PlanInv, PlanQuiet, HasRoom, At
<1>3. QED
  BY <1>1, <1>2, ShrinkingStays DEF PlanInv, PlanQuiet

(* A transaction passes the trigger. *)
Enters(p) ==
    /\ PlanTyped' /\ UNCHANGED <<plan, row, staff, seat>>
    /\ Unlocked /\ churchLock' = p
    /\ req'[p].at \in Adders /\ \A q \in Procs : q # p => req'[q] = req[q]
    /\ IF At(p, "addRow")' THEN RowHasRoom(req'[p].row) ELSE StaffHasRoom(req'[p].row)

LEMMA EntersHolds == ASSUME PlanInv, NEW p \in Procs, Enters(p) PROVE PlanInv' /\ StaysWithin
<1>1. \A q \in Procs : req[q].at \notin Adders
  BY PlanAssumption DEF Enters, Unlocked, PlanInv, LockIsHeld
<1>2. LockIsHeld'
  BY <1>1 DEF Enters, LockIsHeld, Adders
<1>3. RoomIsKept'
  BY <1>1 DEF Enters, RoomIsKept, HasRoom, RowHasRoom, StaffHasRoom, LiveOf, Active, Held, At, Adders
<1>4. Shrinks
  BY DEF Enters, Shrinks, Active, Held
<1>5. QED
  BY <1>2, <1>3, <1>4, ShrinkingStays DEF PlanInv, Enters

(* The lock is given back, or nobody has it. *)
PlanLeaves ==
    /\ PlanTyped' /\ StaysWithin
    /\ churchLock' = None
    /\ \A q \in Procs : req'[q].at \notin Adders \/ (req'[q] = req[q] /\ q # churchLock)

LEMMA PlanLeavesHolds == ASSUME PlanInv, PlanLeaves PROVE PlanInv' /\ StaysWithin
<1>1. \A q \in Procs : req'[q].at \notin Adders
  BY DEF PlanLeaves, PlanInv, LockIsHeld
<1>2. LockIsHeld' /\ RoomIsKept'
  BY <1>1, PlanAssumption DEF PlanLeaves, LockIsHeld, RoomIsKept, Adders
<1>3. QED
  BY <1>2 DEF PlanInv, PlanLeaves

(* One request has moved to where it is now, the others are as they were. *)
PlanMoves(p, at, x) ==
    /\ DOMAIN req' = Procs
    /\ req'[p].at = at /\ req'[p].row = x
    /\ \A q \in Procs : q # p => req'[q] = req[q]

LEMMA PlanMovesHolds ==
    ASSUME DOMAIN req = Procs, NEW p \in Procs
    PROVE  /\ \A at, x : Adding(p, at, x) => PlanMoves(p, at, x)
           /\ \A at, x : Begins(p, at, x, None) => PlanMoves(p, at, x) /\ Idle(p)
           /\ \A at : GoesTo(p, at) => PlanMoves(p, at, req[p].row)
           /\ Ends(p) => PlanMoves(p, "idle", None)
BY DEF PlanMoves, Adding, Begins, GoesTo, Ends, NoRequest

(* A step that leaves the church as it is, or makes room. *)
LEMMA QuietMoveHolds ==
    ASSUME PlanInv, NEW p \in Procs, NEW at, NEW x, PlanMoves(p, at, x),
           at \notin Adders, req[p].at \notin Adders, at # "idle" => x \in Staff,
           Shrinks, UNCHANGED <<plan, churchLock>>, DOMAIN staff' = Staff, DOMAIN seat' = Staff
    PROVE  PlanInv' /\ StaysWithin
<1>1. PlanTyped'
  BY DEF PlanInv, PlanTyped, PlanMoves, Shrinks, At, Adders
<1>2. PlanQuiet
  BY <1>1 DEF PlanQuiet, PlanMoves
<1>3. QED
  BY <1>2, PlanQuietHolds

LEMMA EnterMoveHolds ==
    ASSUME PlanInv, NEW p \in Procs, NEW at \in Adders, NEW x, Adding(p, at, x),
           UNCHANGED <<plan, row, staff, seat>>,
           IF at = "addRow" THEN x \in Members \cup Locations /\ RowHasRoom(x)
                            ELSE x \in Staff /\ StaffHasRoom(x)
    PROVE  PlanInv' /\ StaysWithin
<1>1. PlanMoves(p, at, x)
  BY PlanMovesHolds DEF PlanInv, PlanTyped
<1>2. PlanTyped'
  BY <1>1 DEF PlanInv, PlanTyped, PlanMoves, At, Adders
<1>3. Enters(p)
  BY <1>1, <1>2 DEF Enters, PlanMoves, Adding, At
<1>4. QED
  BY <1>3, EntersHolds

LEMMA LeaveMoveHolds ==
    ASSUME PlanInv, NEW p \in Procs, NEW at, NEW x, PlanMoves(p, at, x), req[p].at \in Adders,
           at \notin Adders, at # "idle" => x \in Staff, churchLock' = None, plan' = plan,
           row' \subseteq Members \cup Locations, DOMAIN staff' = Staff, DOMAIN seat' = Staff,
           StaysWithin
    PROVE  PlanInv' /\ StaysWithin
<1>1. PlanTyped'
  BY DEF PlanInv, PlanTyped, PlanMoves, At, Adders
<1>2. churchLock = p
  BY DEF PlanInv, LockIsHeld
<1>3. PlanLeaves
  BY <1>1, <1>2 DEF PlanLeaves, PlanMoves
<1>4. QED
  BY <1>3, PlanLeavesHolds

(* A commit on which the seats grow by the one that was counted. *)
LEMMA SeatFits ==
    ASSUME PlanInv, NEW e \in Staff, StaffHasRoom(e), plan' = plan, row' = row,
           Seats' \subseteq Seats \cup {e}
    PROVE  StaysWithin
<1>1. plan["staff"] \in Nat
  BY PlanGives DEF PlanInv, PlanTyped
<1>2. Active \in SUBSET Staff /\ Held \ {e} \in SUBSET Staff
  BY DEF Active, Held
<1> DEFINE others == Active \cup (Held \ {e})
<1>3. Cardinality(others) <= Cardinality(Active) + Cardinality(Held \ {e})
  BY <1>2, PlanTogether
<1>4. Seats' \in SUBSET Staff /\ others \in SUBSET Staff /\ Seats' \subseteq others \cup {e}
  BY DEF Seats, Active, Held
<1>5. /\ Cardinality(Seats') \in Nat /\ Cardinality(others) \in Nat
      /\ Cardinality(Seats') <= Cardinality(others) + 1
  BY <1>4, PlanOneMore
<1>6. Cardinality(Active) \in Nat /\ Cardinality(Held \ {e}) \in Nat
  BY <1>2, PlanFinite
<1> HIDE DEF others
<1>7. Cardinality(Seats') <= plan'["staff"]
  BY <1>1, <1>3, <1>5, <1>6 DEF StaffHasRoom
<1>8. ASSUME NEW kind \in {Members, Locations}
      PROVE  ~(Cardinality(kind \cap row') > Cardinality(LiveOf(kind)))
  <2>1. kind \cap row \in SUBSET kind
    OBVIOUS
  <2>2. Cardinality(kind \cap row) \in Nat
    BY <2>1, PlanFinite
  <2>3. QED
    BY <2>2 DEF LiveOf
<1>9. QED
  BY <1>7, <1>8 DEF StaysWithin

-----------------------------------------------------------------------------
(* The actions *)

LEMMA AddRowHolds ==
    ASSUME PlanInv, NEW p \in Procs, NEW r \in Members \cup Locations, AddRow(p, r)
    PROVE  PlanInv' /\ StaysWithin
BY EnterMoveHolds DEF AddRow, Adders

LEMMA CommitRowHolds ==
    ASSUME PlanInv, NEW p \in Procs, CommitRow(p) PROVE PlanInv' /\ StaysWithin
<1> DEFINE x == req[p].row
<1>1. /\ x \in Members \cup Locations /\ RowHasRoom(x)
      /\ row' = row \cup {x} /\ plan' = plan /\ Seats' = Seats
  BY DEF CommitRow, PlanInv, PlanTyped, RoomIsKept, HasRoom, At, Adders, Seats, Active, Held
<1>2. plan["members"] \in Nat /\ plan["locations"] \in Nat
  BY PlanGives DEF PlanInv, PlanTyped
<1>3. ASSUME NEW kind \in {Members, Locations}, x \in kind
      PROVE  Cardinality(kind \cap row') <= plan'[IF kind = Members THEN "members" ELSE "locations"]
  <2>1. LiveOf(kind) \in SUBSET kind /\ kind \cap row' \in SUBSET kind
          /\ kind \cap row' \subseteq LiveOf(kind) \cup {x}
    BY <1>1 DEF LiveOf
  <2>2. /\ Cardinality(kind \cap row') \in Nat /\ Cardinality(LiveOf(kind)) \in Nat
        /\ Cardinality(kind \cap row') <= Cardinality(LiveOf(kind)) + 1
    BY <1>3, <2>1, PlanOneMore
  <2>3. x \in Members <=> kind = Members
    BY <1>3, PlanAssumption
  <2>4. QED
    BY <1>1, <1>2, <1>3, <2>2, <2>3 DEF RowHasRoom
<1>4. ASSUME NEW kind \in {Members, Locations}, x \notin kind
      PROVE  ~(Cardinality(kind \cap row') > Cardinality(LiveOf(kind)))
  <2>1. LiveOf(kind) \in SUBSET kind /\ kind \cap row' = LiveOf(kind)
    BY <1>1, <1>4 DEF LiveOf
  <2>2. Cardinality(LiveOf(kind)) \in Nat
    BY <2>1, PlanFinite
  <2>3. QED
    BY <2>1, <2>2
<1>5. ~(Cardinality(Seats') > Cardinality(Seats))
  <2>1. Seats \in SUBSET Staff
    BY DEF Seats, Active, Held
  <2>2. Cardinality(Seats) \in Nat
    BY <2>1, PlanFinite
  <2>3. QED
    BY <1>1, <2>2
<1>6. StaysWithin
  BY <1>3, <1>4, <1>5 DEF StaysWithin
<1>7. PlanMoves(p, "idle", None)
  BY PlanMovesHolds DEF CommitRow, PlanInv, PlanTyped
<1>8. QED
  BY <1>1, <1>6, <1>7, LeaveMoveHolds DEF CommitRow, PlanInv, PlanTyped, Adders, At

LEMMA ArchiveRowHolds ==
    ASSUME PlanInv, NEW r, ArchiveRow(r) PROVE PlanInv' /\ StaysWithin
<1>1. Shrinks
  BY DEF ArchiveRow, Shrinks, Active, Held
<1>2. PlanTyped'
  BY DEF ArchiveRow, PlanInv, PlanTyped, At
<1>3. QED
  BY <1>1, <1>2, PlanQuietHolds DEF ArchiveRow, PlanQuiet

LEMMA ChangePlanHolds ==
    ASSUME PlanInv, NEW new \in Plans, ChangePlan(new) PROVE PlanInv' /\ StaysWithin
<1>1. Shrinks
  BY DEF ChangePlan, Shrinks, Active, Held
<1>2. StaysWithin
  BY <1>1, ShrinkingStays DEF PlanInv
<1>3. PlanTyped'
  BY DEF ChangePlan, PlanInv, PlanTyped, At
<1>4. PlanLeaves
  BY <1>2, <1>3, PlanAssumption DEF ChangePlan, Unlocked, PlanLeaves
<1>5. QED
  BY <1>4, PlanLeavesHolds

LEMMA StaffLeavesHolds ==
    ASSUME PlanInv, NEW e \in Staff, Deactivate(e) \/ SeatExpires(e)
    PROVE  PlanInv' /\ StaysWithin
<1>1. Shrinks
  BY DEF Deactivate, SeatExpires, PlanInv, PlanTyped, Shrinks, Active, Held
<1>2. PlanTyped' /\ UNCHANGED <<plan, churchLock, req>>
  BY DEF Deactivate, SeatExpires, PlanInv, PlanTyped, At
<1>3. QED
  BY <1>1, <1>2, PlanQuietHolds DEF PlanQuiet

LEMMA InvitesHold ==
    ASSUME PlanInv, NEW p \in Procs, NEW e \in Staff, InviteUser(p, e) \/ DeleteUserAccount(p, e)
    PROVE  PlanInv' /\ StaysWithin
<1>1. \E at \in {"reserve", "unlink"} : PlanMoves(p, at, e) /\ Idle(p)
  BY PlanMovesHolds DEF InviteUser, DeleteUserAccount, PlanInv, PlanTyped
<1>2. /\ Shrinks /\ UNCHANGED <<plan, churchLock>>
      /\ DOMAIN staff' = Staff /\ DOMAIN seat' = Staff
  BY DEF InviteUser, DeleteUserAccount, PlanInv, PlanTyped, Shrinks, Active, Held
<1>3. QED
  BY <1>1, <1>2, QuietMoveHolds DEF Idle, Adders

LEMMA ActivateHolds ==
    ASSUME PlanInv, NEW p \in Procs, NEW e \in Staff, Activate(p, e) PROVE PlanInv' /\ StaysWithin
BY EnterMoveHolds DEF Activate, Adders

LEMMA CommitActiveHolds ==
    ASSUME PlanInv, NEW p \in Procs, CommitActive(p) \/ CommitProfile(p)
    PROVE  PlanInv' /\ StaysWithin
<1> DEFINE e == req[p].row
<1>1. e \in Staff /\ StaffHasRoom(e) /\ req[p].at \in Adders
  BY DEF CommitActive, CommitProfile, PlanInv, PlanTyped, RoomIsKept, HasRoom, At, Adders
<1>2. /\ UNCHANGED <<plan, row, seat>> /\ churchLock' = None /\ DOMAIN staff' = Staff
      /\ \A f \in Staff \ {e} : staff'[f] = staff[f]
  BY <1>1 DEF CommitActive, CommitProfile, PlanInv, PlanTyped
<1>3. Seats' \subseteq Seats \cup {e}
  BY <1>2 DEF Seats, Active, Held
<1>4. StaysWithin
  BY <1>1, <1>2, <1>3, SeatFits
<1>5. PlanMoves(p, "idle", None) \/ PlanMoves(p, "release", e)
  BY PlanMovesHolds DEF CommitActive, CommitProfile, PlanInv, PlanTyped
<1>6. QED
  BY <1>1, <1>2, <1>4, <1>5, LeaveMoveHolds DEF PlanInv, PlanTyped, Adders

LEMMA ReserveHolds ==
    ASSUME PlanInv, NEW p \in Procs, ReserveStaffSeat(p) PROVE PlanInv' /\ StaysWithin
<1>1. req[p].row \in Staff /\ UNCHANGED <<plan, row, staff, seat>> /\ req[p].at = "reserve"
  BY DEF ReserveStaffSeat, PlanInv, PlanTyped, At
<1>2. CASE Reservable(req[p].row)
  BY <1>1, <1>2, EnterMoveHolds DEF ReserveStaffSeat, Reservable, Adders
<1>3. CASE ~Reservable(req[p].row)
  <2>1. PlanMoves(p, "idle", None)
    BY <1>3, PlanMovesHolds DEF ReserveStaffSeat, PlanInv, PlanTyped
  <2>2. Shrinks
    BY <1>1 DEF Shrinks, Active, Held
  <2>3. QED
    BY <1>1, <1>3, <2>1, <2>2, QuietMoveHolds DEF ReserveStaffSeat, PlanInv, PlanTyped, Adders
<1>4. QED
  BY <1>2, <1>3

LEMMA CommitSeatHolds ==
    ASSUME PlanInv, NEW p \in Procs, CommitSeat(p) PROVE PlanInv' /\ StaysWithin
<1> DEFINE e == req[p].row
<1>1. e \in Staff /\ StaffHasRoom(e) /\ req[p].at \in Adders
  BY DEF CommitSeat, PlanInv, PlanTyped, RoomIsKept, HasRoom, At, Adders
<1>2. /\ UNCHANGED <<plan, row, staff>> /\ churchLock' = None /\ DOMAIN seat' = Staff
      /\ \A f \in Staff \ {e} : seat'[f] \in {seat[f], Free}
  BY DEF CommitSeat
<1>3. Seats' \subseteq Seats \cup {e}
  BY <1>2 DEF Seats, Active, Held, Free
<1>4. StaysWithin
  BY <1>1, <1>2, <1>3, SeatFits
<1>5. PlanMoves(p, "link", e)
  BY PlanMovesHolds DEF CommitSeat, PlanInv, PlanTyped
<1>6. QED
  BY <1>1, <1>2, <1>4, <1>5, LeaveMoveHolds DEF PlanInv, PlanTyped, Adders

LEMMA GoesOnHolds ==
    ASSUME PlanInv, NEW p \in Procs,
           GenerateLink(p) \/ ReleaseStaffSeat(p) \/ DeleteIdentity(p) \/ DropProfile(p)
    PROVE  PlanInv' /\ StaysWithin
<1>1. req[p].row \in Staff /\ req[p].at \in {"link", "release", "unlink", "dropProfile"}
  BY DEF GenerateLink, ReleaseStaffSeat, DeleteIdentity, DropProfile, PlanInv, PlanTyped, At
<1>2. PlanMoves(p, "idle", None) \/ \E at \in {"release", "profile", "dropProfile"} : PlanMoves(p, at, req[p].row)
  BY PlanMovesHolds DEF GenerateLink, ReleaseStaffSeat, DeleteIdentity, DropProfile, PlanInv, PlanTyped
<1>3. UNCHANGED <<plan, row, churchLock>> /\ DOMAIN staff' = Staff /\ DOMAIN seat' = Staff
  BY <1>1 DEF GenerateLink, ReleaseStaffSeat, DeleteIdentity, DropProfile, PlanInv, PlanTyped
<1>4. Shrinks
  <2>1. \A f \in Staff : staff'[f] \in {staff[f], "none"} /\ seat'[f] \in {seat[f], Free}
    BY <1>1 DEF GenerateLink, ReleaseStaffSeat, DeleteIdentity, DropProfile, PlanInv, PlanTyped
  <2>2. QED
    BY <1>3, <2>1 DEF Shrinks, Active, Held, Free
<1>5. QED
  BY <1>1, <1>2, <1>3, <1>4, QuietMoveHolds DEF Adders

LEMMA CreateProfileHolds ==
    ASSUME PlanInv, NEW p \in Procs, CreateProfile(p) PROVE PlanInv' /\ StaysWithin
<1>1. req[p].row \in Staff /\ UNCHANGED <<plan, row, staff, seat>> /\ req[p].at = "profile"
  BY DEF CreateProfile, PlanInv, PlanTyped, At
<1>2. CASE StaffHasRoom(req[p].row)
  BY <1>1, <1>2, EnterMoveHolds DEF CreateProfile, Adders
<1>3. CASE ~StaffHasRoom(req[p].row)
  <2>1. PlanMoves(p, "release", req[p].row)
    BY <1>3, PlanMovesHolds DEF CreateProfile, PlanInv, PlanTyped
  <2>2. Shrinks
    BY <1>1 DEF Shrinks, Active, Held
  <2>3. QED
    BY <1>1, <1>3, <2>1, <2>2, QuietMoveHolds DEF CreateProfile, PlanInv, PlanTyped, Adders
<1>4. QED
  BY <1>2, <1>3

LEMMA PlanDiesHolds ==
    ASSUME PlanInv, NEW p \in Procs, PlanDies(p) PROVE PlanInv' /\ StaysWithin
<1>1. PlanMoves(p, "idle", None)
  BY PlanMovesHolds DEF PlanDies, Dies, PlanInv, PlanTyped
<1>2. UNCHANGED <<plan, row, staff>> /\ DOMAIN staff' = Staff /\ DOMAIN seat' = Staff
  BY DEF PlanDies, PlanInv, PlanTyped
<1>3. Shrinks
  BY <1>2 DEF PlanDies, Shrinks, Active, Held
<1>4. StaysWithin
  BY <1>3, ShrinkingStays DEF PlanInv
<1>5. CASE churchLock = p
  BY <1>1, <1>2, <1>4, <1>5, LeaveMoveHolds DEF PlanDies, PlanInv, PlanTyped, LockIsHeld, Adders
<1>6. CASE churchLock # p
  BY <1>1, <1>2, <1>3, <1>6, QuietMoveHolds DEF PlanDies, PlanInv, LockIsHeld, Adders
<1>7. QED
  BY <1>5, <1>6

LEMMA PlanInitHolds == PlanInit => PlanInv
BY PlanAssumption
   DEF PlanInit, ReqInit, NoRequest, PlanInv, PlanTyped, LockIsHeld, RoomIsKept, At, Adders

LEMMA PlanStepHolds ==
    PlanInv /\ [PlanNext]_planVars => PlanInv' /\ [StaysWithin]_planVars
<1> SUFFICES ASSUME PlanInv, [PlanNext]_planVars PROVE PlanInv' /\ [StaysWithin]_planVars
  OBVIOUS
<1>1. CASE UNCHANGED planVars
  BY <1>1 DEF planVars, PlanInv, PlanTyped, LockIsHeld, RoomIsKept, HasRoom, RowHasRoom, StaffHasRoom,
     LiveOf, Active, Held, At
<1>2. CASE PlanNext
  BY <1>2, AddRowHolds, CommitRowHolds, ArchiveRowHolds, ChangePlanHolds, StaffLeavesHolds,
     InvitesHold, ActivateHolds, CommitActiveHolds, ReserveHolds, CommitSeatHolds, GoesOnHolds,
     CreateProfileHolds, PlanDiesHolds DEF PlanNext
<1>3. QED
  BY <1>1, <1>2

(* Members, locations and seats of the staff grow only up to what the plan *)
(* in force has room for: churchos_check_capacity under the church's lock. *)
THEOREM GrowsWithinPlanHolds == PlanSpec => GrowsWithinPlan
<1>1. PlanInv /\ [PlanNext]_planVars => PlanInv' /\ [StaysWithin]_planVars
  BY PlanStepHolds
<1>2. QED
  BY PlanInitHolds, <1>1, PTL DEF PlanSpec, GrowsWithinPlan, StaysWithin

-----------------------------------------------------------------------------
(* Attendance *)

(* What a request that looks for a session or stores check-ins has read.    *)
AttendanceTyped ==
    /\ DOMAIN req = Procs
    /\ \A p \in Procs : At(p, "look") \/ At(p, "checkIn") =>
          req[p].row \subseteq People /\ Cardinality(req[p].row) <= Batch
    /\ \A p \in Procs : At(p, "look") => req[p].seen \in Branches \cup {None}
    /\ \A p \in Procs : At(p, "checkIn") =>
          req[p].seen \in [session : sessions \cup {None}, sought : Branches \cup {None}]
    /\ \A p \in Procs : At(p, "session") => req[p].row \in Branches
    /\ \A p \in Procs : At(p, "attach") => req[p].row \in sessions

(* The property, of one branch. *)
LooseFollow(b) ==
    took[b] # "nothing" => Cardinality(Owed(b)) + Cardinality(Late(b)) <= Batch * Cardinality(Procs)

AttendanceInv == AttendanceTypeOK /\ AttendanceTyped /\ \A b \in Branches : LooseFollow(b)

(* Who has looked for b's session in vain, with each of his records. *)
LateOf(p, b) == {m \in People : /\ At(p, "checkIn") /\ req[p].seen = [session |-> None, sought |-> b]
                                /\ m \in req[p].row}

LEMMA LooseAndLateAreFinite == ASSUME NEW b PROVE IsFiniteSet(Owed(b)) /\ IsFiniteSet(Late(b))
<1>1. Owed(b) \in SUBSET People /\ Late(b) \in SUBSET (Procs \X People)
  BY DEF Owed, Late
<1>2. IsFiniteSet(Procs \X People)
  BY FS_Product, AttendanceAssumption
<1>3. QED
  BY <1>1, <1>2, Fewer, AttendanceAssumption

LateBounded(b) == Cardinality(Late(b)) \in Nat /\ Cardinality(Late(b)) <= Batch * Cardinality(Procs)

LEMMA LateIsBounded == ASSUME NEW b PROVE AttendanceTyped => LateBounded(b)
<1> SUFFICES ASSUME AttendanceTyped PROVE LateBounded(b)
  OBVIOUS
<1> DEFINE late == Late(b)
<1>1. late \in SUBSET (Procs \X People)
  BY DEF Late
<1>2. ASSUME NEW p \in Procs PROVE Cardinality({m \in People : <<p, m>> \in late}) <= Batch
  <2>1. {m \in People : <<p, m>> \in late} = LateOf(p, b)
    BY DEF Late, LateOf
  <2> SUFFICES Cardinality(LateOf(p, b)) <= Batch
    BY <2>1
  <2>2. CASE LateOf(p, b) = {}
    BY <2>2, FS_EmptySet, AttendanceAssumption
  <2>3. CASE LateOf(p, b) # {}
    <3>1. At(p, "checkIn") /\ LateOf(p, b) \subseteq req[p].row /\ req[p].row \subseteq People
            /\ Cardinality(req[p].row) <= Batch
      BY <2>3 DEF LateOf, AttendanceTyped
    <3>2. IsFiniteSet(req[p].row)
      BY <3>1, FS_Subset, AttendanceAssumption
    <3>3. /\ IsFiniteSet(LateOf(p, b)) /\ Cardinality(LateOf(p, b)) \in Nat
          /\ Cardinality(req[p].row) \in Nat
          /\ Cardinality(LateOf(p, b)) <= Cardinality(req[p].row)
      BY <3>1, <3>2, FS_Subset, FS_CardinalityType
    <3>4. QED
      BY <3>1, <3>3, AttendanceAssumption
  <2>4. QED
    BY <2>2, <2>3
<1>3. IsFiniteSet(late)
  BY LooseAndLateAreFinite
<1> HIDE DEF late
<1>4. Cardinality(late) \in Nat /\ Cardinality(late) <= Batch * Cardinality(Procs)
  BY <1>1, <1>2, <1>3, FewOfEach, FS_CardinalityType, AttendanceAssumption
<1>5. QED
  BY <1>4 DEF LateBounded, late

LEMMA LateStaysBounded == ASSUME NEW b PROVE AttendanceTyped' => LateBounded(b)'
BY LateIsBounded, PTL

(* The property where nothing was taken over, where nothing has come in,   *)
(* and where one of the late has.                                          *)
LEMMA NobodyComesIn ==
    ASSUME NEW b, LooseFollow(b),
           took'[b] # "nothing" =>
              took[b] # "nothing" /\ Owed(b)' \subseteq Owed(b) /\ Late(b)' \subseteq Late(b)
    PROVE  LooseFollow(b)'
<1> SUFFICES ASSUME took'[b] # "nothing"
             PROVE  Cardinality(Owed(b)') + Cardinality(Late(b)') <= Batch * Cardinality(Procs)
  BY DEF LooseFollow
<1>1. Cardinality(Owed(b)) + Cardinality(Late(b)) <= Batch * Cardinality(Procs)
  BY DEF LooseFollow
<1>2. IsFiniteSet(Owed(b)) /\ IsFiniteSet(Late(b))
  BY LooseAndLateAreFinite
<1>3. /\ Cardinality(Owed(b)') <= Cardinality(Owed(b)) /\ Cardinality(Late(b)') <= Cardinality(Late(b))
      /\ Cardinality(Owed(b)) \in Nat /\ Cardinality(Owed(b)') \in Nat
      /\ Cardinality(Late(b)) \in Nat /\ Cardinality(Late(b)') \in Nat
  BY <1>2, Fewer
<1>4. Batch * Cardinality(Procs) \in Nat
  BY AttendanceAssumption, FS_CardinalityType
<1>5. QED
  BY <1>1, <1>3, <1>4

LEMMA OneComesIn ==
    ASSUME NEW b, LooseFollow(b), took' = took, NEW m, NEW x \in Late(b),
           Owed(b)' \subseteq Owed(b) \cup {m}, Late(b)' \subseteq Late(b) \ {x}
    PROVE  LooseFollow(b)'
<1> SUFFICES ASSUME took[b] # "nothing"
             PROVE  Cardinality(Owed(b)') + Cardinality(Late(b)') <= Batch * Cardinality(Procs)
  BY DEF LooseFollow
<1>1. Cardinality(Owed(b)) + Cardinality(Late(b)) <= Batch * Cardinality(Procs)
  BY DEF LooseFollow
<1>2. IsFiniteSet(Owed(b)) /\ IsFiniteSet(Late(b))
  BY LooseAndLateAreFinite
<1>3. /\ Cardinality(Owed(b)') <= Cardinality(Owed(b)) + 1
      /\ Cardinality(Owed(b)) \in Nat /\ Cardinality(Owed(b)') \in Nat
  BY <1>2, OneMore
<1>4. /\ Cardinality(Late(b)') + 1 <= Cardinality(Late(b))
      /\ Cardinality(Late(b)) \in Nat /\ Cardinality(Late(b)') \in Nat
  BY <1>2, OneLess
<1>5. Batch * Cardinality(Procs) \in Nat
  BY AttendanceAssumption, FS_CardinalityType
<1>6. QED
  BY <1>1, <1>3, <1>4, <1>5

(* The requests but p are as they were, and p neither looks nor stores.    *)
AttendanceLeaves(p) ==
    /\ DOMAIN req' = Procs /\ \A q \in Procs : q # p => req'[q] = req[q]
    /\ req'[p].at \notin {"look", "checkIn", "attach"}
    /\ req'[p].at = "session" => req'[p].row \in Branches

(* No check-in has become one that is owed. *)
CheckInsStay == \A m \in People : checkin'[m] = checkin[m] \/ ~Loose(m)'

LEMMA AttendanceInitHolds == AttendanceInit => AttendanceInv
<1> SUFFICES ASSUME AttendanceInit PROVE AttendanceInv
  OBVIOUS
<1>1. AttendanceTypeOK
  BY DEF AttendanceInit, AttendanceTypeOK, NotHere
<1>2. \A p \in Procs : req[p].at = "idle"
  BY DEF AttendanceInit, ReqInit, NoRequest
<1>3. AttendanceTyped
  BY <1>2 DEF AttendanceInit, ReqInit, AttendanceTyped, At
<1>4. QED
  BY <1>1, <1>3 DEF AttendanceInit, AttendanceInv, LooseFollow

(* A step that neither looks, nor stores, nor attaches. *)
LEMMA AttendanceQuiet ==
    ASSUME AttendanceInv, NEW p \in Procs, AttendanceLeaves(p), UNCHANGED <<sessions, took>>,
           AttendanceTypeOK', CheckInsStay
    PROVE  AttendanceInv'
<1>1. AttendanceTyped'
  BY DEF AttendanceInv, AttendanceTyped, AttendanceLeaves, At
<1>2. ASSUME NEW b \in Branches PROVE LooseFollow(b)'
  <2>1. Late(b)' \subseteq Late(b)
    BY DEF AttendanceInv, Late, AttendanceLeaves, At
  <2>2. Owed(b)' \subseteq Owed(b)
    BY DEF CheckInsStay, Owed, Loose, CheckedIn
  <2>3. QED
    BY <2>1, <2>2, NobodyComesIn DEF AttendanceInv
<1>3. QED
  BY <1>1, <1>2 DEF AttendanceInv

(* A step of no request. *)
LEMMA ServiceHolds ==
    ASSUME AttendanceInv,
           \/ ArchiveService \/ RestoreService \/ (\E b \in Branches \cup {None} : CreateService(b))
           \/ (\E m \in People : DeleteAttendance(m))
    PROVE  AttendanceInv'
<1>1. UNCHANGED <<sessions, took, req>>
  BY DEF CreateService, ArchiveService, RestoreService, DeleteAttendance
<1>2. CheckInsStay
  BY DEF CreateService, ArchiveService, RestoreService, DeleteAttendance, CheckInsStay,
     AttendanceInv, AttendanceTypeOK, Loose, CheckedIn, NotHere
<1>3. AttendanceTypeOK'
  <2>1. CASE ArchiveService \/ RestoreService \/ \E b \in Branches \cup {None} : CreateService(b)
    BY <2>1 DEF CreateService, ArchiveService, RestoreService, AttendanceInv, AttendanceTypeOK, Exists
  <2>2. CASE \E m \in People : DeleteAttendance(m)
    BY <2>2 DEF DeleteAttendance, AttendanceInv, AttendanceTypeOK, Exists, NotHere
  <2>3. QED
    BY <2>1, <2>2
<1>4. AttendanceTyped'
  BY <1>1 DEF AttendanceInv, AttendanceTyped, At
<1>5. ASSUME NEW b \in Branches PROVE LooseFollow(b)'
  <2>1. Late(b)' = Late(b)
    BY <1>1 DEF Late, At
  <2>2. Owed(b)' \subseteq Owed(b)
    BY <1>1, <1>2 DEF CheckInsStay, Owed, Loose, CheckedIn
  <2>3. QED
    BY <1>1, <2>1, <2>2, NobodyComesIn DEF AttendanceInv
<1>6. QED
  BY <1>3, <1>4, <1>5 DEF AttendanceInv

LEMMA AttendanceRequestsHold ==
    ASSUME AttendanceInv, NEW p \in Procs,
           \/ UpdateService(p) \/ DeleteService(p) \/ DropService(p) \/ AttendanceDies(p)
           \/ (\E b \in Branches \cup {None} : EditService(p, b))
           \/ (\E b \in Branches : RecordSession(p, b))
    PROVE  AttendanceInv'
<1>1. AttendanceLeaves(p)
  BY DEF UpdateService, EditService, DeleteService, DropService, RecordSession, AttendanceDies, Begins,
     Dies, Ends, NoRequest, AttendanceLeaves, AttendanceInv, AttendanceTyped
<1>2. UNCHANGED <<sessions, took>>
  BY DEF UpdateService, EditService, DeleteService, DropService, RecordSession, AttendanceDies
<1>3. CheckInsStay /\ AttendanceTypeOK'
  <2>1. CASE DropService(p)
    BY <2>1 DEF DropService, CheckInsStay, Loose, CheckedIn, NotHere, Exists, AttendanceInv, AttendanceTypeOK
  <2>2. CASE ~DropService(p)
    <3>1. UNCHANGED <<service, checkin>> /\ parent' \in Branches \cup {None}
      BY <2>2 DEF UpdateService, EditService, DeleteService, RecordSession, AttendanceDies,
         AttendanceInv, AttendanceTypeOK
    <3>2. QED
      BY <1>2, <3>1 DEF CheckInsStay, Exists, AttendanceInv, AttendanceTypeOK
  <2>3. QED
    BY <2>1, <2>2
<1>4. QED
  BY <1>1, <1>2, <1>3, AttendanceQuiet

(* Who begins to look is not late yet. *)
LEMMA LookBegins ==
    ASSUME AttendanceInv, NEW p \in Procs, NEW ms \in SUBSET People, Cardinality(ms) <= Batch,
           NEW b \in Branches \cup {None}, Begins(p, "look", ms, b),
           UNCHANGED <<service, parent, sessions, checkin, took>>
    PROVE  AttendanceInv'
<1>1. /\ DOMAIN req' = Procs
      /\ req'[p].at = "look" /\ req'[p].row = ms /\ req'[p].seen = b
      /\ \A q \in Procs : q # p => req'[q] = req[q]
  BY DEF AttendanceInv, AttendanceTyped, Begins
<1>2. AttendanceTyped' /\ AttendanceTypeOK'
  BY <1>1 DEF AttendanceInv, AttendanceTyped, AttendanceTypeOK, At, Exists
<1>3. ASSUME NEW c \in Branches PROVE LooseFollow(c)'
  <2>1. Late(c)' \subseteq Late(c) /\ Owed(c)' = Owed(c)
    BY <1>1 DEF Late, Owed, Loose, CheckedIn, At
  <2>2. QED
    BY <2>1, NobodyComesIn DEF AttendanceInv
<1>4. QED
  BY <1>2, <1>3 DEF AttendanceInv

LEMMA LooksBegin ==
    ASSUME AttendanceInv, NEW p \in Procs, NEW v \in Viewers,
           (\E m \in People : RecordAttendance(p, m, v))
             \/ \E ms \in SUBSET People : RecordBulkAttendance(p, ms, v)
    PROVE  AttendanceInv'
<1>1. LookedFor(v) \in Branches \cup {None}
  BY DEF LookedFor, Viewers, AttendanceInv, AttendanceTypeOK
<1>2. CASE \E m \in People : RecordAttendance(p, m, v)
  <2>1. PICK m \in People : RecordAttendance(p, m, v)
    BY <1>2
  <2>2. Cardinality({m}) = 1 /\ {m} \in SUBSET People
    BY FS_Singleton
  <2>3. QED
    BY <1>1, <2>1, <2>2, LookBegins, AttendanceAssumption DEF RecordAttendance
<1>3. CASE \E ms \in SUBSET People : RecordBulkAttendance(p, ms, v)
  BY <1>1, <1>3, LookBegins DEF RecordBulkAttendance
<1>4. QED
  BY <1>2, <1>3

(* Who looks for a session that has taken over its details finds it. *)
LEMMA FindSessionHolds ==
    ASSUME AttendanceInv, NEW p \in Procs, FindSession(p) PROVE AttendanceInv'
<1> DEFINE sought == req[p].seen
           seen == [session |-> SessionFound(sought), sought |-> sought]
<1>1. At(p, "look") /\ sought \in Branches \cup {None} /\ UNCHANGED <<service, parent, sessions, checkin, took>>
  BY DEF FindSession, AttendanceInv, AttendanceTyped
<1>2. /\ DOMAIN req' = Procs
      /\ req'[p].at = "checkIn" /\ req'[p].row = req[p].row /\ req'[p].seen = seen
      /\ \A q \in Procs : q # p => req'[q] = req[q]
  <2>1. DOMAIN req = Procs
    BY DEF AttendanceInv, AttendanceTyped
  <2>2. req' = [req EXCEPT ![p] = [req[p] EXCEPT !.at = "checkIn", !.seen = seen]]
    BY <2>1 DEF FindSession
  <2>3. QED
    BY <2>1, <2>2
<1>3. SessionFound(sought) \in sessions \cup {None}
  BY DEF SessionFound
<1>4. seen \in [session : sessions \cup {None}, sought : Branches \cup {None}]
  BY <1>1, <1>3
<1>5. AttendanceTypeOK' /\ AttendanceTyped'
  BY <1>1, <1>2, <1>4 DEF AttendanceInv, AttendanceTyped, AttendanceTypeOK, At, Exists
<1>6. ASSUME NEW b \in Branches PROVE LooseFollow(b)'
  <2>1. took[b] # "nothing" => seen # [session |-> None, sought |-> b]
    BY AttendanceAssumption DEF SessionFound, AttendanceInv, AttendanceTypeOK
  <2> HIDE DEF seen
  <2>2. took[b] # "nothing" => Late(b)' \subseteq Late(b)
    BY <1>1, <1>2, <2>1 DEF Late, At
  <2>3. Owed(b)' = Owed(b)
    BY <1>1 DEF Owed, Loose, CheckedIn
  <2>4. QED
    BY <1>1, <2>2, <2>3, NobodyComesIn DEF AttendanceInv
<1>7. QED
  BY <1>5, <1>6 DEF AttendanceInv

LEMMA CheckInHolds ==
    ASSUME AttendanceInv, NEW p \in Procs, NEW m \in People, CheckIn(p, m)
    PROVE  AttendanceInv'
<1> DEFINE new == [state |-> "here", session |-> req[p].seen.session, sought |-> req[p].seen.sought]
<1>1. /\ DOMAIN req' = Procs
      /\ \A q \in Procs : q # p => req'[q] = req[q]
      /\ \/ req'[p].at = "idle" /\ req[p].row = {m}
         \/ req'[p].at = "checkIn" /\ req'[p].row = req[p].row \ {m} /\ req'[p].seen = req[p].seen
  <2>1. DOMAIN req = Procs /\ req[p].at = "checkIn"
    BY DEF CheckIn, At, AttendanceInv, AttendanceTyped
  <2>2. CASE req[p].row = {m}
    BY <2>1, <2>2 DEF CheckIn, Ends, NoRequest
  <2>3. CASE req[p].row # {m}
    <3>1. req' = [req EXCEPT ![p].row = @ \ {m}]
      BY <2>3 DEF CheckIn
    <3>2. req'[p] = [req[p] EXCEPT !.row = @ \ {m}]
      BY <2>1, <3>1
    <3>3. QED
      BY <2>1, <3>1, <3>2
  <2>4. QED
    BY <2>2, <2>3
<1>2. UNCHANGED <<service, parent, sessions, took>> /\ At(p, "checkIn") /\ m \in req[p].row
  BY DEF CheckIn
<1>3. /\ req[p].seen \in [session : sessions \cup {None}, sought : Branches \cup {None}]
      /\ req[p].row \subseteq People /\ Cardinality(req[p].row) <= Batch
  BY <1>2 DEF AttendanceInv, AttendanceTyped
<1>4. new \in [state : {"none", "here"}, session : sessions \cup {None}, sought : Branches \cup {None}]
  BY <1>3
<1>5. checkin' = checkin \/ checkin' = [checkin EXCEPT ![m] = new]
  BY DEF CheckIn
<1>6. /\ new.session = req[p].seen.session /\ new.sought = req[p].seen.sought
      /\ req[p].seen = [session |-> new.session, sought |-> new.sought]
  BY <1>3
<1> HIDE DEF new
<1>7. /\ \A k \in People : k # m => checkin'[k] = checkin[k]
      /\ checkin'[m] = checkin[m] \/ checkin'[m] = new
  BY <1>5 DEF AttendanceInv, AttendanceTypeOK
<1>8. AttendanceTypeOK'
  BY <1>2, <1>4, <1>5 DEF AttendanceInv, AttendanceTypeOK, Exists
<1>9. AttendanceTyped'
  <2>1. /\ IsFiniteSet(req[p].row) /\ req[p].row \ {m} \in SUBSET req[p].row
    BY <1>3, Fewer, AttendanceAssumption
  <2>2. /\ Cardinality(req[p].row \ {m}) <= Cardinality(req[p].row)
        /\ Cardinality(req[p].row \ {m}) \in Nat /\ Cardinality(req[p].row) \in Nat
    BY <2>1, Fewer
  <2>3. Cardinality(req[p].row \ {m}) <= Batch
    BY <1>3, <2>2, AttendanceAssumption
  <2>4. QED
    BY <1>1, <1>2, <1>3, <2>3 DEF AttendanceInv, AttendanceTyped, At
<1>10. ASSUME NEW b \in Branches PROVE LooseFollow(b)'
  <2>1. CASE req[p].seen = [session |-> None, sought |-> b]
    <3>1. Owed(b)' \subseteq Owed(b) \cup {m}
      BY <1>2, <1>7 DEF Owed, Loose, CheckedIn
    <3>2. <<p, m>> \in Late(b)
      BY <1>2, <2>1 DEF Late
    <3>3. Late(b)' \subseteq Late(b) \ {<<p, m>>}
      BY <1>1, <1>2 DEF Late, At
    <3>4. QED
      BY <1>2, <3>1, <3>2, <3>3, OneComesIn DEF AttendanceInv
  <2>2. CASE req[p].seen # [session |-> None, sought |-> b]
    <3>1. new.session # None \/ new.sought # b
      BY <1>6, <2>2
    <3>2. Owed(b)' \subseteq Owed(b)
      BY <1>2, <1>7, <3>1 DEF Owed, Loose, CheckedIn
    <3>3. Late(b)' \subseteq Late(b)
      BY <1>1, <1>2 DEF Late, At
    <3>4. QED
      BY <1>2, <3>2, <3>3, NobodyComesIn DEF AttendanceInv
  <2>3. QED
    BY <2>1, <2>2
<1>11. QED
  BY <1>8, <1>9, <1>10 DEF AttendanceInv

LEMMA InsertSessionHolds ==
    ASSUME AttendanceInv, NEW p \in Procs, InsertSession(p) PROVE AttendanceInv'
<1>1. CASE req[p].row \in sessions \/ ~Exists
  <2>1. AttendanceLeaves(p) /\ UNCHANGED <<sessions, took>> /\ CheckInsStay
    BY <1>1 DEF InsertSession, Ends, NoRequest, AttendanceLeaves, AttendanceInv, AttendanceTyped,
       CheckInsStay
  <2>2. AttendanceTypeOK'
    BY <1>1 DEF InsertSession, AttendanceInv, AttendanceTypeOK, Exists
  <2>3. QED
    BY <2>1, <2>2, AttendanceQuiet
<1>2. CASE ~(req[p].row \in sessions \/ ~Exists)
  <2>1. /\ req[p].row \in Branches /\ sessions' = sessions \cup {req[p].row}
        /\ UNCHANGED <<service, parent, checkin, took>> /\ Exists
    BY <1>2 DEF InsertSession, AttendanceInv, AttendanceTyped
  <2>2. /\ DOMAIN req' = Procs /\ req'[p].at = "attach" /\ req'[p].row = req[p].row
        /\ \A q \in Procs : q # p => req'[q] = req[q]
    BY <1>2 DEF InsertSession, GoesTo, AttendanceInv, AttendanceTyped
  <2>3. AttendanceTypeOK'
    <3>1. \A k \in People : checkin[k] \in [state : {"none", "here"}, session : sessions' \cup {None},
                                            sought : Branches \cup {None}]
      BY <2>1 DEF AttendanceInv, AttendanceTypeOK
    <3>2. checkin \in [People -> [state : {"none", "here"}, session : sessions' \cup {None},
                                  sought : Branches \cup {None}]]
      BY <3>1 DEF AttendanceInv, AttendanceTypeOK
    <3>3. QED
      BY <2>1, <3>2 DEF AttendanceInv, AttendanceTypeOK, Exists
  <2>4. AttendanceTyped'
    BY <2>1, <2>2 DEF AttendanceInv, AttendanceTyped, At
  <2>5. ASSUME NEW b \in Branches PROVE LooseFollow(b)'
    <3>1. Owed(b)' = Owed(b) /\ Late(b)' \subseteq Late(b)
      BY <2>1, <2>2 DEF Owed, Loose, CheckedIn, Late, At
    <3>2. QED
      BY <2>1, <3>1, NobodyComesIn DEF AttendanceInv
  <2>6. QED
    BY <2>3, <2>4, <2>5 DEF AttendanceInv
<1>3. QED
  BY <1>1, <1>2

(* Nothing it should take over is left behind, whatever it leaves. *)
LEMMA AttachDetailsHolds ==
    ASSUME AttendanceInv, NEW p \in Procs, AttachDetails(p) PROVE AttendanceInv'
<1>1. PICK b \in Branches : b = req[p].row /\ b \in sessions
  BY DEF AttachDetails, AttendanceInv, AttendanceTyped, AttendanceTypeOK
<1>2. PICK how \in {"own", "all"} : how = IF req[p].seen = None THEN "own" ELSE "all"
  OBVIOUS
<1>3. AttendanceLeaves(p) /\ UNCHANGED <<service, parent, sessions>>
  BY DEF AttachDetails, Ends, NoRequest, AttendanceLeaves, AttendanceInv, AttendanceTyped
<1>4. /\ took' = [took EXCEPT ![b] = how]
      /\ checkin' = [m \in People |-> IF Loose(m) /\ Takes(how, b, m)
                                      THEN [checkin[m] EXCEPT !.session = b] ELSE checkin[m]]
  BY <1>1, <1>2 DEF AttachDetails
<1>5. b # None
  BY AttendanceAssumption
<1>6. ASSUME NEW m \in People
      PROVE  /\ checkin'[m] \in [state : {"none", "here"}, session : sessions \cup {None},
                                 sought : Branches \cup {None}]
             /\ Loose(m)' => checkin'[m] = checkin[m] /\ Loose(m) /\ ~Takes(how, b, m)
  <2>1. checkin[m] \in [state : {"none", "here"}, session : sessions \cup {None},
                        sought : Branches \cup {None}]
    BY DEF AttendanceInv, AttendanceTypeOK
  <2>2. CASE Loose(m) /\ Takes(how, b, m)
    <3>1. checkin'[m] = [checkin[m] EXCEPT !.session = b]
      BY <1>4, <2>2
    <3>2. checkin'[m].session = b
      BY <2>1, <3>1
    <3>3. QED
      BY <1>1, <1>5, <2>1, <3>1, <3>2 DEF Loose
  <2>3. CASE ~(Loose(m) /\ Takes(how, b, m))
    <3>1. checkin'[m] = checkin[m]
      BY <1>4, <2>3
    <3>2. QED
      BY <2>1, <2>3, <3>1 DEF Loose, CheckedIn
  <2>4. QED
    BY <2>2, <2>3
<1>7. AttendanceTypeOK'
  <2>1. checkin' \in [People -> [state : {"none", "here"}, session : sessions \cup {None},
                                 sought : Branches \cup {None}]]
    BY <1>4, <1>6
  <2>2. QED
    BY <1>1, <1>3, <1>4, <2>1 DEF AttendanceInv, AttendanceTypeOK, Exists
<1>8. AttendanceTyped'
  BY <1>3 DEF AttendanceInv, AttendanceTyped, AttendanceLeaves, At
<1>9. ASSUME NEW c \in Branches PROVE LooseFollow(c)'
  <2>1. Late(c)' \subseteq Late(c)
    BY <1>3 DEF AttendanceInv, Late, AttendanceLeaves, At
  <2>2. CASE c = b
    <3>1. took'[b] = how
      BY <1>4 DEF AttendanceInv, AttendanceTypeOK
    <3>2. Owed(c)' = {}
      BY <1>6, <2>2, <3>1 DEF Owed, Takes
    <3>3. LateBounded(c)'
      BY <1>8, LateStaysBounded
    <3>4. QED
      BY <3>2, <3>3, FS_EmptySet DEF LooseFollow, LateBounded
  <2>3. CASE c # b
    <3>1. took'[c] = took[c]
      BY <1>4, <2>3 DEF AttendanceInv, AttendanceTypeOK
    <3>2. Owed(c)' \subseteq Owed(c)
      BY <1>6, <3>1 DEF Owed
    <3>3. QED
      BY <2>1, <3>1, <3>2, NobodyComesIn DEF AttendanceInv
  <2>4. QED
    BY <2>2, <2>3
<1>10. QED
  BY <1>7, <1>8, <1>9 DEF AttendanceInv

LEMMA AttendanceStepHolds == AttendanceInv /\ [AttendanceNext]_attendanceVars => AttendanceInv'
<1> SUFFICES ASSUME AttendanceInv, [AttendanceNext]_attendanceVars PROVE AttendanceInv'
  OBVIOUS
<1>1. CASE UNCHANGED attendanceVars
  BY <1>1 DEF attendanceVars, AttendanceInv, AttendanceTypeOK, AttendanceTyped, LooseFollow,
     Owed, Late, Loose, CheckedIn, Exists, At
<1>2. CASE AttendanceNext
  BY <1>2, ServiceHolds, AttendanceRequestsHold, LooksBegin, FindSessionHolds, CheckInHolds,
     InsertSessionHolds, AttachDetailsHolds DEF AttendanceNext
<1>3. QED
  BY <1>1, <1>2

(* Once a session has taken over the details of its service, those left    *)
(* out that looked for it, with those still to come, are at most what the  *)
(* requests in progress at once can bring (attachDetails,                  *)
(* attendanceSessionId).                                                   *)
THEOREM LooseFollowRacesHolds == AttendanceSpec => []LooseFollowRaces
<1>1. AttendanceInv => LooseFollowRaces
  BY DEF AttendanceInv, LooseFollow, LooseFollowRaces
<1>2. QED
  BY <1>1, AttendanceInitHolds, AttendanceStepHolds, PTL DEF AttendanceSpec

-----------------------------------------------------------------------------
(* Forms *)

Forms == [state : {"none", "live", "archived"}, status : {"draft", "published", "closed"},
          public : BOOLEAN, token : Nat, version : Nat]
Answer == [state : {"none", "pending", "approved", "rejected"}, way : {None, "link", "account", "device"},
           by : Users \cup {None}, value : Values \cup {None}]

Committing == {p \in Procs : At(p, "commit")}
Racers == Waiting("insert", None) \cup Committing

FormTyped ==
    /\ form \in Forms
    /\ submission \in [Submissions -> Answer] /\ IsFiniteSet(Given)
    /\ DOMAIN req = Procs /\ formLock \in Procs \cup {None}
    /\ \A p \in Procs :
          /\ At(p, "insert") => req[p].row \in Users \cup {None} /\ req[p].seen \in Values
          /\ At(p, "commit") => req[p].row \in Users /\ req[p].seen \in Values
          /\ At(p, "review") => req[p].row \in Given
          /\ At(p, "editForm") => req[p].row \in Forms /\ req[p].row.token \in 0..form.version

FormLockIsHeld == \A p \in Procs : At(p, "commit") <=> formLock = p

(* The device that holds the lock will still find what it has found. *)
HolderIsClear ==
    \A p \in Procs : At(p, "commit") =>
        /\ Cardinality(Ways({"device"})) < Limit
        /\ \A s \in Ways({"device"}) :
              submission[s].by # req[p].row /\ submission[s].value # req[p].seen

FormInv == FormTypeOK /\ FormTyped /\ FormLockIsHeld /\ HolderIsClear /\ LimitsHold

(* One request has moved to where it is now, the others are as they were. *)
FormMoves(p, at, x, y) ==
    /\ DOMAIN req' = Procs
    /\ req'[p].at = at /\ req'[p].row = x /\ req'[p].seen = y
    /\ \A q \in Procs : q # p => req'[q] = req[q]

LEMMA FormMovesHolds ==
    ASSUME DOMAIN req = Procs, NEW p \in Procs
    PROVE  /\ \A at, x, y : Begins(p, at, x, y) => FormMoves(p, at, x, y) /\ Idle(p)
           /\ Ends(p) => FormMoves(p, "idle", None, None)
BY DEF FormMoves, Begins, Ends, NoRequest

LEMMA WaysAreGiven ==
    FormTyped =>
        /\ IsFiniteSet(Given) /\ Cardinality(Given) \in Nat
        /\ \A w : /\ Ways(w) \subseteq Given /\ IsFiniteSet(Ways(w))
                  /\ Cardinality(Ways(w)) \in Nat /\ Cardinality(Ways(w)) <= Cardinality(Given)
<1> SUFFICES ASSUME FormTyped, NEW w
             PROVE  /\ IsFiniteSet(Given) /\ Cardinality(Given) \in Nat
                    /\ Ways(w) \subseteq Given /\ IsFiniteSet(Ways(w))
                    /\ Cardinality(Ways(w)) \in Nat /\ Cardinality(Ways(w)) <= Cardinality(Given)
  OBVIOUS
<1>1. IsFiniteSet(Given) /\ Ways(w) \in SUBSET Given
  BY DEF FormTyped, Ways
<1>2. QED
  BY <1>1, Fewer

LEMMA RacersAreFew ==
    /\ IsFiniteSet(Racers) /\ Cardinality(Racers) \in Nat
    /\ Cardinality(Racers) <= Cardinality(Procs) /\ Cardinality(Procs) \in Nat
<1>1. Racers \in SUBSET Procs
  BY DEF Racers, Committing, Waiting
<1>2. QED
  BY <1>1, Fewer, FormAssumption

(* What the writes of the form make of it. *)
LEMMA FormIsWritten ==
    ASSUME NEW new \in Forms, form \in Forms, FormWrite(new)
    PROVE  /\ form' \in Forms /\ form'.version = form.version + 1 /\ form'.version <= MaxVersion
           /\ form'.state = new.state /\ form'.token = new.token
BY FormAssumption DEF FormWrite, Forms, Next1

(* The answers are those that were given, whatever was said of them. *)
SameAnswers ==
    /\ Given' = Given
    /\ \A s \in Given : /\ submission'[s].way = submission[s].way
                        /\ submission'[s].by = submission[s].by
                        /\ submission'[s].value = submission[s].value

LEMMA SameWays == ASSUME SameAnswers, NEW w PROVE Ways(w)' = Ways(w)
BY DEF SameAnswers, Ways

(* Nobody has come to have more to insert. *)
LEMMA RacersLeave ==
    ASSUME FormInv, SameAnswers, Racers' \subseteq Racers PROVE LimitFollowsRaces'
<1>1. Racers' \in SUBSET Racers /\ Ways({"link", "device"})' = Ways({"link", "device"})
  BY SameWays
<1>2. Cardinality(Racers') <= Cardinality(Racers) /\ Cardinality(Racers') \in Nat
  BY <1>1, RacersAreFew, Fewer
<1>3. Cardinality(Ways({"link", "device"})) \in Nat
  BY WaysAreGiven DEF FormInv
<1>4. QED
  BY <1>1, <1>2, <1>3, RacersAreFew, FormAssumption
     DEF FormInv, LimitsHold, LimitFollowsRaces, Racers, Committing

(* A step that leaves the answers and nobody with more to do. *)
LEMMA FormQuiet ==
    ASSUME FormInv, FormTypeOK', FormTyped', SameAnswers,
           formLock' = formLock \/ (formLock' = None /\ \A p \in Procs : formLock = p => ~At(p, "commit")'),
           \A p \in Procs :
              req'[p] = req[p] \/ ~(req'[p].at = "commit" \/ (req'[p].at = "insert" /\ req'[p].row = None)),
           \A p \in Procs : formLock' = p => req'[p] = req[p]
    PROVE  FormInv'
<1>1. FormLockIsHeld'
  BY FormAssumption DEF FormInv, FormLockIsHeld, At
<1>2. Ways({"device"})' = Ways({"device"})
  BY SameWays
<1>3. \A s \in Ways({"device"}) : submission'[s].by = submission[s].by
                                    /\ submission'[s].value = submission[s].value
  BY DEF SameAnswers, Ways
<1>4. HolderIsClear'
  BY <1>1, <1>2, <1>3 DEF FormInv, HolderIsClear, FormLockIsHeld, At
<1>5. DevicesAreSerialised'
  BY <1>2, <1>3 DEF FormInv, LimitsHold, DevicesAreSerialised
<1>6. Racers' \subseteq Racers
  BY <1>1 DEF FormInv, Racers, Committing, Waiting, At, FormLockIsHeld
<1>7. QED
  BY <1>1, <1>4, <1>5, <1>6, RacersLeave DEF FormInv, LimitsHold

LEMMA FormInitHolds == FormInit => FormInv
<1> SUFFICES ASSUME FormInit PROVE FormInv
  OBVIOUS
<1>1. /\ \A p \in Procs : req[p].at = "idle"
      /\ DOMAIN req = Procs
  BY DEF FormInit, ReqInit, NoRequest
<1>2. Given = {} /\ \A w : Ways(w) = {}
  BY DEF FormInit, Given, Ways, NoSubmission
<1>3. Racers = {}
  BY <1>1 DEF Racers, Committing, Waiting, At
<1>4. IsFiniteSet({}) /\ Cardinality({}) = 0
  BY FS_EmptySet
<1>5. FormTypeOK
  BY <1>2, FormAssumption DEF FormInit, FormTypeOK
<1>6. NoSubmission \in Answer
  BY DEF NoSubmission, Answer
<1>7. FormTyped
  BY <1>1, <1>2, <1>4, <1>6 DEF FormInit, FormTyped, Forms, At
<1>8. FormLockIsHeld /\ HolderIsClear
  BY <1>1, FormAssumption DEF FormInit, FormLockIsHeld, HolderIsClear, At
<1>9. DevicesAreSerialised
  BY <1>2, <1>4, FormAssumption DEF DevicesAreSerialised
<1>10. LimitFollowsRaces
  BY <1>2, <1>3, <1>4, RacersAreFew, FormAssumption DEF LimitFollowsRaces, Racers, Committing
<1>11. QED
  BY <1>5, <1>7, <1>8, <1>9, <1>10 DEF FormInv, LimitsHold

(* The requests but p are as they were, and p has nothing more to insert. *)
FormStepsBackTo(p, at, x, y) ==
    /\ FormMoves(p, at, x, y)
    /\ at \in {"idle", "review", "editForm"}
    /\ at = "review" => x \in Given
    /\ at = "editForm" => x \in Forms /\ x.token \in 0..form'.version
    /\ form' \in Forms /\ form.version <= form'.version /\ form'.version <= MaxVersion
    /\ form'.token <= form'.version
    /\ UNCHANGED submission
    /\ formLock' = IF formLock = p THEN None ELSE formLock

LEMMA FormStepsBack ==
    ASSUME FormInv, NEW p \in Procs, NEW at, NEW x, NEW y, FormStepsBackTo(p, at, x, y)
    PROVE  FormInv'
<1> USE DEF FormStepsBackTo
<1>1. FormTyped'
  <2>1. Given' = Given
    BY DEF Given
  <2>2. \A q \in Procs : At(q, "editForm")' => req'[q].row \in Forms /\ req'[q].row.token \in 0..form'.version
    BY FormAssumption DEF FormInv, FormTyped, FormMoves, At, Forms
  <2>3. QED
    BY <2>1, <2>2 DEF FormInv, FormTyped, FormMoves, At
<1>2. FormTypeOK'
  <2>1. Given' = Given
    BY DEF Given
  <2>2. (formLock = None \/ At(formLock, "commit"))'
    BY DEF FormInv, FormTyped, FormTypeOK, FormMoves, At, FormLockIsHeld
  <2>3. form'.token \in 0..form'.version /\ form'.version \in 0..MaxVersion
          /\ form'.state \in {"none", "live", "archived"}
    BY FormAssumption DEF Forms
  <2>4. QED
    BY <2>1, <2>2, <2>3 DEF FormInv, FormTypeOK
<1>3. formLock' = formLock \/ (formLock' = None /\ \A q \in Procs : formLock = q => ~At(q, "commit")')
  BY DEF FormMoves, At
<1>4. \A q \in Procs :
         req'[q] = req[q] \/ ~(req'[q].at = "commit" \/ (req'[q].at = "insert" /\ req'[q].row = None))
  BY DEF FormMoves
<1>5. \A q \in Procs : formLock' = q => req'[q] = req[q]
  BY FormAssumption DEF FormMoves
<1>6. SameAnswers
  BY DEF SameAnswers, Given
<1>7. QED
  BY <1>1, <1>2, <1>3, <1>4, <1>5, <1>6, FormQuiet

LEMMA FormWritesHold ==
    ASSUME FormInv,
           (\E t \in {"draft", "published"}, b \in BOOLEAN : CreateForm(t, b))
             \/ CloseForm \/ ReopenForm \/ ArchiveForm \/ RestoreForm \/ RegeneratePublicToken
    PROVE  FormInv'
<1>1. \E new \in Forms : FormWrite(new) /\ new.token \in 0..form.version + 1
  <2>1. form \in Forms /\ form.token \in 0..form.version
    BY DEF FormInv, FormTyped, FormTypeOK
  <2>2. CASE \E t \in {"draft", "published"}, b \in BOOLEAN : CreateForm(t, b)
    <3>1. PICK t \in {"draft", "published"}, b \in BOOLEAN : CreateForm(t, b)
      BY <2>2
    <3> DEFINE new == [state |-> "live", status |-> t, public |-> b,
                       token |-> IF b THEN Next1 ELSE 0, version |-> 0]
    <3>2. new \in Forms /\ new.token \in 0..form.version + 1
      BY <2>1 DEF Forms, Next1
    <3>3. FormWrite(new)
      BY <3>1 DEF CreateForm
    <3>4. QED
      BY <3>2, <3>3
  <2>3. CASE CloseForm
    BY <2>1, <2>3 DEF CloseForm, Forms
  <2>4. CASE ReopenForm
    BY <2>1, <2>4 DEF ReopenForm, Forms
  <2>5. CASE ArchiveForm
    BY <2>1, <2>5 DEF ArchiveForm, Forms
  <2>6. CASE RestoreForm
    BY <2>1, <2>6 DEF RestoreForm, Forms
  <2>7. CASE RegeneratePublicToken
    BY <2>1, <2>7 DEF RegeneratePublicToken, Forms, Next1
  <2>8. QED
    BY <2>2, <2>3, <2>4, <2>5, <2>6, <2>7
<1>2. UNCHANGED <<submission, formLock, req>>
  BY DEF CreateForm, CloseForm, ReopenForm, ArchiveForm, RestoreForm, RegeneratePublicToken
<1>3. /\ form' \in Forms /\ form'.version = form.version + 1 /\ form'.version <= MaxVersion
      /\ form'.token \in 0..form'.version
  BY <1>1, FormIsWritten DEF FormInv, FormTyped
<1>4. Given' = Given
  BY <1>2 DEF Given
<1>5. FormTyped'
  <2>1. \A q \in Procs : At(q, "editForm")' => req'[q].row \in Forms /\ req'[q].row.token \in 0..form'.version
    BY <1>2, <1>3 DEF FormInv, FormTyped, At, Forms
  <2>2. QED
    BY <1>2, <1>3, <1>4, <2>1 DEF FormInv, FormTyped, At
<1>6. FormTypeOK'
  <2>1. form'.version \in 0..MaxVersion /\ form'.state \in {"none", "live", "archived"}
    BY <1>3, FormAssumption DEF Forms
  <2>2. QED
    BY <1>2, <1>3, <1>4, <2>1 DEF FormInv, FormTypeOK, At
<1>7. SameAnswers
  BY <1>2 DEF SameAnswers, Given
<1>8. QED
  BY <1>2, <1>5, <1>6, <1>7, FormQuiet

LEMMA EditFormHolds ==
    ASSUME FormInv, NEW p \in Procs, NEW t \in {"published", None}, NEW b \in BOOLEAN \cup {None},
           EditForm(p, t, b)
    PROVE  FormInv'
<1>1. /\ form \in Forms /\ req[p].row \in Forms /\ req[p].row.token \in 0..form.version
      /\ form.token \in 0..form.version
  BY DEF EditForm, FormInv, FormTyped, FormTypeOK
<1>2. TokenFor(p, b) \in 0..form.version + 1
  BY <1>1 DEF TokenFor, Next1, Forms
<1> DEFINE new == [form EXCEPT !.status = IF t = None THEN @ ELSE t,
                               !.public = IF b = None THEN @ ELSE b,
                               !.token = TokenFor(p, b)]
<1>3. new \in Forms /\ new.token = TokenFor(p, b)
  <2> DEFINE status == IF t = None THEN form.status ELSE t
             public == IF b = None THEN form.public ELSE b
  <2>1. status \in {"draft", "published", "closed"}
    BY <1>1 DEF Forms
  <2>2. public \in BOOLEAN
    BY <1>1 DEF Forms
  <2>3. TokenFor(p, b) \in Nat
    BY <1>1, <1>2 DEF Forms
  <2>4. new = [form EXCEPT !.status = status, !.public = public, !.token = TokenFor(p, b)]
    OBVIOUS
  <2> HIDE DEF status, public, new
  <2>5. QED
    BY <1>1, <2>1, <2>2, <2>3, <2>4 DEF Forms
<1>4. FormWrite(new)
  BY DEF EditForm
<1> HIDE DEF new
<1>5. /\ form' \in Forms /\ form'.version = form.version + 1 /\ form'.version <= MaxVersion
      /\ form'.token \in 0..form'.version
  BY <1>1, <1>2, <1>3, <1>4, FormIsWritten
<1>6. FormMoves(p, "idle", None, None)
  BY FormMovesHolds DEF EditForm, FormInv, FormTyped
<1>7. formLock # p
  BY DEF EditForm, FormInv, FormLockIsHeld, At
<1>8. form.version <= form'.version /\ form'.token <= form'.version
  BY <1>1, <1>5 DEF Forms
<1>9. QED
  BY <1>5, <1>6, <1>7, <1>8, FormStepsBack DEF EditForm, FormStepsBackTo

LEMMA FormGoesBack ==
    ASSUME FormInv, NEW p \in Procs,
           UpdateForm(p) \/ FormDies(p) \/ \E s \in Submissions : UpdateSubmissionStatus(p, s)
    PROVE  FormInv'
<1>1. /\ form \in Forms /\ form.token \in 0..form.version /\ form.version <= MaxVersion
      /\ form.token <= form.version
  BY FormAssumption DEF FormInv, FormTyped, FormTypeOK, Forms
<1>2. CASE UpdateForm(p)
  <2>1. FormMoves(p, "editForm", form, None) /\ Idle(p)
    BY <1>2, FormMovesHolds DEF UpdateForm, FormInv, FormTyped
  <2>2. formLock # p
    BY <2>1 DEF FormInv, FormLockIsHeld, At, Idle
  <2>3. QED
    BY <1>1, <1>2, <2>1, <2>2, FormStepsBack DEF UpdateForm, FormStepsBackTo, Forms
<1>3. CASE FormDies(p)
  <2>1. FormMoves(p, "idle", None, None)
    BY <1>3, FormMovesHolds DEF FormDies, Dies, FormInv, FormTyped
  <2>2. QED
    BY <1>1, <1>3, <2>1, FormStepsBack DEF FormDies, FormStepsBackTo, Forms
<1>4. CASE \E s \in Submissions : UpdateSubmissionStatus(p, s)
  <2>1. PICK s \in Submissions : UpdateSubmissionStatus(p, s)
    BY <1>4
  <2>2. FormMoves(p, "review", s, None) /\ Idle(p)
    BY <2>1, FormMovesHolds DEF UpdateSubmissionStatus, FormInv, FormTyped
  <2>3. formLock # p
    BY <2>2 DEF FormInv, FormLockIsHeld, At, Idle
  <2>4. s \in Given
    BY <2>1 DEF UpdateSubmissionStatus, Given
  <2>5. QED
    BY <1>1, <2>1, <2>2, <2>3, <2>4, FormStepsBack DEF UpdateSubmissionStatus, FormStepsBackTo, Forms
<1>5. QED
  BY <1>2, <1>3, <1>4

FewRacers == Cardinality(Racers) \in Nat /\ Cardinality(Racers) <= Cardinality(Procs)

LEMMA FewRacersNext == FewRacers'
<1>1. FewRacers
  BY RacersAreFew DEF FewRacers
<1>2. QED
  BY <1>1, PTL

(* A request begins that has found the limit unreached. *)
LEMMA FormEnters ==
    ASSUME FormInv, FormTypeOK', FormTyped', SameAnswers, UnderLimit,
           FormLockIsHeld', HolderIsClear'
    PROVE  FormInv'
<1>1. DevicesAreSerialised'
  <2>1. \A s \in Ways({"device"}) : submission'[s].by = submission[s].by
                                      /\ submission'[s].value = submission[s].value
    BY DEF SameAnswers, Ways
  <2>2. QED
    BY <2>1, SameWays DEF FormInv, LimitsHold, DevicesAreSerialised
<1>2. LimitFollowsRaces'
  <2>1. Cardinality(Ways({"link", "device"})) <= Limit - 1
    BY WaysAreGiven, FormAssumption DEF FormInv, UnderLimit
  <2>2. Ways({"link", "device"})' = Ways({"link", "device"})
    BY SameWays
  <2>3. Cardinality(Ways({"link", "device"})) \in Nat
    BY WaysAreGiven DEF FormInv
  <2>4. QED
    BY <2>1, <2>2, <2>3, FewRacersNext, RacersAreFew, FormAssumption
       DEF LimitFollowsRaces, Racers, Committing, FewRacers
<1>3. QED
  BY <1>1, <1>2 DEF FormInv, LimitsHold

LEMMA SubmitHolds ==
    ASSUME FormInv, NEW p \in Procs, NEW v \in Values,
           SubmitByPublicToken(p, v) \/ \E u \in Users : SubmitForm(p, u, v) \/ SubmitOffline(p, u, v)
    PROVE  FormInv'
<1>1. PICK at \in {"insert", "commit"}, x \in Users \cup {None} : FormMoves(p, at, x, v) /\ Idle(p)
  <2>1. (\E u \in Users \cup {None} : Begins(p, "insert", u, v)) \/ (\E u \in Users : Begins(p, "commit", u, v))
    BY DEF SubmitByPublicToken, SubmitForm, SubmitOffline
  <2>2. QED
    BY <2>1, FormMovesHolds DEF FormInv, FormTyped
<1>2. SameAnswers /\ UNCHANGED <<form, submission>>
  BY DEF SubmitByPublicToken, SubmitForm, SubmitOffline, SameAnswers, Given
<1>3. CASE SubmitByPublicToken(p, v) \/ \E u \in Users : SubmitForm(p, u, v)
  <2>1. at = "insert" /\ formLock' = formLock /\ formLock # p
    <3>1. \E u \in Users \cup {None} : Begins(p, "insert", u, v)
      BY <1>3 DEF SubmitByPublicToken, SubmitForm
    <3>2. req'[p].at = "insert"
      BY <3>1, FormMovesHolds DEF FormMoves, FormInv, FormTyped
    <3>3. QED
      BY <1>1, <1>3, <3>2 DEF SubmitByPublicToken, SubmitForm, FormMoves, FormInv, FormLockIsHeld, At, Idle
  <2>2. FormTyped'
    BY <1>1, <1>2, <2>1 DEF FormInv, FormTyped, FormMoves, At, SameAnswers
  <2>3. FormTypeOK'
    <3>1. (formLock = None \/ At(formLock, "commit"))'
      BY <1>1, <2>1 DEF FormInv, FormTyped, FormTypeOK, FormMoves, At
    <3>2. QED
      BY <1>2, <3>1 DEF FormInv, FormTypeOK, SameAnswers
  <2>4. FormLockIsHeld'
    BY <1>1, <2>1 DEF FormInv, FormLockIsHeld, FormMoves, At
  <2>5. CASE SubmitByPublicToken(p, v)
    <3>1. HolderIsClear'
      BY <1>1, <1>2, <2>1, SameWays DEF FormInv, HolderIsClear, FormMoves, At
    <3>2. QED
      BY <1>2, <2>2, <2>3, <2>4, <2>5, <3>1, FormEnters DEF SubmitByPublicToken
  <2>6. CASE \E u \in Users : SubmitForm(p, u, v)
    <3>1. x # None
      <4>1. PICK u \in Users : Begins(p, "insert", u, v)
        BY <2>6 DEF SubmitForm
      <4>2. req'[p].row = u
        BY <4>1, FormMovesHolds DEF FormMoves, FormInv, FormTyped
      <4>3. QED
        BY <1>1, <4>1, <4>2, FormAssumption DEF FormMoves
    <3>2. \A q \in Procs :
             req'[q] = req[q] \/ ~(req'[q].at = "commit" \/ (req'[q].at = "insert" /\ req'[q].row = None))
      BY <1>1, <2>1, <3>1 DEF FormMoves
    <3>3. \A q \in Procs : formLock' = q => req'[q] = req[q]
      BY <1>1, <2>1 DEF FormMoves
    <3>4. QED
      BY <1>2, <2>1, <2>2, <2>3, <3>2, <3>3, FormQuiet
  <2>7. QED
    BY <1>3, <2>5, <2>6
<1>4. CASE \E u \in Users : SubmitOffline(p, u, v)
  <2>1. PICK u \in Users : SubmitOffline(p, u, v)
    BY <1>4
  <2>2. FormMoves(p, "commit", u, v)
    BY <2>1, FormMovesHolds DEF SubmitOffline, FormInv, FormTyped
  <2>3. formLock = None /\ formLock' = p
    BY <2>1 DEF SubmitOffline, LockFree
  <2>4. FormTyped'
    BY <1>2, <2>2, <2>3 DEF FormInv, FormTyped, FormMoves, At, SameAnswers
  <2>5. FormTypeOK'
    <3>1. (formLock = None \/ At(formLock, "commit"))'
      BY <2>2, <2>3 DEF FormMoves, At
    <3>2. QED
      BY <1>2, <3>1 DEF FormInv, FormTypeOK, SameAnswers
  <2>6. FormLockIsHeld' /\ \A q \in Procs : At(q, "commit")' => q = p
    BY <2>2, <2>3, FormAssumption DEF FormInv, FormLockIsHeld, FormMoves, At
  <2>7. HolderIsClear'
    <3>1. Cardinality(Ways({"device"})) < Limit
      BY <2>1, WaysAreGiven, FormAssumption DEF FormInv, SubmitOffline, UnderLimit
    <3>2. \A s \in Ways({"device"}) : submission[s].by # u /\ submission[s].value # v
      BY <2>1 DEF SubmitOffline, GivenBy, Taken, Ways
    <3>3. QED
      BY <1>2, <2>2, <2>6, <3>1, <3>2, SameWays DEF HolderIsClear, FormMoves
  <2>8. QED
    BY <1>2, <2>1, <2>4, <2>5, <2>6, <2>7, FormEnters DEF SubmitOffline
<1>5. QED
  BY <1>3, <1>4

(* A new answer is stored, and its request ends. *)
StoresAnswer(p, s, way) ==
    /\ FormMoves(p, "idle", None, None)
    /\ s \notin Given
    /\ form' = form
    /\ submission' = [submission EXCEPT ![s] =
          [state |-> "pending", way |-> way, by |-> req[p].row, value |-> req[p].seen]]

LEMMA StoredIs ==
    ASSUME FormInv, NEW p \in Procs, NEW s \in Submissions, NEW way \in {"link", "account", "device"},
           StoresAnswer(p, s, way), req[p].row \in Users \cup {None}, req[p].seen \in Values
    PROVE  /\ submission' \in [Submissions -> Answer]
           /\ Given' = Given \cup {s} /\ IsFiniteSet(Given')
           /\ submission'[s].way = way /\ submission'[s].by = req[p].row
           /\ submission'[s].value = req[p].seen /\ submission'[s].state = "pending"
           /\ \A t \in Given : submission'[t] = submission[t]
           /\ \A w : Ways(w)' = IF way \in w THEN Ways(w) \cup {s} ELSE Ways(w)
<1> DEFINE new == [state |-> "pending", way |-> way, by |-> req[p].row, value |-> req[p].seen]
<1>1. /\ new \in Answer /\ new.way = way /\ new.by = req[p].row
      /\ new.value = req[p].seen /\ new.state = "pending"
  BY DEF Answer
<1>2. submission' = [submission EXCEPT ![s] = new]
  BY DEF StoresAnswer
<1> HIDE DEF new
<1>3. /\ submission' \in [Submissions -> Answer] /\ submission'[s] = new
      /\ \A t \in Submissions : t # s => submission'[t] = submission[t]
  BY <1>1, <1>2 DEF FormInv, FormTyped
<1>4. Given' = Given \cup {s} /\ IsFiniteSet(Given \cup {s})
  BY <1>1, <1>3, FS_AddElement DEF Given, FormInv, FormTyped
<1>5. \A t \in Given : submission'[t] = submission[t]
  BY <1>3 DEF Given, StoresAnswer
<1>6. ASSUME NEW w PROVE Ways(w)' = IF way \in w THEN Ways(w) \cup {s} ELSE Ways(w)
  BY <1>1, <1>3, <1>4, <1>5 DEF Ways
<1>7. QED
  BY <1>1, <1>3, <1>4, <1>5, <1>6

LEMMA StoredIsTyped ==
    ASSUME FormInv, NEW p \in Procs, NEW s \in Submissions, NEW way \in {"link", "account", "device"},
           StoresAnswer(p, s, way), req[p].row \in Users \cup {None}, req[p].seen \in Values,
           req[p].row = None <=> way = "link",
           formLock' = IF formLock = p THEN None ELSE formLock
    PROVE  FormTyped' /\ FormTypeOK' /\ FormLockIsHeld'
<1>1. FormTyped'
  <2>1. submission' \in [Submissions -> Answer] /\ Given' = Given \cup {s} /\ IsFiniteSet(Given')
    BY StoredIs
  <2>2. /\ form' = form /\ DOMAIN req' = Procs /\ formLock' \in Procs \cup {None}
        /\ req'[p].at = "idle" /\ \A q \in Procs : q # p => req'[q] = req[q]
    BY DEF FormInv, FormTyped, FormMoves, StoresAnswer
  <2>3. QED
    BY <2>1, <2>2 DEF FormInv, FormTyped, At
<1>2. FormTypeOK'
  <2>1. (formLock = None \/ At(formLock, "commit"))'
    BY DEF FormInv, FormTyped, FormTypeOK, FormMoves, StoresAnswer, At
  <2>2. \A t \in Given' : /\ submission'[t].state \in {"pending", "approved", "rejected"}
                          /\ submission'[t].by = None <=> submission'[t].way = "link"
    BY StoredIs DEF FormInv, FormTypeOK
  <2>3. QED
    BY <2>1, <2>2 DEF FormInv, FormTypeOK, StoresAnswer
<1>3. FormLockIsHeld'
  BY FormAssumption DEF FormInv, FormLockIsHeld, FormMoves, StoresAnswer, At
<1>4. QED
  BY <1>1, <1>2, <1>3

(* What a racer stores is one more, and there is one racer less. *)
LEMMA RacerStores ==
    ASSUME FormInv, NEW p \in Racers, NEW s \in Submissions, NEW way \in {"link", "device"},
           StoresAnswer(p, s, way), req[p].row \in Users \cup {None}, req[p].seen \in Values
    PROVE  LimitFollowsRaces'
<1>1. p \in Procs
  BY DEF Racers, Committing, Waiting
<1>2. Ways({"link", "device"})' = Ways({"link", "device"}) \cup {s}
  BY <1>1, StoredIs
<1>3. Racers' \subseteq Racers \ {p}
  BY DEF Racers, Committing, Waiting, StoresAnswer, FormMoves, At
<1>4. Cardinality(Racers') + 1 <= Cardinality(Racers) /\ Cardinality(Racers') \in Nat
  BY <1>3, RacersAreFew, OneLess
<1>5. IsFiniteSet(Ways({"link", "device"}))
  BY WaysAreGiven DEF FormInv
<1>6. /\ Cardinality(Ways({"link", "device"})') <= Cardinality(Ways({"link", "device"})) + 1
      /\ Cardinality(Ways({"link", "device"})) \in Nat /\ Cardinality(Ways({"link", "device"})') \in Nat
  BY <1>2, <1>5, OneMore
<1>7. QED
  BY <1>4, <1>6, RacersAreFew, FormAssumption
     DEF FormInv, LimitsHold, LimitFollowsRaces, Racers, Committing

LEMMA InsertHolds ==
    ASSUME FormInv, NEW p \in Procs, NEW s \in Submissions, Insert(p, s) PROVE FormInv'
<1> DEFINE way == IF req[p].row = None THEN "link" ELSE "account"
<1>1. way \in {"link", "account"} /\ (req[p].row = None <=> way = "link")
  OBVIOUS
<1>2. StoresAnswer(p, s, way) /\ At(p, "insert")
  BY FormMovesHolds DEF Insert, StoresAnswer, Given, FormInv, FormTyped
<1> HIDE DEF way
<1>3. /\ req[p].row \in Users \cup {None} /\ req[p].seen \in Values
      /\ formLock # p /\ formLock' = formLock
  BY <1>2 DEF Insert, FormInv, FormTyped, FormLockIsHeld, At
<1>4. FormTyped' /\ FormTypeOK' /\ FormLockIsHeld'
  BY <1>1, <1>2, <1>3, StoredIsTyped
<1>5. /\ Ways({"device"})' = Ways({"device"})
      /\ \A t \in Ways({"device"}) : submission'[t] = submission[t]
  BY <1>1, <1>2, <1>3, StoredIs DEF Ways
<1>6. HolderIsClear'
  BY <1>2, <1>5 DEF FormInv, HolderIsClear, StoresAnswer, FormMoves, At
<1>7. DevicesAreSerialised'
  BY <1>5 DEF FormInv, LimitsHold, DevicesAreSerialised
<1>8. LimitFollowsRaces'
  <2>1. CASE way = "link"
    <3>1. p \in Racers
      BY <1>1, <1>2, <2>1 DEF Racers, Waiting, At
    <3>2. QED
      BY <1>2, <1>3, <2>1, <3>1, RacerStores
  <2>2. CASE way = "account"
    <3>1. Ways({"link", "device"})' = Ways({"link", "device"})
      BY <1>1, <1>2, <1>3, <2>2, StoredIs
    <3>2. Racers' \in SUBSET Racers
      BY <1>2 DEF Racers, Committing, Waiting, StoresAnswer, FormMoves, At
    <3>3. Cardinality(Racers') <= Cardinality(Racers) /\ Cardinality(Racers') \in Nat
      BY <3>2, RacersAreFew, Fewer
    <3>4. Cardinality(Ways({"link", "device"})) \in Nat
      BY WaysAreGiven DEF FormInv
    <3>5. QED
      BY <3>1, <3>3, <3>4, RacersAreFew, FormAssumption
         DEF FormInv, LimitsHold, LimitFollowsRaces, Racers, Committing
  <2>3. QED
    BY <1>1, <2>1, <2>2
<1>9. QED
  BY <1>4, <1>6, <1>7, <1>8 DEF FormInv, LimitsHold

LEMMA CommitDeviceHolds ==
    ASSUME FormInv, NEW p \in Procs, NEW s \in Submissions, Commit(p, s) PROVE FormInv'
<1>1. StoresAnswer(p, s, "device") /\ At(p, "commit") /\ formLock' = None
  BY FormMovesHolds DEF Commit, StoresAnswer, Given, FormInv, FormTyped
<1>2. /\ req[p].row \in Users /\ req[p].seen \in Values /\ formLock = p
  BY <1>1 DEF FormInv, FormTyped, FormLockIsHeld
<1>3. FormTyped' /\ FormTypeOK' /\ FormLockIsHeld'
  BY <1>1, <1>2, StoredIsTyped, FormAssumption
<1>4. HolderIsClear'
  BY <1>1, <1>3, FormAssumption DEF HolderIsClear, FormLockIsHeld
<1>5. /\ Ways({"device"})' = Ways({"device"}) \cup {s} /\ s \notin Ways({"device"})
      /\ \A t \in Ways({"device"}) : submission'[t] = submission[t]
      /\ submission'[s].by = req[p].row /\ submission'[s].value = req[p].seen
  BY <1>1, <1>2, StoredIs DEF Ways, StoresAnswer
<1>6. /\ Cardinality(Ways({"device"})) < Limit
      /\ \A t \in Ways({"device"}) :
            submission[t].by # req[p].row /\ submission[t].value # req[p].seen
  BY <1>1 DEF FormInv, HolderIsClear
<1>7. DevicesAreSerialised'
  <2>1. Cardinality(Ways({"device"})') <= Limit
    <3>1. IsFiniteSet(Ways({"device"})) /\ Cardinality(Ways({"device"})) \in Nat
      BY WaysAreGiven DEF FormInv
    <3>2. Cardinality(Ways({"device"})') <= Cardinality(Ways({"device"})) + 1
            /\ Cardinality(Ways({"device"})') \in Nat
      BY <1>5, <3>1, OneMore
    <3>3. QED
      BY <1>6, <3>1, <3>2, FormAssumption
  <2>2. QED
    BY <1>5, <1>6, <2>1 DEF FormInv, LimitsHold, DevicesAreSerialised
<1>8. p \in Racers
  BY <1>1 DEF Racers, Committing
<1>9. LimitFollowsRaces'
  BY <1>1, <1>2, <1>8, RacerStores
<1>10. QED
  BY <1>3, <1>4, <1>7, <1>9 DEF FormInv, LimitsHold

LEMMA ReviewHolds ==
    ASSUME FormInv, NEW p \in Procs, NEW answer \in {"approved", "rejected"}, Review(p, answer)
    PROVE  FormInv'
<1>1. PICK s \in Given : s = req[p].row
  BY DEF Review, FormInv, FormTyped
<1>2. s \in Submissions /\ submission[s] \in Answer /\ submission[s].state # "none"
  BY DEF FormInv, FormTyped, Given
<1>3. submission' = [submission EXCEPT ![s] = [submission[s] EXCEPT !.state = answer]]
  BY <1>1 DEF Review
<1> DEFINE new == [submission[s] EXCEPT !.state = answer]
<1>4. /\ new \in Answer /\ new.state = answer /\ new.way = submission[s].way
      /\ new.by = submission[s].by /\ new.value = submission[s].value
  BY <1>2 DEF Answer
<1> HIDE DEF new
<1>5. /\ submission' \in [Submissions -> Answer] /\ submission'[s] = new
      /\ \A t \in Submissions : t # s => submission'[t] = submission[t]
  BY <1>2, <1>3, <1>4 DEF FormInv, FormTyped, new
<1>6. Given' = Given
  BY <1>2, <1>4, <1>5 DEF Given
<1>7. SameAnswers
  BY <1>4, <1>5, <1>6 DEF SameAnswers, Given
<1>8. FormMoves(p, "idle", None, None) /\ UNCHANGED <<form, formLock>> /\ formLock # p
  BY FormMovesHolds DEF Review, FormInv, FormTyped, FormLockIsHeld, At
<1>9. FormTyped'
  BY <1>5, <1>6, <1>8 DEF FormInv, FormTyped, FormMoves, At
<1>10. FormTypeOK'
  <2>1. (formLock = None \/ At(formLock, "commit"))'
    BY <1>8 DEF FormInv, FormTyped, FormTypeOK, FormMoves, At
  <2>2. \A t \in Given : submission'[t].state \in {"pending", "approved", "rejected"}
    BY <1>4, <1>5 DEF FormInv, FormTypeOK, Given
  <2>3. QED
    BY <1>6, <1>7, <1>8, <2>1, <2>2 DEF FormInv, FormTypeOK, SameAnswers
<1>11. /\ \A q \in Procs :
            req'[q] = req[q] \/ ~(req'[q].at = "commit" \/ (req'[q].at = "insert" /\ req'[q].row = None))
       /\ \A q \in Procs : formLock' = q => req'[q] = req[q]
  BY <1>8 DEF FormMoves
<1>12. QED
  BY <1>7, <1>8, <1>9, <1>10, <1>11, FormQuiet

LEMMA FormStepHolds == FormInv /\ [FormNext]_formVars => FormInv'
<1> SUFFICES ASSUME FormInv, [FormNext]_formVars PROVE FormInv'
  OBVIOUS
<1>1. CASE UNCHANGED formVars
  BY <1>1 DEF formVars, FormInv, FormTypeOK, FormTyped, FormLockIsHeld, HolderIsClear, LimitsHold,
     DevicesAreSerialised, LimitFollowsRaces, Ways, Given, Waiting, At
<1>2. CASE FormNext
  BY <1>2, FormWritesHold, EditFormHolds, FormGoesBack, SubmitHolds, InsertHolds, CommitDeviceHolds,
     ReviewHolds DEF FormNext
<1>3. QED
  BY <1>1, <1>2

(* Devices keep a form's limit and its unique field among themselves, and  *)
(* all ways of submitting together pass the limit by no more than requests *)
(* overlap (submission, submitByPublicToken).                              *)
THEOREM LimitsHoldHolds == FormSpec => []LimitsHold
<1>1. FormInv => LimitsHold
  BY DEF FormInv
<1>2. QED
  BY <1>1, FormInitHolds, FormStepHolds, PTL DEF FormSpec

-----------------------------------------------------------------------------
(* Assets *)

Row == [state : {"none", "live", "archived"},
        status : Statuses \cup {"active", "maintenance", "disposed"}, qr : BOOLEAN,
        category : Categories \cup {None}, terms : Terms \cup {None}, value : Int]
Loan == {NoLoan} \cup [state : {"out", "returned"}, asset : Assets]
Read == [terms : Terms, opening : Int, since : Nat]
Worked == [year : Nat, opening : Int, closing : Int, since : Nat]
Line == [year : Nat, opening : Int, closing : Int, late : BOOLEAN]

OnAsset == {"label", "edit", "lend", "return", "lent", "back", "look", "book", "value"}

AssetsTyped ==
    /\ asset \in [Assets -> Row]
    /\ \A a \in Assets : /\ asset[a].category \in Placeable
                         /\ asset[a].terms = None => asset[a].state = "none"

LoansTyped == loan \in [Loans -> Loan]

AssetRequestsTyped ==
    /\ DOMAIN req = Procs
    /\ \A p \in Procs :
          /\ req[p].at \in OnAsset => req[p].row \in Assets
          /\ At(p, "drop") => req[p].row \in Categories
          /\ At(p, "return") => req[p].seen \in Loans /\ loan[req[p].seen] # NoLoan
          /\ At(p, "look") => req[p].seen \in Read /\ req[p].seen.terms.life > 0
          /\ req[p].at \in {"book", "value"} => req[p].seen \in Worked

AssetTyped ==
    /\ category \in [Categories -> {"none", "live", "archived"}]
    /\ AssetsTyped /\ LoansTyped /\ AssetRequestsTyped
    /\ year \in 0..LastYear

LoansAreCounted == (\A a \in Assets : IsFiniteSet(OnLoan(a))) /\ LoansFollowRaces

IsNewest(a, e) == e \in ledger[a] /\ \A f \in ledger[a] : f.year <= e.year

(* No year is booked twice, and none that is still to come.                *)
LedgerTyped ==
    /\ ledger \in [Assets -> SUBSET Line]
    /\ \A a \in Assets :
          /\ \A e \in ledger[a] : e.year <= year
          /\ \A e, f \in ledger[a] : e.year = f.year => e = f
          /\ ledger[a] = {} \/ \E e \in ledger[a] : IsNewest(a, e)

(* Who has read the asset this year has found what the last entry closed   *)
(* at, and it still is so, unless this year has been booked meanwhile or   *)
(* the last entry is a late one.                                           *)
FoundLast(p, a) ==
    /\ req[p].seen.since <= year
    /\ At(p, "book") => req[p].seen.since <= req[p].seen.year /\ req[p].seen.year <= year
    /\ req[p].seen.since = year /\ ~Booked(a, year) =>
          \A f : IsNewest(a, f) /\ ~f.late => req[p].seen.opening = f.closing
BookersAgree == \A p \in Procs : At(p, "look") \/ At(p, "book") => FoundLast(p, req[p].row)

AssetInv == AssetTyped /\ LoansAreCounted /\ LedgerTyped /\ BookersAgree /\ LedgerIsContinuous

(* One request has moved to where it is now, the others are as they were. *)
AssetMoves(p, at, x, y) ==
    /\ DOMAIN req' = Procs
    /\ req'[p].at = at /\ req'[p].row = x /\ req'[p].seen = y
    /\ \A q \in Procs : q # p => req'[q] = req[q]

LEMMA AssetMovesHolds ==
    ASSUME DOMAIN req = Procs, NEW p \in Procs
    PROVE  /\ \A at, x, y : Begins(p, at, x, y) => AssetMoves(p, at, x, y) /\ Idle(p)
           /\ \A at : GoesTo(p, at) => AssetMoves(p, at, req[p].row, req[p].seen)
           /\ Ends(p) => AssetMoves(p, "idle", None, None)
BY DEF AssetMoves, Begins, GoesTo, Ends, NoRequest

-----------------------------------------------------------------------------
(* Loans *)

LEMMA LendersAreFew ==
    ASSUME NEW a
    PROVE  /\ IsFiniteSet(Waiting("lend", a)) /\ Cardinality(Waiting("lend", a)) \in Nat
           /\ Cardinality(Waiting("lend", a)) <= Cardinality(Procs) /\ Cardinality(Procs) \in Nat
<1>1. Waiting("lend", a) \in SUBSET Procs
  BY DEF Waiting
<1>2. QED
  BY <1>1, Fewer, AssetAssumption

FewLenders(a) == /\ Cardinality(Waiting("lend", a)) \in Nat
                 /\ Cardinality(Waiting("lend", a)) <= Cardinality(Procs)

LEMMA FewLendersNext == ASSUME NEW a PROVE FewLenders(a)'
<1>1. Waiting("lend", a)' \in SUBSET Procs
  BY DEF Waiting
<1>2. QED
  BY <1>1, Fewer, AssetAssumption DEF FewLenders

(* No asset has one more loan but by a request that was about to insert it. *)
LoansMove ==
    \A a \in Assets :
        \/ OnLoan(a)' \subseteq OnLoan(a) /\ Waiting("lend", a)' \subseteq Waiting("lend", a)
        \/ OnLoan(a)' = {} /\ OnLoan(a) = {}
        \/ \E l, p : /\ OnLoan(a)' \subseteq OnLoan(a) \cup {l}
                     /\ p \in Waiting("lend", a)
                     /\ Waiting("lend", a)' \subseteq Waiting("lend", a) \ {p}

LEMMA LoansMoveHolds == ASSUME LoansAreCounted, LoansMove PROVE LoansAreCounted'
<1> SUFFICES ASSUME NEW a \in Assets
             PROVE  /\ IsFiniteSet(OnLoan(a)')
                    /\ Cardinality(OnLoan(a)') + Cardinality(Waiting("lend", a)') <= Cardinality(Procs)
  BY DEF LoansAreCounted, LoansFollowRaces
<1>1. /\ IsFiniteSet(OnLoan(a)) /\ Cardinality(OnLoan(a)) \in Nat
      /\ Cardinality(OnLoan(a)) + Cardinality(Waiting("lend", a)) <= Cardinality(Procs)
  BY FS_CardinalityType DEF LoansAreCounted, LoansFollowRaces
<1>2. CASE OnLoan(a)' \subseteq OnLoan(a) /\ Waiting("lend", a)' \subseteq Waiting("lend", a)
  <2>1. /\ IsFiniteSet(OnLoan(a)') /\ Cardinality(OnLoan(a)') <= Cardinality(OnLoan(a))
        /\ Cardinality(OnLoan(a)') \in Nat
    BY <1>1, <1>2, Fewer
  <2>2. /\ Cardinality(Waiting("lend", a)') <= Cardinality(Waiting("lend", a))
        /\ Cardinality(Waiting("lend", a)') \in Nat
    BY <1>2, LendersAreFew, Fewer
  <2>3. QED
    BY <1>1, <2>1, <2>2, LendersAreFew
<1>3. CASE OnLoan(a)' = {} /\ OnLoan(a) = {}
  BY <1>3, FS_EmptySet, FewLendersNext, LendersAreFew DEF FewLenders
<1>4. CASE \E l, p : /\ OnLoan(a)' \subseteq OnLoan(a) \cup {l}
                     /\ p \in Waiting("lend", a)
                     /\ Waiting("lend", a)' \subseteq Waiting("lend", a) \ {p}
  <2>1. PICK l, p : /\ OnLoan(a)' \subseteq OnLoan(a) \cup {l}
                    /\ p \in Waiting("lend", a)
                    /\ Waiting("lend", a)' \subseteq Waiting("lend", a) \ {p}
    BY <1>4
  <2>2. /\ IsFiniteSet(OnLoan(a)') /\ Cardinality(OnLoan(a)') <= Cardinality(OnLoan(a)) + 1
        /\ Cardinality(OnLoan(a)') \in Nat
    BY <1>1, <2>1, OneMore
  <2>3. /\ Cardinality(Waiting("lend", a)') + 1 <= Cardinality(Waiting("lend", a))
        /\ Cardinality(Waiting("lend", a)') \in Nat
    BY <2>1, LendersAreFew, OneLess
  <2>4. QED
    BY <1>1, <2>2, <2>3, LendersAreFew
<1>5. QED
  BY <1>2, <1>3, <1>4 DEF LoansMove

-----------------------------------------------------------------------------
(* Steps that leave the ledger as it is *)

(* Nobody has come to book. *)
LedgerIsLeft ==
    /\ ledger' = ledger /\ year' = year
    /\ \A p \in Procs : At(p, "look")' \/ At(p, "book")' => req'[p] = req[p]

LEMMA LedgerIsLeftHolds ==
    ASSUME LedgerTyped, BookersAgree, LedgerIsContinuous, LedgerIsLeft
    PROVE  LedgerTyped' /\ BookersAgree' /\ LedgerIsContinuous'
<1>1. LedgerTyped' /\ LedgerIsContinuous'
  BY DEF LedgerTyped, IsNewest, LedgerIsContinuous, LedgerIsLeft
<1>2. \A a : Booked(a, year)' = Booked(a, year)
  BY DEF Booked, LedgerIsLeft
<1>3. ASSUME NEW p \in Procs, At(p, "look")' \/ At(p, "book")'
      PROVE  FoundLast(p, req[p].row)' /\ req'[p] = req[p]
  <2>1. FoundLast(p, req[p].row) /\ req'[p] = req[p]
    BY <1>3 DEF BookersAgree, LedgerIsLeft, At
  <2>2. QED
    BY <1>2, <2>1 DEF FoundLast, IsNewest, LedgerIsLeft, At
<1>4. BookersAgree'
  BY <1>3 DEF BookersAgree
<1>5. QED
  BY <1>1, <1>4

(* The loans, and who is about to lend, are as they were, or fewer. *)
LoansAreLeft ==
    /\ loan' = loan
    /\ \A p \in Procs : At(p, "lend")' => req'[p] = req[p]

LEMMA LoansAreLeftHolds == ASSUME LoansAreLeft PROVE LoansMove
BY DEF LoansAreLeft, LoansMove, OnLoan, Waiting, At

LEMMA AssetQuiet ==
    ASSUME AssetInv, AssetTyped', LoansMove, LedgerIsLeft PROVE AssetInv'
BY LoansMoveHolds, LedgerIsLeftHolds DEF AssetInv

(* A request moves and neither lends nor books. *)
StepsAside(p, at, x, y) ==
    /\ AssetMoves(p, at, x, y)
    /\ at \notin {"lend", "look", "book"}
    /\ at \in OnAsset => x \in Assets
    /\ at = "drop" => x \in Categories
    /\ at = "return" => y \in Loans /\ loan'[y] # NoLoan
    /\ at = "value" => y \in Worked
    /\ \A l \in Loans : loan[l] # NoLoan => loan'[l] # NoLoan
    /\ ledger' = ledger /\ year' = year

LEMMA StepsAsideHolds ==
    ASSUME AssetInv, NEW p \in Procs, NEW at, NEW x, NEW y, StepsAside(p, at, x, y)
    PROVE  AssetRequestsTyped' /\ LedgerIsLeft
<1>1. AssetRequestsTyped'
  BY DEF AssetInv, AssetTyped, AssetRequestsTyped, StepsAside, AssetMoves, At, OnAsset
<1>2. LedgerIsLeft
  BY DEF LedgerIsLeft, StepsAside, AssetMoves, At
<1>3. QED
  BY <1>1, <1>2

(* Such a step, when the loans are left too. *)
LEMMA AsideHolds ==
    ASSUME AssetInv, NEW p \in Procs, NEW at, NEW x, NEW y, StepsAside(p, at, x, y),
           loan' = loan, category' \in [Categories -> {"none", "live", "archived"}], AssetsTyped'
    PROVE  AssetInv'
<1>1. AssetRequestsTyped' /\ LedgerIsLeft
  BY StepsAsideHolds
<1>2. LoansMove
  BY LoansAreLeftHolds DEF LoansAreLeft, StepsAside, AssetMoves, At
<1>3. AssetTyped'
  BY <1>1 DEF AssetInv, AssetTyped, LoansTyped, LedgerIsLeft
<1>4. QED
  BY <1>1, <1>2, <1>3, AssetQuiet

(* A step of no request. *)
LEMMA AloneHolds ==
    ASSUME AssetInv, UNCHANGED <<loan, ledger, year, req>>,
           category' \in [Categories -> {"none", "live", "archived"}], AssetsTyped'
    PROVE  AssetInv'
<1>1. AssetTyped'
  BY DEF AssetInv, AssetTyped, LoansTyped, AssetRequestsTyped, At
<1>2. LoansMove /\ LedgerIsLeft
  BY LoansAreLeftHolds DEF LoansAreLeft, LedgerIsLeft
<1>3. QED
  BY <1>1, <1>2, AssetQuiet

(* One row is written. *)
LEMMA RowIsWritten ==
    ASSUME AssetsTyped, NEW a \in Assets, NEW new \in Row, asset' = [asset EXCEPT ![a] = new],
           category' = category, new.category \in Placeable, new.terms = None => new.state = "none"
    PROVE  AssetsTyped'
BY DEF AssetsTyped, Placeable

LEMMA RowsOfAssets ==
    ASSUME AssetsTyped, NEW a \in Assets
    PROVE  /\ asset[a] \in Row /\ asset[a].category \in Placeable
           /\ asset[a].terms = None => asset[a].state = "none"
BY DEF AssetsTyped

-----------------------------------------------------------------------------
(* The actions *)

LEMMA CategoriesHold ==
    ASSUME AssetInv, NEW c \in Categories,
           CreateCategory(c) \/ ArchiveCategory(c) \/ RestoreCategory(c)
             \/ \E p \in Procs : DeleteCategory(p, c)
    PROVE  AssetInv'
<1>1. CASE CreateCategory(c) \/ ArchiveCategory(c) \/ RestoreCategory(c)
  <2>1. category' \in [Categories -> {"none", "live", "archived"}] /\ Placeable \subseteq Placeable'
    BY <1>1 DEF CreateCategory, ArchiveCategory, RestoreCategory, AssetInv, AssetTyped, Placeable
  <2>2. UNCHANGED <<asset, loan, ledger, year, req>>
    BY <1>1 DEF CreateCategory, ArchiveCategory, RestoreCategory
  <2>3. AssetsTyped'
    BY <2>1, <2>2 DEF AssetInv, AssetTyped, AssetsTyped
  <2>4. QED
    BY <2>1, <2>2, <2>3, AloneHolds
<1>2. ASSUME NEW p \in Procs, DeleteCategory(p, c) PROVE AssetInv'
  <2>1. StepsAside(p, "drop", c, None)
    BY <1>2, AssetMovesHolds DEF DeleteCategory, StepsAside, OnAsset, AssetInv, AssetTyped, AssetRequestsTyped
  <2>2. AssetsTyped'
    BY <1>2 DEF DeleteCategory, AssetInv, AssetTyped, AssetsTyped, Placeable
  <2>3. QED
    BY <1>2, <2>1, <2>2, AsideHolds DEF DeleteCategory, AssetInv, AssetTyped
<1>3. QED
  BY <1>1, <1>2

LEMMA DropCategoryHolds ==
    ASSUME AssetInv, NEW p \in Procs, DropCategory(p) PROVE AssetInv'
<1> DEFINE c == req[p].row
<1>1. c \in Categories
  BY DEF DropCategory, AssetInv, AssetTyped, AssetRequestsTyped
<1>2. category' \in [Categories -> {"none", "live", "archived"}] /\ Placeable' = Placeable \ {c}
  BY <1>1, AssetAssumption DEF DropCategory, AssetInv, AssetTyped, Placeable
<1>3. ASSUME NEW a \in Assets
      PROVE  /\ asset'[a] \in Row /\ asset'[a].category \in Placeable'
             /\ asset'[a].terms = None => asset'[a].state = "none"
  <2>1. /\ asset[a] \in Row /\ asset[a].category \in Placeable
        /\ asset[a].terms = None => asset[a].state = "none"
    BY RowsOfAssets DEF AssetInv, AssetTyped
  <2>2. CASE asset[a].category # c
    <3>1. asset'[a] = asset[a]
      BY <2>2 DEF DropCategory
    <3>2. QED
      BY <1>2, <2>1, <2>2, <3>1
  <2>3. CASE asset[a].category = c
    <3>1. asset'[a] = [asset[a] EXCEPT !.category = None]
      BY <2>3 DEF DropCategory
    <3>2. None \in Placeable'
      BY DEF Placeable
    <3>3. QED
      BY <2>1, <3>1, <3>2 DEF Row
  <2>4. QED
    BY <2>2, <2>3
<1>4. AssetsTyped'
  <2>1. asset' = [a \in Assets |-> asset'[a]]
    BY DEF DropCategory
  <2>2. QED
    BY <1>3, <2>1 DEF AssetsTyped
<1>5. StepsAside(p, "idle", None, None)
  BY AssetMovesHolds DEF DropCategory, StepsAside, OnAsset, AssetInv, AssetTyped, AssetRequestsTyped
<1>6. QED
  BY <1>2, <1>4, <1>5, AsideHolds DEF DropCategory

LEMMA CreateAssetHolds ==
    ASSUME AssetInv, NEW p \in Procs, NEW a \in Assets, NEW c \in Categories \cup {None},
           NEW t \in Terms, NEW s \in Statuses, CreateAsset(p, a, c, t, s)
    PROVE  AssetInv'
<1> DEFINE new == [state |-> "live", status |-> s, qr |-> FALSE, category |-> c,
                   terms |-> t, value |-> t.price]
<1>1. t.price \in Int
  BY AssetAssumption
<1>2. new \in Row /\ new.category = c /\ new.terms = t /\ new.state = "live"
  BY <1>1 DEF Row
<1>3. t # None
  BY AssetAssumption
<1>4. asset' = [asset EXCEPT ![a] = new] /\ c \in Placeable /\ UNCHANGED <<category, loan, ledger, year>>
  BY DEF CreateAsset
<1> HIDE DEF new
<1>5. AssetsTyped'
  BY <1>2, <1>3, <1>4, RowIsWritten DEF AssetInv, AssetTyped
<1>6. StepsAside(p, "label", a, None)
  BY <1>4, AssetMovesHolds DEF CreateAsset, StepsAside, OnAsset, AssetInv, AssetTyped, AssetRequestsTyped
<1>7. QED
  BY <1>4, <1>5, <1>6, AsideHolds DEF AssetInv, AssetTyped

LEMMA BeginsAside ==
    ASSUME AssetInv, NEW p \in Procs, NEW a \in Assets, GenerateQrCode(p, a) \/ UpdateAsset(p, a)
    PROVE  AssetInv'
<1>1. \E at \in {"label", "edit"} : StepsAside(p, at, a, None)
  BY AssetMovesHolds DEF GenerateQrCode, UpdateAsset, StepsAside, OnAsset, AssetInv, AssetTyped,
     AssetRequestsTyped
<1>2. UNCHANGED <<category, asset, loan>>
  BY DEF GenerateQrCode, UpdateAsset
<1>3. AssetsTyped'
  BY <1>2 DEF AssetInv, AssetTyped, AssetsTyped, Placeable
<1>4. QED
  BY <1>1, <1>2, <1>3, AsideHolds DEF AssetInv, AssetTyped

(* The asset of a request is written, and the request ends. *)
LEMMA LabelHolds ==
    ASSUME AssetInv, NEW p \in Procs, Label(p) \/ SetStatus(p) \/ SetValue(p) PROVE AssetInv'
<1>1. PICK a \in Assets : a = req[p].row
  BY DEF Label, SetStatus, SetValue, AssetInv, AssetTyped, AssetRequestsTyped, OnAsset, At
<1>2. /\ asset[a] \in Row /\ asset[a].category \in Placeable
      /\ asset[a].terms = None => asset[a].state = "none"
      /\ asset \in [Assets -> Row]
  BY RowsOfAssets DEF AssetInv, AssetTyped, AssetsTyped
<1>3. \E new \in Row : /\ asset' = [asset EXCEPT ![a] = new]
                       /\ new.category = asset[a].category
                       /\ new.terms = asset[a].terms /\ new.state = asset[a].state
  <2>1. CASE Label(p)
    <3>1. asset' = [asset EXCEPT ![a] = [asset[a] EXCEPT !.qr = TRUE]]
      BY <1>1, <2>1 DEF Label
    <3> DEFINE new == [asset[a] EXCEPT !.qr = TRUE]
    <3>2. /\ new \in Row /\ new.category = asset[a].category
          /\ new.terms = asset[a].terms /\ new.state = asset[a].state
      BY <1>2 DEF Row
    <3>3. QED
      BY <3>1, <3>2
  <2>2. CASE SetStatus(p)
    <3> DEFINE status == IF At(p, "lent") THEN "maintenance" ELSE "active"
               new == [asset[a] EXCEPT !.status = status]
    <3>1. asset' = [asset EXCEPT ![a] = new]
      BY <1>1, <2>2 DEF SetStatus
    <3>2. status \in {"maintenance", "active"}
      OBVIOUS
    <3> HIDE DEF status
    <3>3. /\ new \in Row /\ new.category = asset[a].category
          /\ new.terms = asset[a].terms /\ new.state = asset[a].state
      BY <1>2, <3>2 DEF Row
    <3>4. QED
      BY <3>1, <3>3
  <2>3. CASE SetValue(p)
    <3>1. req[p].seen.closing \in Int
      BY <2>3 DEF SetValue, At, AssetInv, AssetTyped, AssetRequestsTyped, Worked
    <3>2. PICK v \in Int : v = req[p].seen.closing
      BY <3>1
    <3> DEFINE new == [asset[a] EXCEPT !.value = v]
    <3>3. asset' = [asset EXCEPT ![a] = new]
      BY <1>1, <2>3, <3>2 DEF SetValue
    <3>4. /\ new \in Row /\ new.category = asset[a].category
          /\ new.terms = asset[a].terms /\ new.state = asset[a].state
      BY <1>2, <3>2 DEF Row
    <3>5. QED
      BY <3>3, <3>4
  <2>4. QED
    BY <2>1, <2>2, <2>3
<1>4. StepsAside(p, "idle", None, None) /\ UNCHANGED <<category, loan>>
  BY AssetMovesHolds DEF Label, SetStatus, SetValue, StepsAside, OnAsset, AssetInv, AssetTyped,
     AssetRequestsTyped
<1>5. AssetsTyped'
  BY <1>2, <1>3, <1>4, RowIsWritten DEF AssetInv, AssetTyped
<1>6. QED
  BY <1>4, <1>5, AsideHolds DEF AssetInv, AssetTyped

LEMMA EditAssetHolds ==
    ASSUME AssetInv, NEW p \in Procs, NEW c \in Categories \cup {None}, NEW t \in Terms,
           NEW s \in Statuses, EditAsset(p, c, t, s)
    PROVE  AssetInv'
<1>1. PICK a \in Assets : a = req[p].row
  BY DEF EditAsset, AssetInv, AssetTyped, AssetRequestsTyped, OnAsset, At
<1>2. asset[a] \in Row /\ asset \in [Assets -> Row]
  BY DEF AssetInv, AssetTyped, AssetsTyped
<1> DEFINE new == [asset[a] EXCEPT !.category = c, !.terms = t, !.status = s]
<1>3. asset' = [asset EXCEPT ![a] = new]
  BY <1>1, <1>2 DEF EditAsset
<1>4. new \in Row /\ new.category = c /\ new.terms = t
  BY <1>2 DEF Row
<1>5. StepsAside(p, "idle", None, None) /\ UNCHANGED <<category, loan>>
  BY AssetMovesHolds DEF EditAsset, StepsAside, OnAsset, AssetInv, AssetTyped, AssetRequestsTyped
<1>6. c \in Placeable /\ t # None
  BY AssetAssumption DEF EditAsset
<1> HIDE DEF new
<1>7. AssetsTyped'
  BY <1>3, <1>4, <1>5, <1>6, RowIsWritten DEF AssetInv, AssetTyped
<1>8. QED
  BY <1>5, <1>7, AsideHolds DEF AssetInv, AssetTyped

LEMMA AssetStatesHold ==
    ASSUME AssetInv, NEW a \in Assets, DeleteAsset(a) \/ ArchiveAsset(a) \/ RestoreAsset(a)
    PROVE  AssetInv'
<1>1. /\ asset[a] \in Row /\ asset[a].category \in Placeable
      /\ asset[a].terms = None => asset[a].state = "none"
      /\ asset \in [Assets -> Row]
  BY RowsOfAssets DEF AssetInv, AssetTyped, AssetsTyped
<1>2. asset[a].state # "none"
  BY DEF DeleteAsset, ArchiveAsset, RestoreAsset, Live
<1>3. \E new \in Row : /\ asset' = [asset EXCEPT ![a] = new]
                       /\ new.category = asset[a].category /\ new.terms = asset[a].terms
  <2>1. CASE DeleteAsset(a)
    <3> DEFINE new == [asset[a] EXCEPT !.status = "disposed", !.qr = FALSE]
    <3>1. asset' = [asset EXCEPT ![a] = new]
      BY <1>1, <2>1 DEF DeleteAsset
    <3>2. new \in Row /\ new.category = asset[a].category /\ new.terms = asset[a].terms
      BY <1>1 DEF Row
    <3>3. QED
      BY <3>1, <3>2
  <2>2. CASE ArchiveAsset(a) \/ RestoreAsset(a)
    <3>1. PICK state \in {"live", "archived"} : asset' = [asset EXCEPT ![a].state = state]
      BY <2>2 DEF ArchiveAsset, RestoreAsset
    <3> DEFINE new == [asset[a] EXCEPT !.state = state]
    <3>2. asset' = [asset EXCEPT ![a] = new]
      BY <3>1
    <3>3. new \in Row /\ new.category = asset[a].category /\ new.terms = asset[a].terms
      BY <1>1 DEF Row
    <3>4. QED
      BY <3>2, <3>3
  <2>3. QED
    BY <2>1, <2>2
<1>4. UNCHANGED <<category, loan, ledger, year, req>>
  BY DEF DeleteAsset, ArchiveAsset, RestoreAsset
<1>5. AssetsTyped'
  BY <1>1, <1>2, <1>3, <1>4, RowIsWritten DEF AssetInv, AssetTyped
<1>6. QED
  BY <1>4, <1>5, AloneHolds DEF AssetInv, AssetTyped

LEMMA CreateLoanHolds ==
    ASSUME AssetInv, NEW p \in Procs, NEW a \in Assets, CreateLoan(p, a) PROVE AssetInv'
<1>1. AssetMoves(p, "lend", a, None) /\ Idle(p) /\ UNCHANGED <<category, asset, loan, ledger, year>>
  BY AssetMovesHolds DEF CreateLoan, AssetInv, AssetTyped, AssetRequestsTyped
<1>2. LoansMove
  <2> SUFFICES ASSUME NEW b \in Assets
               PROVE  \/ OnLoan(b)' = OnLoan(b) /\ Waiting("lend", b)' \subseteq Waiting("lend", b)
                      \/ OnLoan(b)' = {} /\ OnLoan(b) = {}
    BY DEF LoansMove
  <2>1. OnLoan(b)' = OnLoan(b)
    BY <1>1 DEF OnLoan
  <2>2. CASE b = a
    BY <2>1, <2>2 DEF CreateLoan, Lendable
  <2>3. CASE b # a
    BY <1>1, <2>1, <2>3 DEF Waiting, AssetMoves
  <2>4. QED
    BY <2>2, <2>3
<1>3. AssetTyped'
  BY <1>1 DEF AssetInv, AssetTyped, AssetsTyped, LoansTyped, AssetRequestsTyped, AssetMoves, Placeable,
     At, OnAsset
<1>4. LedgerIsLeft
  BY <1>1 DEF LedgerIsLeft, AssetMoves, At
<1>5. QED
  BY <1>2, <1>3, <1>4, AssetQuiet

(* One loan is written, by a request that goes on to the asset. *)
LEMMA LoanIsWritten ==
    ASSUME AssetInv, NEW p \in Procs, NEW l \in Loans, NEW new \in Loan \ {NoLoan},
           loan' = [loan EXCEPT ![l] = new], NEW at \in {"lent", "back"}, At(p, "lend") \/ At(p, "return"),
           GoesTo(p, at), UNCHANGED <<category, asset, ledger, year>>,
           \A a \in Assets : new = [state |-> "out", asset |-> a] => At(p, "lend") /\ req[p].row = a
    PROVE  AssetInv'
<1>1. AssetMoves(p, at, req[p].row, req[p].seen) /\ req[p].row \in Assets
  BY AssetMovesHolds DEF AssetInv, AssetTyped, AssetRequestsTyped, OnAsset, At
<1>2. /\ loan' \in [Loans -> Loan] /\ loan'[l] = new
      /\ \A k \in Loans : k # l => loan'[k] = loan[k]
  BY DEF AssetInv, AssetTyped, LoansTyped
<1>3. StepsAside(p, at, req[p].row, req[p].seen)
  BY <1>1, <1>2 DEF StepsAside
<1>4. AssetRequestsTyped' /\ LedgerIsLeft
  BY <1>3, StepsAsideHolds
<1>5. AssetTyped'
  BY <1>2, <1>4 DEF AssetInv, AssetTyped, AssetsTyped, LoansTyped, Placeable
<1>6. LoansMove
  <2> SUFFICES ASSUME NEW a \in Assets
               PROVE  \/ OnLoan(a)' \subseteq OnLoan(a) /\ Waiting("lend", a)' \subseteq Waiting("lend", a)
                      \/ /\ OnLoan(a)' \subseteq OnLoan(a) \cup {l}
                         /\ p \in Waiting("lend", a)
                         /\ Waiting("lend", a)' \subseteq Waiting("lend", a) \ {p}
    BY DEF LoansMove
  <2>1. Waiting("lend", a)' \subseteq Waiting("lend", a) \ {p}
    BY <1>1 DEF Waiting, AssetMoves
  <2>2. CASE new = [state |-> "out", asset |-> a]
    BY <1>2, <2>1, <2>2 DEF OnLoan, Waiting, At
  <2>3. CASE new # [state |-> "out", asset |-> a]
    BY <1>2, <2>1, <2>3 DEF OnLoan
  <2>4. QED
    BY <2>2, <2>3
<1>7. QED
  BY <1>4, <1>5, <1>6, AssetQuiet

LEMMA LendHolds ==
    ASSUME AssetInv, NEW p \in Procs, NEW l \in Loans, Lend(p, l) PROVE AssetInv'
<1> DEFINE new == [state |-> "out", asset |-> req[p].row]
<1>1. req[p].row \in Assets
  BY DEF Lend, AssetInv, AssetTyped, AssetRequestsTyped, OnAsset, At
<1>2. new \in Loan \ {NoLoan}
  BY <1>1 DEF Loan, NoLoan
<1>3. \A a \in Assets : new = [state |-> "out", asset |-> a] => req[p].row = a
  OBVIOUS
<1>4. loan' = [loan EXCEPT ![l] = new] /\ At(p, "lend")
  BY DEF Lend
<1> HIDE DEF new
<1>5. QED
  BY <1>2, <1>3, <1>4, LoanIsWritten DEF Lend

LEMMA ReturnLoanHolds ==
    ASSUME AssetInv, NEW p \in Procs, NEW l \in Loans, ReturnLoan(p, l) PROVE AssetInv'
<1>1. loan[l] # NoLoan /\ loan[l].asset \in Assets
  BY DEF ReturnLoan, AssetInv, AssetTyped, LoansTyped, Loan, NoLoan
<1>2. StepsAside(p, "return", loan[l].asset, l)
  BY <1>1, AssetMovesHolds DEF ReturnLoan, StepsAside, AssetInv, AssetTyped, AssetRequestsTyped
<1>3. UNCHANGED <<category, asset, loan>>
  BY DEF ReturnLoan
<1>4. AssetsTyped'
  BY <1>3 DEF AssetInv, AssetTyped, AssetsTyped, Placeable
<1>5. QED
  BY <1>2, <1>3, <1>4, AsideHolds DEF AssetInv, AssetTyped

LEMMA TakeBackHolds ==
    ASSUME AssetInv, NEW p \in Procs, TakeBack(p) PROVE AssetInv'
<1>1. PICK l \in Loans : l = req[p].seen
  BY DEF TakeBack, AssetInv, AssetTyped, AssetRequestsTyped
<1>2. loan[l] \in [state : {"out", "returned"}, asset : Assets]
  BY <1>1 DEF TakeBack, AssetInv, AssetTyped, AssetRequestsTyped, LoansTyped, Loan
<1> DEFINE new == [loan[l] EXCEPT !.state = "returned"]
<1>3. loan' = [loan EXCEPT ![l] = new]
  BY <1>1 DEF TakeBack
<1>4. new \in [state : {"out", "returned"}, asset : Assets] /\ new.state = "returned"
  BY <1>2
<1>5. new \in Loan \ {NoLoan} /\ \A a \in Assets : new # [state |-> "out", asset |-> a]
  BY <1>4 DEF Loan, NoLoan
<1> HIDE DEF new
<1>6. QED
  BY <1>3, <1>5, LoanIsWritten DEF TakeBack

LEMMA AssetDiesHolds ==
    ASSUME AssetInv, NEW p \in Procs, AssetDies(p) PROVE AssetInv'
<1>1. StepsAside(p, "idle", None, None) /\ UNCHANGED <<category, asset, loan>>
  BY AssetMovesHolds DEF AssetDies, Dies, StepsAside, OnAsset, AssetInv, AssetTyped, AssetRequestsTyped
<1>2. AssetsTyped'
  BY <1>1 DEF AssetInv, AssetTyped, AssetsTyped, Placeable
<1>3. QED
  BY <1>1, <1>2, AsideHolds DEF AssetInv, AssetTyped

-----------------------------------------------------------------------------
(* Depreciation *)

(* Of a ledger with entries, the newest is one of them, and the only one.  *)
LEMMA NewestIs ==
    ASSUME LedgerTyped, NEW a \in Assets, ledger[a] # {}
    PROVE  Newest(a) \in Line /\ \A f : IsNewest(a, f) => f = Newest(a)
<1>1. ledger[a] \subseteq Line
  BY DEF LedgerTyped
<1>2. \E e \in ledger[a] : \A f \in ledger[a] : f.year <= e.year
  BY DEF LedgerTyped, IsNewest
<1>3. Newest(a) \in ledger[a] /\ \A f \in ledger[a] : f.year <= Newest(a).year
  BY <1>2 DEF Newest
<1>4. ASSUME NEW f, IsNewest(a, f) PROVE f = Newest(a)
  <2>1. f \in Line /\ Newest(a) \in Line
    BY <1>1, <1>3, <1>4 DEF IsNewest
  <2>2. f.year \in Nat /\ Newest(a).year \in Nat
    BY <2>1 DEF Line
  <2>3. f.year = Newest(a).year
    BY <1>3, <1>4, <2>2 DEF IsNewest
  <2>4. QED
    BY <1>3, <1>4, <2>3 DEF IsNewest, LedgerTyped
<1>5. QED
  BY <1>1, <1>3, <1>4

LEMMA OpeningIs ==
    ASSUME AssetInv, NEW a \in Assets, asset[a].terms \in Terms
    PROVE  Opening(a) \in Int /\ \A f : IsNewest(a, f) => Opening(a) = f.closing
<1>1. PICK t \in [price : Nat, salvage : Nat, life : Nat, straight : BOOLEAN] : t = asset[a].terms
  BY AssetAssumption
<1>2. CASE ledger[a] = {}
  BY <1>1, <1>2 DEF Opening, IsNewest
<1>3. CASE ledger[a] # {}
  <2>1. Newest(a) \in Line /\ \A f : IsNewest(a, f) => f = Newest(a)
    BY <1>3, NewestIs DEF AssetInv
  <2>2. QED
    BY <1>3, <2>1 DEF Opening, Line
<1>4. QED
  BY <1>2, <1>3

LEMMA EntriesAreWorked ==
    ASSUME AssetInv, NEW read \in Read, read.terms.life > 0
    PROVE  /\ Entry(read) \in Worked /\ Entry(read).year = year
           /\ Entry(read).opening = read.opening /\ Entry(read).since = read.since
<1>1. PICK t \in [price : Nat, salvage : Nat, life : Nat, straight : BOOLEAN] : t = read.terms
  BY AssetAssumption DEF Read
<1>2. PICK o \in Int : o = read.opening
  BY DEF Read
<1>3. DepreciationAmount(o, t) \in Int
  <2>1. t.price \in Int /\ t.salvage \in Int /\ t.life \in Nat /\ t.life > 0
    BY <1>1
  <2>2. (t.price - t.salvage) \div t.life \in Int /\ o \div 4 \in Int
    BY <2>1
  <2>3. QED
    BY <2>1, <2>2 DEF DepreciationAmount, AtLeast
<1>4. AtLeast(o - DepreciationAmount(o, t), t.salvage) \in Int
  BY <1>1, <1>3 DEF AtLeast
<1>5. year \in Nat /\ read.since \in Nat
  BY AssetAssumption DEF AssetInv, AssetTyped, Read
<1>6. QED
  BY <1>1, <1>2, <1>4, <1>5 DEF Entry, Worked

(* A request that has read the asset, or worked out an entry, from what    *)
(* the ledger is.                                                          *)
Bookkeeps(p, at, a, y) ==
    /\ AssetMoves(p, at, a, y) /\ UNCHANGED <<category, asset, loan, ledger, year>>
    /\ \/ at = "look" /\ y \in Read /\ y.terms.life > 0
       \/ at = "book" /\ y \in Worked

LEMMA BookkeepsHolds ==
    ASSUME AssetInv, NEW p \in Procs, NEW a \in Assets, NEW at, NEW y, Bookkeeps(p, at, a, y),
           FoundLast(p, a)'
    PROVE  AssetInv'
<1>1. AssetTyped'
  BY DEF Bookkeeps, AssetInv, AssetTyped, AssetsTyped, LoansTyped, AssetRequestsTyped, AssetMoves,
     Placeable, At, OnAsset
<1>2. LoansAreCounted'
  BY LoansAreLeftHolds, LoansMoveHolds DEF Bookkeeps, AssetInv, LoansAreLeft, AssetMoves, At
<1>3. LedgerTyped' /\ LedgerIsContinuous'
  BY DEF Bookkeeps, AssetInv, LedgerTyped, IsNewest, LedgerIsContinuous
<1>4. BookersAgree'
  <2> SUFFICES ASSUME NEW q \in Procs, At(q, "look")' \/ At(q, "book")' PROVE FoundLast(q, req[q].row)'
    BY DEF BookersAgree
  <2>1. CASE q = p
    BY <2>1 DEF Bookkeeps, AssetMoves
  <2>2. CASE q # p
    <3>1. FoundLast(q, req[q].row) /\ req'[q] = req[q]
      BY <2>2 DEF Bookkeeps, AssetInv, BookersAgree, AssetMoves, At
    <3>2. QED
      BY <3>1 DEF Bookkeeps, FoundLast, Booked, IsNewest, At
  <2>3. QED
    BY <2>1, <2>2
<1>5. QED
  BY <1>1, <1>2, <1>3, <1>4 DEF AssetInv

LEMMA CreateDepreciationHolds ==
    ASSUME AssetInv, NEW p \in Procs, NEW a \in Assets, CreateDepreciation(p, a) PROVE AssetInv'
<1> DEFINE read == [terms |-> asset[a].terms, opening |-> Opening(a), since |-> year]
<1>1. asset[a].terms \in Terms /\ asset[a].terms.life > 0
  BY RowsOfAssets DEF CreateDepreciation, AssetInv, AssetTyped, Live, Row
<1>2. Opening(a) \in Int /\ \A f : IsNewest(a, f) => Opening(a) = f.closing
  BY <1>1, OpeningIs
<1>3. year \in Nat
  BY AssetAssumption DEF AssetInv, AssetTyped
<1>4. read \in Read /\ read.terms = asset[a].terms /\ read.opening = Opening(a) /\ read.since = year
  BY <1>1, <1>2, <1>3 DEF Read
<1>5. Begins(p, "look", a, read) /\ UNCHANGED <<category, asset, loan, ledger, year>>
  BY DEF CreateDepreciation
<1> HIDE DEF read
<1>6. Bookkeeps(p, "look", a, read)
  BY <1>1, <1>4, <1>5, AssetMovesHolds DEF Bookkeeps, AssetInv, AssetTyped, AssetRequestsTyped
<1>7. FoundLast(p, a)'
  BY <1>2, <1>3, <1>4, <1>6 DEF Bookkeeps, AssetMoves, FoundLast, IsNewest, At
<1>8. QED
  BY <1>6, <1>7, BookkeepsHolds

LEMMA LookUpHolds == ASSUME AssetInv, NEW p \in Procs, LookUp(p) PROVE AssetInv'
<1>1. PICK a \in Assets : a = req[p].row
  BY DEF LookUp, AssetInv, AssetTyped, AssetRequestsTyped, OnAsset, At
<1>2. PICK read \in Read : read = req[p].seen /\ read.terms.life > 0
  BY DEF LookUp, AssetInv, AssetTyped, AssetRequestsTyped
<1>3. UNCHANGED <<category, asset, loan, ledger, year>> /\ At(p, "look")
  BY DEF LookUp
<1>4. CASE Booked(a, year)
  <2>1. AssetsTyped'
    BY <1>3 DEF AssetInv, AssetTyped, AssetsTyped, Placeable
  <2>2. StepsAside(p, "idle", None, None)
    BY <1>1, <1>3, <1>4, AssetMovesHolds DEF LookUp, StepsAside, OnAsset, AssetInv, AssetTyped,
       AssetRequestsTyped
  <2>3. QED
    BY <1>3, <2>1, <2>2, AsideHolds DEF AssetInv, AssetTyped
<1>5. CASE ~Booked(a, year)
  <2>1. PICK entry \in Worked : /\ entry = Entry(read) /\ entry.year = year
                                /\ entry.opening = read.opening /\ entry.since = read.since
    BY <1>2, EntriesAreWorked
  <2>2. req' = [req EXCEPT ![p] = [at |-> "book", row |-> a, seen |-> entry]] /\ DOMAIN req = Procs
    BY <1>1, <1>2, <1>5, <2>1 DEF LookUp, AssetInv, AssetTyped, AssetRequestsTyped
  <2>3. Bookkeeps(p, "book", a, entry)
    BY <1>3, <2>2 DEF Bookkeeps, AssetMoves
  <2>4. FoundLast(p, a)
    BY <1>1, <1>3 DEF AssetInv, BookersAgree
  <2>5. year \in Nat /\ read.since \in Nat
    BY AssetAssumption DEF AssetInv, AssetTyped, Read
  <2>6. FoundLast(p, a)'
    BY <1>2, <2>1, <2>3, <2>4, <2>5 DEF Bookkeeps, AssetMoves, FoundLast, IsNewest, Booked, At
  <2>7. QED
    BY <2>3, <2>6, BookkeepsHolds
<1>6. QED
  BY <1>4, <1>5

(* An entry that is not late was read and booked in the year it is for.    *)
LEMMA BookHolds == ASSUME AssetInv, NEW p \in Procs, Book(p) PROVE AssetInv'
<1>1. PICK a \in Assets : a = req[p].row
  BY DEF Book, AssetInv, AssetTyped, AssetRequestsTyped, OnAsset, At
<1>2. PICK entry \in Worked : entry = req[p].seen
  BY DEF Book, AssetInv, AssetTyped, AssetRequestsTyped, At
<1>3. UNCHANGED <<category, asset, loan, year>> /\ At(p, "book")
  BY DEF Book
<1>4. AssetsTyped'
  BY <1>3 DEF AssetInv, AssetTyped, AssetsTyped, Placeable
<1>5. CASE Booked(a, entry.year)
  <2>1. StepsAside(p, "idle", None, None)
    BY <1>1, <1>2, <1>3, <1>5, AssetMovesHolds DEF Book, StepsAside, OnAsset, AssetInv, AssetTyped,
       AssetRequestsTyped
  <2>2. QED
    BY <1>3, <1>4, <2>1, AsideHolds DEF AssetInv, AssetTyped
<1>6. CASE ~Booked(a, entry.year)
  <2>1. AssetMoves(p, "value", a, entry)
    BY <1>1, <1>2, <1>6, AssetMovesHolds DEF Book, AssetInv, AssetTyped, AssetRequestsTyped
  <2>2. /\ year \in Nat /\ entry.year \in Nat /\ entry.since \in Nat
        /\ entry.since <= entry.year /\ entry.year <= year
        /\ \A e \in ledger[a] : e \in Line /\ e.year \in Nat /\ e.year <= year /\ e.year # entry.year
    <3>1. FoundLast(p, a)
      BY <1>1, <1>3 DEF AssetInv, BookersAgree
    <3>2. year \in Nat /\ entry.year \in Nat /\ entry.since \in Nat
      BY AssetAssumption DEF AssetInv, AssetTyped, Worked
    <3>3. \A e \in ledger[a] : e \in Line /\ e.year <= year
      BY DEF AssetInv, LedgerTyped
    <3>4. \A e \in Line : e.year \in Nat
      BY DEF Line
    <3>5. QED
      BY <1>2, <1>3, <1>6, <3>1, <3>2, <3>3, <3>4 DEF FoundLast, Booked
  <2>3. PICK line \in Line : /\ line = LineOf(entry) /\ line.year = entry.year
                             /\ line.opening = entry.opening
                             /\ ~line.late => entry.since = year /\ line.year = year
    <3>1. /\ LineOf(entry) \in Line /\ LineOf(entry).year = entry.year
          /\ LineOf(entry).opening = entry.opening
          /\ ~LineOf(entry).late <=> entry.since = year
      BY DEF LineOf, Line, Worked
    <3>2. QED
      BY <2>2, <3>1
  <2>4. ledger' = [ledger EXCEPT ![a] = ledger[a] \cup {line}]
    BY <1>1, <1>2, <1>6, <2>3 DEF Book
  <2>5. /\ ledger' \in [Assets -> SUBSET Line] /\ ledger'[a] = ledger[a] \cup {line}
        /\ \A b \in Assets : b # a => ledger'[b] = ledger[b]
    BY <2>4 DEF AssetInv, LedgerTyped
  <2>6. ASSUME NEW f \in ledger[a], ~f.late, ~line.late,
               \A g \in ledger[a] : g.year <= f.year \/ line.year <= g.year
        PROVE  line.opening = f.closing
    <3>1. entry.since = year /\ ~Booked(a, year)
      BY <1>6, <2>3, <2>6
    <3>2. IsNewest(a, f)
      BY <2>2, <2>3, <2>6 DEF IsNewest
    <3>3. FoundLast(p, a)
      BY <1>1, <1>3 DEF AssetInv, BookersAgree
    <3>4. QED
      BY <1>2, <2>3, <2>6, <3>1, <3>2, <3>3 DEF FoundLast
  <2>7. LedgerTyped'
    <3>1. \E e \in ledger'[a] : \A f \in ledger'[a] : f.year <= e.year
      <4>1. CASE ledger[a] = {}
        BY <2>2, <2>3, <2>5, <4>1
      <4>2. CASE ledger[a] # {}
        <5>1. PICK e \in ledger[a] : \A f \in ledger[a] : f.year <= e.year
          BY <4>2 DEF AssetInv, LedgerTyped, IsNewest
        <5>2. CASE line.year <= e.year
          BY <2>5, <5>1, <5>2
        <5>3. CASE ~(line.year <= e.year)
          BY <2>2, <2>3, <2>5, <5>1, <5>3
        <5>4. QED
          BY <5>2, <5>3
      <4>3. QED
        BY <4>1, <4>2
    <3>2. ASSUME NEW b \in Assets
          PROVE  /\ \A e \in ledger'[b] : e.year <= year
                 /\ \A e, f \in ledger'[b] : e.year = f.year => e = f
                 /\ ledger'[b] = {} \/ \E e \in ledger'[b] : \A f \in ledger'[b] : f.year <= e.year
      <4>1. CASE b = a
        BY <2>2, <2>3, <2>5, <3>1, <4>1 DEF AssetInv, LedgerTyped
      <4>2. CASE b # a
        BY <2>5, <4>2 DEF AssetInv, LedgerTyped, IsNewest
      <4>3. QED
        BY <4>1, <4>2
    <3>3. QED
      BY <1>3, <2>5, <3>2 DEF LedgerTyped, IsNewest
  <2>8. LedgerIsContinuous'
    <3> SUFFICES ASSUME NEW b \in Assets, NEW e \in ledger'[b], NEW f \in ledger'[b], f.year < e.year,
                        \A g \in ledger'[b] : g.year <= f.year \/ e.year <= g.year, ~e.late, ~f.late
                 PROVE  e.opening = f.closing
      BY DEF LedgerIsContinuous
    <3>1. CASE e \in ledger[b] /\ f \in ledger[b]
      <4>1. \A g \in ledger[b] : g.year <= f.year \/ e.year <= g.year
        BY <2>5
      <4>2. QED
        BY <3>1, <4>1 DEF AssetInv, LedgerIsContinuous
    <3>2. CASE b = a /\ e = line
      <4>1. f \in ledger[a]
        BY <2>2, <2>3, <2>5, <3>2
      <4>2. \A g \in ledger[a] : g.year <= f.year \/ line.year <= g.year
        BY <2>5, <3>2
      <4>3. QED
        BY <2>6, <3>2, <4>1, <4>2
    <3>3. CASE b = a /\ f = line
      <4>1. e.year <= year /\ e.year \in Nat
        BY <2>2, <2>3, <2>5, <3>3
      <4>2. QED
        BY <2>2, <2>3, <3>3, <4>1
    <3>4. QED
      BY <2>5, <3>1, <3>2, <3>3
  <2>9. BookersAgree'
    <3> SUFFICES ASSUME NEW q \in Procs, At(q, "look")' \/ At(q, "book")' PROVE FoundLast(q, req[q].row)'
      BY DEF BookersAgree
    <3>1. q # p /\ req'[q] = req[q] /\ FoundLast(q, req[q].row) /\ req[q].row \in Assets
      BY <2>1 DEF AssetMoves, AssetInv, BookersAgree, AssetTyped, AssetRequestsTyped, OnAsset, At
    <3>2. CASE req[q].row = a
      <4>1. Booked(a, year) => Booked(a, year)'
        BY <1>3, <2>5 DEF Booked
      <4>2. ASSUME ~Booked(a, year)', NEW f, IsNewest(a, f)', ~f.late PROVE IsNewest(a, f)
        <5>1. f # line
          BY <1>3, <2>3, <2>5, <4>2 DEF Booked
        <5>2. QED
          BY <2>5, <4>2, <5>1 DEF IsNewest
      <4>3. QED
        BY <1>3, <3>1, <3>2, <4>1, <4>2 DEF FoundLast, At
    <3>3. CASE req[q].row # a
      BY <1>3, <2>5, <3>1, <3>3 DEF FoundLast, Booked, IsNewest, At
    <3>4. QED
      BY <3>2, <3>3
  <2>10. AssetTyped'
    BY <1>3, <1>4, <2>1 DEF AssetInv, AssetTyped, LoansTyped, AssetRequestsTyped, AssetMoves, At, OnAsset
  <2>11. LoansAreCounted'
    BY <1>3, <2>1, LoansAreLeftHolds, LoansMoveHolds DEF AssetInv, LoansAreLeft, AssetMoves, At
  <2>12. QED
    BY <2>7, <2>8, <2>9, <2>10, <2>11 DEF AssetInv
<1>7. QED
  BY <1>5, <1>6

(* What was read before the year changed belongs to the year before.       *)
LEMMA NewYearHolds == ASSUME AssetInv, NewYear PROVE AssetInv'
<1>1. UNCHANGED <<category, asset, loan, ledger, req>> /\ year' = year + 1 /\ year' \in 0..LastYear
        /\ year \in Nat
  BY AssetAssumption DEF NewYear, AssetInv, AssetTyped
<1>2. AssetTyped'
  BY <1>1 DEF AssetInv, AssetTyped, AssetsTyped, LoansTyped, AssetRequestsTyped, Placeable, At
<1>3. LoansAreCounted'
  BY <1>1, LoansAreLeftHolds, LoansMoveHolds DEF AssetInv, LoansAreLeft
<1>4. LedgerTyped'
  <2>1. ASSUME NEW a \in Assets, NEW e \in ledger[a] PROVE e.year <= year + 1
    <3>1. e \in Line /\ e.year <= year
      BY DEF AssetInv, LedgerTyped
    <3>2. e.year \in Nat
      BY <3>1 DEF Line
    <3>3. QED
      BY <1>1, <3>1, <3>2
  <2>2. QED
    BY <1>1, <2>1 DEF AssetInv, LedgerTyped, IsNewest
<1>5. LedgerIsContinuous'
  BY <1>1 DEF AssetInv, LedgerIsContinuous
<1>6. BookersAgree'
  <2> SUFFICES ASSUME NEW q \in Procs, At(q, "look") \/ At(q, "book") PROVE FoundLast(q, req[q].row)'
    BY <1>1 DEF BookersAgree, At
  <2>1. FoundLast(q, req[q].row)
    BY DEF AssetInv, BookersAgree
  <2>2. req[q].seen.since \in Nat /\ (At(q, "book") => req[q].seen.year \in Nat)
    BY DEF AssetInv, AssetTyped, AssetRequestsTyped, Read, Worked, At
  <2>3. QED
    BY <1>1, <2>1, <2>2 DEF FoundLast, At
<1>7. QED
  BY <1>2, <1>3, <1>4, <1>5, <1>6 DEF AssetInv

LEMMA AssetInitHolds == AssetInit => AssetInv
<1> SUFFICES ASSUME AssetInit PROVE AssetInv
  OBVIOUS
<1>1. DOMAIN req = Procs /\ \A p \in Procs : req[p].at = "idle"
  BY DEF AssetInit, ReqInit, NoRequest
<1>2. NoAsset \in Row /\ NoAsset.category = None /\ NoAsset.state = "none"
  BY DEF NoAsset, Row
<1>3. AssetsTyped
  BY <1>2 DEF AssetInit, AssetsTyped, Placeable
<1>4. AssetTyped
  BY <1>1, <1>3, AssetAssumption DEF AssetInit, AssetTyped, LoansTyped, AssetRequestsTyped, Loan, OnAsset, At
<1>5. \A a : OnLoan(a) = {}
  BY DEF AssetInit, OnLoan, NoLoan
<1>6. LoansAreCounted
  BY <1>5, LendersAreFew, FS_EmptySet DEF LoansAreCounted, LoansFollowRaces
<1>7. LedgerTyped /\ LedgerIsContinuous
  BY DEF AssetInit, LedgerTyped, LedgerIsContinuous
<1>8. BookersAgree
  BY <1>1 DEF BookersAgree, At
<1>9. QED
  BY <1>4, <1>6, <1>7, <1>8 DEF AssetInv

LEMMA AssetStepHolds == AssetInv /\ [AssetNext]_assetVars => AssetInv'
<1> SUFFICES ASSUME AssetInv, [AssetNext]_assetVars PROVE AssetInv'
  OBVIOUS
<1>1. CASE UNCHANGED assetVars
  <2>1. UNCHANGED <<category, asset, loan, ledger, year, req>>
    BY <1>1 DEF assetVars
  <2>2. AssetsTyped'
    BY <2>1 DEF AssetInv, AssetTyped, AssetsTyped, Placeable
  <2>3. QED
    BY <2>1, <2>2, AloneHolds DEF AssetInv, AssetTyped
<1>2. CASE AssetNext
  BY <1>2, CategoriesHold, DropCategoryHolds, CreateAssetHolds, BeginsAside, LabelHolds,
     EditAssetHolds, AssetStatesHold, CreateLoanHolds, LendHolds, ReturnLoanHolds, TakeBackHolds,
     AssetDiesHolds, CreateDepreciationHolds, LookUpHolds, BookHolds, NewYearHolds DEF AssetNext
<1>3. QED
  BY <1>1, <1>2

(* An asset never has more open loans than requests overlap, and each year *)
(* of its ledger opens with what the last before it closed at, unless the  *)
(* year changed while one of them was booked (createLoan,                  *)
(* createDepreciation).                                                    *)
THEOREM RegisterAgreesHolds == AssetSpec => []RegisterAgrees
<1>1. AssetInv => RegisterAgrees
  BY DEF AssetInv, LoansAreCounted, RegisterAgrees
<1>2. QED
  BY <1>1, AssetInitHolds, AssetStepHolds, PTL DEF AssetSpec

-----------------------------------------------------------------------------
(* The registers, in turn *)

PlanSeats ==
    /\ staff \in [Staff -> {"none", "active", "inactive"}]
    /\ seat \in [Staff -> [state : {"free", "held", "expired"}, by : Procs \cup {None}]]
    /\ identity \subseteq Staff
    /\ churchLock \in Procs \cup {None}

LEMMA PlanSeatsHold == ASSUME PlanInv, PlanSeats, [PlanNext]_planVars PROVE PlanSeats'
<1>1. CASE UNCHANGED planVars
  BY <1>1 DEF planVars, PlanSeats
<1>2. ASSUME NEW r, ArchiveRow(r) \/ \E p \in Procs : AddRow(p, r) PROVE PlanSeats'
  BY <1>2 DEF ArchiveRow, AddRow, Adding, PlanSeats
<1>3. ASSUME NEW new, ChangePlan(new) PROVE PlanSeats'
  BY <1>3 DEF ChangePlan, PlanSeats
<1>4. ASSUME NEW e \in Staff,
             Deactivate(e) \/ SeatExpires(e)
               \/ \E p \in Procs : Activate(p, e) \/ InviteUser(p, e) \/ DeleteUserAccount(p, e)
      PROVE  PlanSeats'
  <2>1. CASE Deactivate(e)
    BY <2>1 DEF Deactivate, PlanSeats
  <2>2. CASE SeatExpires(e)
    BY <2>2 DEF SeatExpires, PlanSeats
  <2>3. CASE \E p \in Procs : Activate(p, e) \/ InviteUser(p, e) \/ DeleteUserAccount(p, e)
    BY <2>3 DEF Activate, InviteUser, DeleteUserAccount, Adding, PlanSeats
  <2>4. QED
    BY <1>4, <2>1, <2>2, <2>3
<1>5. ASSUME NEW p \in Procs,
             \/ CommitRow(p) \/ CommitActive(p) \/ ReserveStaffSeat(p) \/ CommitSeat(p)
             \/ GenerateLink(p) \/ CreateProfile(p) \/ CommitProfile(p)
             \/ ReleaseStaffSeat(p) \/ DeleteIdentity(p) \/ DropProfile(p) \/ PlanDies(p)
      PROVE  PlanSeats'
  <2>1. \/ At(p, "addRow") /\ CommitRow(p)
        \/ PlanDies(p)
        \/ req[p].row \in Staff
    BY <1>5 DEF CommitRow, CommitActive, ReserveStaffSeat, CommitSeat, GenerateLink, CreateProfile,
       CommitProfile, ReleaseStaffSeat, DeleteIdentity, DropProfile, PlanInv, PlanTyped, At
  <2>2. CASE CommitRow(p) \/ PlanDies(p)
    BY <2>2 DEF CommitRow, PlanDies, PlanSeats
  <2>3. CASE req[p].row \in Staff /\ (CommitActive(p) \/ CommitProfile(p) \/ DropProfile(p))
    BY <2>3 DEF CommitActive, CommitProfile, DropProfile, PlanSeats
  <2>4. CASE ReserveStaffSeat(p) \/ DeleteIdentity(p) \/ CreateProfile(p)
    BY <2>4 DEF ReserveStaffSeat, DeleteIdentity, CreateProfile, Adding, PlanSeats
  <2>5. CASE req[p].row \in Staff /\ (CommitSeat(p) \/ GenerateLink(p) \/ ReleaseStaffSeat(p))
    BY <2>5 DEF CommitSeat, GenerateLink, ReleaseStaffSeat, Free, PlanSeats
  <2>6. QED
    BY <1>5, <2>1, <2>2, <2>3, <2>4, <2>5
<1>6. QED
  BY <1>1, <1>2, <1>3, <1>4, <1>5 DEF PlanNext

RegistersInv ==
    /\ part \in Parts
    /\ part \in {"loans", "values"} => AssetInv
    /\ part = "forms" => FormInv
    /\ part = "plan" => PlanInv /\ PlanSeats
    /\ part = "attendance" => AttendanceInv

LEMMA RegistersInitHolds == Init => RegistersInv
<1>1. PlanInit => PlanSeats
  BY DEF PlanInit, PlanSeats, Free
<1>2. QED
  BY <1>1, AssetInitHolds, FormInitHolds, PlanInitHolds, AttendanceInitHolds DEF Init, RegistersInv

LEMMA RegistersStepHolds == RegistersInv /\ [Next]_vars => RegistersInv'
<1> SUFFICES ASSUME RegistersInv, [Next]_vars PROVE RegistersInv'
  OBVIOUS
<1>1. part' = part /\ part \in Parts
  BY DEF Next, vars, RegistersInv
<1>2. CASE part \in {"loans", "values"}
  <2>1. [AssetNext]_assetVars
    BY <1>2 DEF Next, vars, OfAssets, assetVars
  <2>2. QED
    BY <1>1, <1>2, <2>1, AssetStepHolds DEF RegistersInv
<1>3. CASE part = "forms"
  <2>1. [FormNext]_formVars
    BY <1>3 DEF Next, vars, OfForms, formVars
  <2>2. QED
    BY <1>1, <1>3, <2>1, FormStepHolds DEF RegistersInv
<1>4. CASE part = "plan"
  <2>1. [PlanNext]_planVars
    BY <1>4 DEF Next, vars, OfPlan, planVars
  <2>2. QED
    BY <1>1, <1>4, <2>1, PlanStepHolds, PlanSeatsHold DEF RegistersInv
<1>5. CASE part = "attendance"
  <2>1. [AttendanceNext]_attendanceVars
    BY <1>5 DEF Next, vars, OfAttendance, attendanceVars
  <2>2. QED
    BY <1>1, <1>5, <2>1, AttendanceStepHolds DEF RegistersInv
<1>6. QED
  BY <1>1, <1>2, <1>3, <1>4, <1>5 DEF Parts

(* Whichever register it is, its rows and requests have their types.       *)
THEOREM RegistersTyped == Spec => []TypeOK
<1>1. RegistersInv => TypeOK
  <2>1. AssetInv => AssetTypeOK
    <3>1. ASSUME AssetInv, NEW a \in Assets
          PROVE  /\ asset[a].state \in {"none", "live", "archived"}
                 /\ asset[a].status \in Statuses \cup {"active", "maintenance", "disposed"}
                 /\ asset[a].category \in Placeable
      BY <3>1, RowsOfAssets DEF AssetInv, AssetTyped, Row
    <3>2. QED
      BY <3>1 DEF AssetInv, AssetTyped, AssetTypeOK, LoansTyped, Loan
  <2>2. PlanInv /\ PlanSeats => PlanTypeOK
    BY DEF PlanInv, PlanTyped, LockIsHeld, PlanSeats, PlanTypeOK
  <2>3. QED
    BY <2>1, <2>2 DEF RegistersInv, TypeOK, FormInv, AttendanceInv, Parts
<1>2. QED
  BY <1>1, RegistersInitHolds, RegistersStepHolds, PTL DEF Spec
=============================================================================
