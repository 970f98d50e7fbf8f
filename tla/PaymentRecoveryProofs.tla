------------------------- MODULE PaymentRecoveryProofs -------------------------
(***************************************************************************)
(* Proofs about PaymentRecovery for every set of references, page size and *)
(* number of restarts.                                                     *)
(***************************************************************************)
EXTENDS PaymentRecovery, TLAPS

(* References are numbers above the empty cursor. *)
LEMMA Numbers ==
    /\ MaxCrashes \in Nat
    /\ \A r \in Refs : r \in Nat /\ r > 0
BY RecoveryAssumption

(* The invariant: types, and the place of what a pass still owes. *)
RecoveryInv == TypeOK /\ OwedIsAhead

(* Beginning a page that holds all of Behind up to the new cursor keeps it. *)
LEMMA BeginKeeps ==
    ASSUME RecoveryInv, NEW rows \in SUBSET Behind, NEW next \in Refs \cup {0},
           \A r \in Behind : r \in rows \/ (next # 0 /\ next < r),
           Begin(rows, next)
    PROVE  RecoveryInv'
<1>1. TypeOK'
  BY DEF RecoveryInv, TypeOK, Begin, Behind
<1>2. ASSUME NEW r \in owed' PROVE r \in Behind
  <2>1. CASE cursor = 0
    BY <1>2, <2>1, Numbers DEF RecoveryInv, TypeOK, Begin, Behind
  <2>2. CASE cursor # 0
    BY <1>2, <2>2, Numbers DEF RecoveryInv, TypeOK, OwedIsAhead, Begin, Behind
  <2> QED BY <2>1, <2>2
<1>3. OwedIsAhead'
  BY <1>2 DEF OwedIsAhead, Begin
<1> QED BY <1>1, <1>3 DEF RecoveryInv

LEMMA InitRecovery == Init => RecoveryInv
BY Numbers DEF Init, RecoveryInv, TypeOK, OwedIsAhead

LEMMA NextRecovery == RecoveryInv /\ [Next]_vars => RecoveryInv'
<1> SUFFICES ASSUME RecoveryInv, [Next]_vars PROVE RecoveryInv'
  OBVIOUS
<1>1. ASSUME NEW r \in Refs, Enter(r) PROVE RecoveryInv'
  BY <1>1 DEF Enter, RecoveryInv, TypeOK, OwedIsAhead
<1>2. ASSUME NEW r \in Refs, Leave(r) PROVE RecoveryInv'
  BY <1>2 DEF Leave, RecoveryInv, TypeOK, OwedIsAhead
<1>3. ASSUME NEW r \in Refs, Visit(r) PROVE RecoveryInv'
  BY <1>3 DEF Visit, RecoveryInv, TypeOK, OwedIsAhead
<1>4. ASSUME NEW last \in Refs, ScanFull(last) PROVE RecoveryInv'
  <2>1. \A r \in Behind : r \in UpTo(last) \/ (last # 0 /\ last < r)
    BY Numbers DEF Behind, UpTo, RecoveryInv, TypeOK
  <2>2. UpTo(last) \in SUBSET Behind /\ Begin(UpTo(last), last)
    BY <1>4 DEF ScanFull, UpTo
  <2> QED BY <2>1, <2>2, BeginKeeps
<1>5. CASE ScanRest
  <2>1. Begin(Behind, 0) /\ \A r \in Behind : r \in Behind
    BY <1>5 DEF ScanRest
  <2> QED BY <2>1, BeginKeeps
<1>6. CASE Crash
  BY <1>6, Numbers DEF Crash, RecoveryInv, TypeOK, OwedIsAhead
<1>7. CASE UNCHANGED vars
  BY <1>7 DEF vars, RecoveryInv, TypeOK, OwedIsAhead
<1> QED BY <1>1, <1>2, <1>3, <1>4, <1>5, <1>6, <1>7 DEF Next, Scan

(* The invariant holds in every state. *)
THEOREM RecoveryCorrect == Spec => []RecoveryInv
BY InitRecovery, NextRecovery, PTL DEF Spec

(* A pass of the recovery worker ends only when every payment that was a    *)
(* candidate when it began was visited, whatever checkouts insert and       *)
(* answers remove while it runs, and wherever the page ends.                *)
THEOREM PassCoversHolds == Spec => []PassCovers
<1>1. RecoveryInv => PassCovers
  BY DEF RecoveryInv, OwedIsAhead, PassCovers
<1> QED BY <1>1, RecoveryCorrect, PTL
=============================================================================
