---------------------------- MODULE AccessProofs ----------------------------
(***************************************************************************)
(* Who is let in, what the caches serve, and what reaches the devices:     *)
(* proved for any sessions, codes, requests, replicas, permissions,        *)
(* records, devices and bounds.                                            *)
(*                                                                         *)
(* The second factor.  A revision is used once: the one of an enrolment    *)
(* that is not yet written is known to nobody else, so whoever is accepted *)
(* under the revision in force was let in under it.  And the codes spent   *)
(* of the enrolment in force are those its row refuses: app codes up to    *)
(* the last one used, recovery codes that are struck out, and those of     *)
(* sets replaced before.                                                   *)
(*                                                                         *)
(* The cache of answers.  A version is used once.  Whatever a late request *)
(* still stores it stores under a version that was issued when it began,   *)
(* so nothing can be waiting under the version a write is about to set;    *)
(* and who reads the database after that version is set finds the write.   *)
(*                                                                         *)
(* The cache of permissions.  A role gets its kind once, so what a request *)
(* has read of it stays true; and whatever changes the rows marks every    *)
(* request that has read them and not yet stored its answer.               *)
(*                                                                         *)
(* The feed.  Of a record whose changes came in order the last row that is *)
(* kept tells whether the record is there; and a device agrees with the    *)
(* server on it, or a row of it is after both cursors, its own and the     *)
(* one that is kept for it.  So a page that a later row contradicts is put *)
(* right by that row, and only a purge takes it away.                      *)
(***************************************************************************)
EXTENDS Authenticator, ResponseCache, PermissionCache, SyncFeed, FiniteSetTheorems, TLAPS

-----------------------------------------------------------------------------
(* Counting *)

LEMMA Fewer ==
    ASSUME NEW T, IsFiniteSet(T), NEW U \in SUBSET T
    PROVE  /\ IsFiniteSet(U)
           /\ Cardinality(T) \in Nat /\ Cardinality(U) \in Nat
           /\ Cardinality(U) <= Cardinality(T)
BY FS_Subset, FS_CardinalityType

LEMMA OneMore ==
    ASSUME NEW T, IsFiniteSet(T), NEW x, NEW U \in SUBSET (T \cup {x})
    PROVE  /\ IsFiniteSet(U)
           /\ Cardinality(T) \in Nat /\ Cardinality(U) \in Nat
           /\ Cardinality(U) <= Cardinality(T) + 1
<1>1. IsFiniteSet(T \cup {x}) /\ Cardinality(T) \in Nat
        /\ Cardinality(T \cup {x}) <= Cardinality(T) + 1
  BY FS_AddElement, FS_CardinalityType
<1>2. QED
  BY <1>1, Fewer

LEMMA OneLess ==
    ASSUME NEW T, IsFiniteSet(T), NEW x \in T, NEW U \in SUBSET (T \ {x})
    PROVE  /\ IsFiniteSet(U)
           /\ Cardinality(T) \in Nat /\ Cardinality(U) \in Nat
           /\ Cardinality(U) + 1 <= Cardinality(T)
<1>1. /\ IsFiniteSet(T \ {x}) /\ Cardinality(T) \in Nat
      /\ Cardinality(T \ {x}) = Cardinality(T) - 1
  BY FS_RemoveElement, FS_CardinalityType
<1>2. QED
  BY <1>1, Fewer

-----------------------------------------------------------------------------
(* The second factor: its argument *)

Codes == ({"app"} \X Int) \cup ({"recovery"} \X Recovery)
Factors == [revision : Nat, used : Int, set : Nat, unused : SUBSET Recovery]

(* What the request compares and was given. *)
OfRequest(p) == req[p].seen.factor
CodeOf(p) == req[p].seen.code

FactorTyped ==
    /\ factor \in Factors
    /\ revisions \in Nat
    /\ now \in Int
    /\ approved \in [Sessions -> Int]
    /\ DOMAIN req = Procs
    /\ \A p \in Procs : ~Idle(p) => req[p].row \in Sessions /\ OfRequest(p) \in Factors
    /\ \A p \in Procs : At(p, "spend") =>
          /\ req[p].seen.why \in {"login", "disable", "regenerate"}
          /\ CodeOf(p) \in Codes
          /\ CodeOf(p)[1] = "recovery" => CodeOf(p)[2] \in OfRequest(p).unused
    /\ \A t \in spent : t \in Int \X Int \X Codes

(* No revision is ahead of the enrolments made. *)
RevisionsAreCounted ==
    /\ factor.revision <= revisions
    /\ \A s \in Sessions : approved[s] <= revisions
    /\ \A p \in Procs : ~Idle(p) => OfRequest(p).revision <= revisions
    /\ \A t \in spent : t[1] <= revisions

(* The revision of an enrolment that is on its way is known to it alone. *)
NewRevisionsAreUnknown ==
    \A p \in Procs : At(p, "activate") =>
        /\ OfRequest(p).revision > 0
        /\ OfRequest(p).revision # factor.revision
        /\ \A s \in Sessions : approved[s] # OfRequest(p).revision
        /\ \A q \in Procs \ {p} : ~Idle(q) => OfRequest(q).revision # OfRequest(p).revision
        /\ \A t \in spent : t[1] # OfRequest(p).revision

(* What is about to be approved has been answered for. *)
ApprovalsWereAnswered ==
    Enrolled => \A p \in Procs :
        (At(p, "approve") \/ At(p, "upsert")) /\ OfRequest(p).revision = factor.revision =>
            <<req[p].row, factor.revision>> \in proven

(* The row refuses every code that was spent under its revision. *)
SpentAreRefused ==
    \A t \in spent : t[1] = factor.revision =>
        IF t[3][1] = "app" THEN t[3][2] <= factor.used
        ELSE t[2] <= factor.set /\ (t[2] = factor.set => t[3][2] \notin factor.unused)

AuthInv ==
    /\ FactorTyped
    /\ RevisionsAreCounted
    /\ NewRevisionsAreUnknown
    /\ ApprovalsWereAnswered
    /\ AcceptedHaveAnswered
    /\ SpentAreRefused
    /\ CodesAreSpentOnce

-----------------------------------------------------------------------------
(* One request has moved, the others are as they were. *)
Moves(p, r) ==
    /\ DOMAIN req' = Procs
    /\ req'[p] = r
    /\ \A q \in Procs : q # p => req'[q] = req[q]

LEMMA MovesHolds ==
    ASSUME DOMAIN req = Procs, NEW p \in Procs, NEW r, req' = [req EXCEPT ![p] = r]
    PROVE  Moves(p, r)
BY DEF Moves

LEMMA EndsHolds ==
    ASSUME DOMAIN req = Procs, NEW p \in Procs, Ends(p)
    PROVE  Moves(p, NoRequest) /\ NoRequest.at = "idle"
BY MovesHolds DEF Ends, NoRequest

(* A request that ends leaves everything else as it was. *)
LEMMA IdleHolds ==
    ASSUME AuthInv, NEW p \in Procs, Moves(p, NoRequest),
           UNCHANGED <<factor, revisions, approved, now, proven, spent, reused>>
    PROVE  AuthInv'
<1> USE DEF Idle, At, OfRequest, CodeOf, NoRequest
<1>1. FactorTyped'
  BY DEF AuthInv, FactorTyped, Moves
<1>2. RevisionsAreCounted'
  BY DEF AuthInv, RevisionsAreCounted, Moves
<1>3. NewRevisionsAreUnknown'
  BY DEF AuthInv, NewRevisionsAreUnknown, Moves
<1>4. ApprovalsWereAnswered' /\ AcceptedHaveAnswered' /\ SpentAreRefused' /\ CodesAreSpentOnce'
  BY DEF AuthInv, ApprovalsWereAnswered, AcceptedHaveAnswered, SpentAreRefused, CodesAreSpentOnce,
         Enrolled, Accepted, Moves
<1>5. QED
  BY <1>1, <1>2, <1>3, <1>4 DEF AuthInv

(* What a request may become without disturbing anything. *)
Harmless(p, r) ==
    /\ r.at \notin {"idle", "activate"}
    /\ r.row \in Sessions /\ r.seen.factor \in Factors
    /\ r.at = "spend" =>
          /\ r.seen.why \in {"login", "disable", "regenerate"}
          /\ r.seen.code \in Codes
          /\ r.seen.code[1] = "recovery" => r.seen.code[2] \in r.seen.factor.unused
    /\ r.seen.factor.revision <= revisions
    /\ \A q \in Procs \ {p} : At(q, "activate") => OfRequest(q).revision # r.seen.factor.revision
    /\ Enrolled /\ r.at \in {"approve", "upsert"} /\ r.seen.factor.revision = factor.revision =>
          <<r.row, factor.revision>> \in proven

LEMMA HarmlessHolds ==
    ASSUME AuthInv, NEW p \in Procs, NEW r, Moves(p, r), Harmless(p, r),
           UNCHANGED <<factor, revisions, approved, now, proven, spent, reused>>
    PROVE  AuthInv'
<1> USE DEF Idle, At, OfRequest, CodeOf, Harmless
<1>1. FactorTyped'
  BY DEF AuthInv, FactorTyped, Moves
<1>2. RevisionsAreCounted'
  BY DEF AuthInv, RevisionsAreCounted, Moves
<1>3. NewRevisionsAreUnknown'
  <2> SUFFICES ASSUME NEW q \in Procs, At(q, "activate")'
               PROVE  /\ OfRequest(q)'.revision > 0
                      /\ OfRequest(q)'.revision # factor.revision
                      /\ \A s \in Sessions : approved[s] # OfRequest(q)'.revision
                      /\ \A w \in Procs \ {q} : ~Idle(w)' => OfRequest(w)'.revision # OfRequest(q)'.revision
                      /\ \A t \in spent : t[1] # OfRequest(q)'.revision
    BY DEF NewRevisionsAreUnknown
  <2>1. q # p /\ req'[q] = req[q] /\ At(q, "activate")
    BY DEF Moves
  <2>2. QED
    BY <2>1 DEF AuthInv, NewRevisionsAreUnknown, Moves
<1>4. ApprovalsWereAnswered'
  BY DEF AuthInv, ApprovalsWereAnswered, Enrolled, Moves
<1>5. AcceptedHaveAnswered' /\ SpentAreRefused' /\ CodesAreSpentOnce'
  BY DEF AuthInv, AcceptedHaveAnswered, SpentAreRefused, CodesAreSpentOnce, Enrolled, Accepted
<1>6. QED
  BY <1>1, <1>2, <1>3, <1>4, <1>5 DEF AuthInv

-----------------------------------------------------------------------------
LEMMA AuthInitHolds == AuthInit => AuthInv
<1> SUFFICES ASSUME AuthInit PROVE AuthInv
  OBVIOUS
<1>1. NoFactor \in Factors /\ NoFactor.revision = 0
  BY DEF NoFactor, Factors, Password
<1>2. DOMAIN req = Procs /\ \A p \in Procs : req[p].at = "idle"
  BY DEF AuthInit, ReqInit, NoRequest
<1>3. QED
  BY <1>1, <1>2
     DEF AuthInit, AuthInv, FactorTyped, RevisionsAreCounted, NewRevisionsAreUnknown,
         ApprovalsWereAnswered, AcceptedHaveAnswered, SpentAreRefused, CodesAreSpentOnce,
         Idle, At, Enrolled, Password, Nobody

LEMMA LoginHolds ==
    ASSUME AuthInv, NEW p \in Procs, NEW s \in Sessions, Login(p, s) PROVE AuthInv'
<1>1. CASE Enrolled
  BY <1>1 DEF Login, AuthInv, FactorTyped, RevisionsAreCounted, NewRevisionsAreUnknown,
     ApprovalsWereAnswered, AcceptedHaveAnswered, SpentAreRefused, CodesAreSpentOnce,
     Idle, At, OfRequest, CodeOf, Enrolled, Accepted
<1>2. CASE ~Enrolled
  <2> DEFINE r == [at |-> "approve", row |-> s, seen |-> Carry("answered", NoFactor, None)]
  <2>1. Moves(p, r)
    BY <1>2, MovesHolds DEF Login, Begins, AuthInv, FactorTyped
  <2>2. NoFactor \in Factors /\ NoFactor.revision = 0
    BY DEF NoFactor, Factors, Password
  <2>3. Harmless(p, r)
    BY <1>2, <2>2 DEF Harmless, Carry, AuthInv, FactorTyped, NewRevisionsAreUnknown
  <2>4. QED
    BY <1>2, <2>1, <2>3, HarmlessHolds DEF Login
<1>3. QED
  BY <1>1, <1>2

LEMMA ApproveHolds == ASSUME AuthInv, NEW p \in Procs, Approve(p) PROVE AuthInv'
<1>1. CASE req[p].seen.factor.revision = factor.revision
  <2> DEFINE r == [at |-> "upsert", row |-> req[p].row, seen |-> req[p].seen]
  <2>1. Moves(p, r)
    BY <1>1, MovesHolds DEF Approve, GoesTo, AuthInv, FactorTyped
  <2>2. Harmless(p, r)
    BY <1>1 DEF Harmless, Approve, AuthInv, FactorTyped, RevisionsAreCounted, NewRevisionsAreUnknown,
                ApprovalsWereAnswered, Idle, At, OfRequest
  <2>3. QED
    BY <1>1, <2>1, <2>2, HarmlessHolds DEF Approve
<1>2. CASE req[p].seen.factor.revision # factor.revision
  BY <1>2, EndsHolds, IdleHolds DEF Approve, AuthInv, FactorTyped
<1>3. QED
  BY <1>1, <1>2

LEMMA UpsertHolds == ASSUME AuthInv, NEW p \in Procs, Upsert(p) PROVE AuthInv'
<1> DEFINE s == req[p].row
           n == req[p].seen.factor.revision
<1> USE DEF Idle, At, OfRequest, CodeOf, NoRequest
<1>1. s \in Sessions /\ n \in Nat /\ n <= revisions
  BY DEF Upsert, AuthInv, FactorTyped, RevisionsAreCounted, Factors
<1>2. /\ approved' \in [Sessions -> Int] /\ approved'[s] = n
      /\ \A o \in Sessions : o # s => approved'[o] = approved[o]
  BY <1>1 DEF Upsert, AuthInv, FactorTyped
<1>3. Moves(p, NoRequest) /\ NoRequest.at = "idle"
  BY EndsHolds DEF Upsert, AuthInv, FactorTyped
<1>4. UNCHANGED <<factor, revisions, now, proven, spent, reused>> /\ At(p, "upsert")
  BY DEF Upsert
<1>5. FactorTyped'
  BY <1>2, <1>3, <1>4 DEF AuthInv, FactorTyped, Moves
<1>6. RevisionsAreCounted'
  BY <1>1, <1>2, <1>3, <1>4 DEF AuthInv, RevisionsAreCounted, Moves
<1>7. NewRevisionsAreUnknown'
  <2>1. \A q \in Procs : At(q, "activate") => OfRequest(q).revision # n
    BY <1>4 DEF AuthInv, NewRevisionsAreUnknown
  <2>2. QED
    BY <1>2, <1>3, <1>4, <2>1 DEF AuthInv, NewRevisionsAreUnknown, Moves
<1>8. ApprovalsWereAnswered'
  BY <1>3, <1>4 DEF AuthInv, ApprovalsWereAnswered, Enrolled, Moves
<1>9. AcceptedHaveAnswered'
  BY <1>1, <1>2, <1>4 DEF AuthInv, ApprovalsWereAnswered, AcceptedHaveAnswered, Enrolled, Accepted
<1>10. SpentAreRefused' /\ CodesAreSpentOnce'
  BY <1>4 DEF AuthInv, SpentAreRefused, CodesAreSpentOnce
<1>11. QED
  BY <1>5, <1>6, <1>7, <1>8, <1>9, <1>10 DEF AuthInv

LEMMA RevokeHolds ==
    ASSUME AuthInv, Revoke \/ \E s \in Sessions : ExpireApproval(s) PROVE AuthInv'
<1>1. /\ approved' \in [Sessions -> Int]
      /\ \A s \in Sessions : approved'[s] \in {approved[s], -1}
      /\ UNCHANGED <<factor, revisions, now, proven, spent, reused, req>>
  BY DEF Revoke, ExpireApproval, AuthInv, FactorTyped, Nobody
<1>2. factor.revision \in Nat /\ revisions \in Nat
  BY DEF AuthInv, FactorTyped, Factors
<1>3. FactorTyped' /\ SpentAreRefused' /\ CodesAreSpentOnce' /\ ApprovalsWereAnswered'
  BY <1>1 DEF AuthInv, FactorTyped, SpentAreRefused, CodesAreSpentOnce, ApprovalsWereAnswered,
              Idle, At, OfRequest, CodeOf, Enrolled
<1>4. RevisionsAreCounted'
  BY <1>1, <1>2 DEF AuthInv, RevisionsAreCounted, Idle, OfRequest
<1>5. NewRevisionsAreUnknown'
  <2>1. \A p \in Procs : At(p, "activate") => OfRequest(p).revision # -1
    BY DEF AuthInv, NewRevisionsAreUnknown
  <2>2. QED
    BY <1>1, <2>1 DEF AuthInv, NewRevisionsAreUnknown, Idle, At, OfRequest
<1>6. AcceptedHaveAnswered'
  BY <1>1, <1>2 DEF AuthInv, AcceptedHaveAnswered, Enrolled, Accepted
<1>7. QED
  BY <1>3, <1>4, <1>5, <1>6 DEF AuthInv

LEMMA VerifyHolds ==
    ASSUME AuthInv, NEW p \in Procs, NEW s \in Sessions,
           NEW why \in {"login", "disable", "regenerate"},
           NEW code \in AppCodes \cup RecoveryCodes, Verify(p, s, why, code)
    PROVE  AuthInv'
<1> DEFINE r == [at |-> "spend", row |-> s, seen |-> Carry(why, Compared(factor, code), code)]
<1>1. Moves(p, r)
  BY MovesHolds DEF Verify, Begins, AuthInv, FactorTyped
<1>2. code \in Codes
  BY DEF AppCodes, RecoveryCodes, Codes, AuthInv, FactorTyped
<1>3. /\ Compared(factor, code) \in Factors /\ Compared(factor, code).revision = factor.revision
      /\ code[1] = "recovery" => Compared(factor, code).unused = factor.unused
  BY <1>2 DEF Compared, OfRevision, NoFactor, Factors, Codes, AuthInv, FactorTyped
<1>4. Harmless(p, r)
  <2>1. code[1] = "recovery" => code[2] \in factor.unused
    BY <1>2 DEF Verify, Matches
  <2>2. QED
    BY <1>2, <1>3, <2>1
       DEF Harmless, Carry, AuthInv, FactorTyped, RevisionsAreCounted, NewRevisionsAreUnknown
<1>5. QED
  BY <1>1, <1>4, HarmlessHolds DEF Verify

LEMMA RegenerateHolds ==
    ASSUME AuthInv, NEW p \in Procs, RegenerateRecoveryCodes(p) PROVE AuthInv'
<1>1. CASE factor.revision = req[p].seen.factor.revision
  <2> DEFINE f == [factor EXCEPT !.used = -1]
             r == [at |-> "replace", row |-> req[p].row, seen |-> Carry("answered", f, None)]
  <2>1. Moves(p, r)
    BY <1>1, MovesHolds DEF RegenerateRecoveryCodes, AuthInv, FactorTyped
  <2>2. f \in Factors /\ f.revision = factor.revision
    BY DEF Factors, AuthInv, FactorTyped
  <2>3. req[p].row \in Sessions
    BY DEF RegenerateRecoveryCodes, AuthInv, FactorTyped, Idle, At
  <2>4. Harmless(p, r)
    BY <2>2, <2>3 DEF Harmless, Carry, AuthInv, RevisionsAreCounted, NewRevisionsAreUnknown
  <2>5. QED
    BY <1>1, <2>1, <2>4, HarmlessHolds DEF RegenerateRecoveryCodes
<1>2. CASE factor.revision # req[p].seen.factor.revision
  BY <1>2, EndsHolds, IdleHolds DEF RegenerateRecoveryCodes, AuthInv, FactorTyped
<1>3. QED
  BY <1>1, <1>2

(* A code that is still good has not been spent, and is refused from now on. *)
LEMMA SpendHolds ==
    ASSUME AuthInv, NEW p \in Procs, At(p, "spend"), StillGood(OfRequest(p), CodeOf(p))
    PROVE  LET t == Token(OfRequest(p), CodeOf(p))
               f == Spend(OfRequest(p), CodeOf(p)) IN
           /\ t \in Int \X Int \X Codes /\ t \notin spent /\ t[1] = factor.revision
           /\ f \in Factors /\ f.revision = factor.revision
           /\ \A u \in spent \cup {t} : u[1] = f.revision =>
                 IF u[3][1] = "app" THEN u[3][2] <= f.used
                 ELSE u[2] <= f.set /\ (u[2] = f.set => u[3][2] \notin f.unused)
<1> DEFINE seen == OfRequest(p)
           code == CodeOf(p)
           t == Token(seen, code)
           f == Spend(seen, code)
<1>1. seen \in Factors /\ code \in Codes /\ factor \in Factors
        /\ (code[1] = "recovery" => code[2] \in seen.unused)
  BY DEF AuthInv, FactorTyped, Idle, At
<1>2. CASE code[1] = "app"
  <2>1. code[2] \in Int /\ factor.used < code[2] /\ factor.revision = seen.revision
    BY <1>1, <1>2 DEF StillGood, Codes
  <2>2. t = <<seen.revision, 0, code>> /\ f = [factor EXCEPT !.used = code[2]]
    BY <1>2 DEF Token, Spend
  <2>3. t \in Int \X Int \X Codes /\ t[1] = factor.revision /\ t[3] = code
    BY <1>1, <2>1, <2>2 DEF Factors
  <2>4. f \in Factors /\ f.revision = factor.revision /\ f.used = code[2] /\ f.set = factor.set
          /\ f.unused = factor.unused
    BY <1>1, <2>1, <2>2 DEF Factors
  <2>5. t \notin spent
    BY <1>1, <1>2, <2>1, <2>3 DEF AuthInv, SpentAreRefused, Factors
  <2>6. ASSUME NEW u \in spent \cup {t}, u[1] = f.revision
        PROVE  IF u[3][1] = "app" THEN u[3][2] <= f.used
               ELSE u[2] <= f.set /\ (u[2] = f.set => u[3][2] \notin f.unused)
    <3>1. CASE u = t
      BY <1>2, <2>1, <2>3, <2>4, <3>1
    <3>2. CASE u \in spent
      <4>1. u[3][1] = "app" => u[3][2] \in Int
        BY <3>2 DEF AuthInv, FactorTyped, Codes
      <4>2. QED
        BY <1>1, <2>1, <2>4, <2>6, <3>2, <4>1 DEF AuthInv, SpentAreRefused, Factors
    <3>3. QED
      BY <3>1, <3>2
  <2>7. QED
    BY <2>3, <2>4, <2>5, <2>6
<1>3. CASE code[1] # "app"
  <2>1. code[1] = "recovery" /\ code[2] \in seen.unused /\ factor.revision = seen.revision
          /\ factor.set = seen.set /\ factor.unused = seen.unused
    BY <1>1, <1>3 DEF StillGood, Codes
  <2>2. t = <<seen.revision, seen.set, code>> /\ f = [factor EXCEPT !.unused = seen.unused \ {code[2]}]
    BY <1>3 DEF Token, Spend
  <2>3. t \in Int \X Int \X Codes /\ t[1] = factor.revision /\ t[2] = factor.set /\ t[3] = code
    BY <1>1, <2>1, <2>2 DEF Factors
  <2>4. f \in Factors /\ f.revision = factor.revision /\ f.used = factor.used /\ f.set = factor.set
          /\ f.unused = factor.unused \ {code[2]}
    BY <1>1, <2>1, <2>2 DEF Factors
  <2>5. t \notin spent
    BY <1>3, <2>1, <2>3 DEF AuthInv, SpentAreRefused
  <2>6. ASSUME NEW u \in spent \cup {t}, u[1] = f.revision
        PROVE  IF u[3][1] = "app" THEN u[3][2] <= f.used
               ELSE u[2] <= f.set /\ (u[2] = f.set => u[3][2] \notin f.unused)
    <3>1. CASE u = t
      BY <1>1, <1>3, <2>1, <2>3, <2>4, <3>1 DEF Factors
    <3>2. CASE u \in spent
      BY <2>4, <2>6, <3>2 DEF AuthInv, SpentAreRefused
    <3>3. QED
      BY <3>1, <3>2
  <2>7. QED
    BY <2>3, <2>4, <2>5, <2>6
<1>4. QED
  BY <1>2, <1>3

(* What SpendCode leaves of the request: nothing, or one that has answered *)
(* with a code of the enrolment it compared.                               *)
LEMMA AnsweredHolds ==
    ASSUME AuthInv, NEW p \in Procs, At(p, "spend"),
           NEW at \in {"approve", "disable", "regenerate"}, Answered(p, at)
    PROVE  /\ DOMAIN req' = Procs
           /\ \A q \in Procs : q # p => req'[q] = req[q]
           /\ req'[p].at = at /\ req'[p].row = req[p].row
           /\ req'[p].seen.factor \in Factors
           /\ req'[p].seen.factor.revision = OfRequest(p).revision
<1>1. OfRevision(OfRequest(p)) \in Factors
        /\ OfRevision(OfRequest(p)).revision = OfRequest(p).revision
  BY DEF OfRevision, NoFactor, Factors, AuthInv, FactorTyped, Idle, At
<1>2. Moves(p, [at |-> at, row |-> req[p].row,
                seen |-> Carry("answered", OfRevision(OfRequest(p)), None)])
  BY MovesHolds DEF Answered, OfRequest, AuthInv, FactorTyped
<1>3. QED
  BY <1>1, <1>2 DEF Moves, Carry

LEMMA SpendCodeHolds == ASSUME AuthInv, NEW p \in Procs, SpendCode(p) PROVE AuthInv'
<1>0. req[p].seen.why \in {"login", "disable", "regenerate"}
  BY DEF SpendCode, AuthInv, FactorTyped
<1>1. CASE ~StillGood(OfRequest(p), CodeOf(p))
  BY <1>1, EndsHolds, IdleHolds DEF SpendCode, OfRequest, CodeOf, AuthInv, FactorTyped
<1>2. CASE StillGood(OfRequest(p), CodeOf(p))
  <2> DEFINE n == OfRequest(p).revision
             s == req[p].row
             t == Token(OfRequest(p), CodeOf(p))
             f == Spend(OfRequest(p), CodeOf(p))
  <2>1. /\ factor' = f /\ spent' = spent \cup {t} /\ reused' = reused \cup ({t} \cap spent)
        /\ UNCHANGED <<revisions, approved, now>> /\ At(p, "spend")
    BY <1>2 DEF SpendCode, OfRequest, CodeOf
  <2>2. n = factor.revision /\ s \in Sessions
    BY <1>2, <2>1 DEF StillGood, AuthInv, FactorTyped, Idle, At
  <2>3. /\ t \in Int \X Int \X Codes /\ t \notin spent /\ t[1] = factor.revision
        /\ f \in Factors /\ f.revision = factor.revision
    BY <1>2, <2>1, SpendHolds
  <2>4. SpentAreRefused'
    BY <1>2, <2>1, SpendHolds DEF SpentAreRefused
  <2> HIDE DEF t, f
  <2>5. CodesAreSpentOnce'
    BY <2>1, <2>3 DEF AuthInv, CodesAreSpentOnce
  <2>6. /\ DOMAIN req' = Procs
        /\ \A q \in Procs : q # p => req'[q] = req[q]
        /\ \/ req'[p].at = "idle"
           \/ /\ req'[p].at \in {"approve", "disable", "regenerate"}
              /\ req'[p].row = s
              /\ OfRequest(p)' \in Factors /\ OfRequest(p)'.revision = n
    <3>1. CASE Ends(p)
      BY <3>1, EndsHolds DEF Moves, AuthInv, FactorTyped
    <3>2. CASE \E at \in {"approve", "disable", "regenerate"} : Answered(p, at)
      BY <2>1, <3>2, AnsweredHolds DEF OfRequest
    <3>3. Ends(p) \/ \E at \in {"approve", "disable", "regenerate"} : Answered(p, at)
      BY <1>0, <1>2 DEF SpendCode, OfRequest, CodeOf
    <3>4. QED
      BY <3>1, <3>2, <3>3
  <2>7. /\ proven \subseteq proven'
        /\ At(p, "approve")' => <<s, n>> \in proven'
    <3>1. CASE req[p].seen.why = "login"
      BY <1>2, <3>1 DEF SpendCode, OfRequest, CodeOf
    <3>2. CASE req[p].seen.why # "login"
      <4>1. Answered(p, req[p].seen.why) /\ proven' = proven
        BY <1>2, <3>2 DEF SpendCode, OfRequest, CodeOf
      <4>2. req'[p].at = req[p].seen.why
        BY <1>0, <2>1, <4>1, AnsweredHolds, <3>2
      <4>3. QED
        BY <1>0, <3>2, <4>1, <4>2 DEF At
    <3>3. QED
      BY <3>1, <3>2
  <2>8. FactorTyped'
    <3>1. \A u \in spent' : u \in Int \X Int \X Codes
      BY <2>1, <2>3 DEF AuthInv, FactorTyped
    <3>2. \A q \in Procs : ~Idle(q)' => req'[q].row \in Sessions /\ OfRequest(q)' \in Factors
      BY <2>2, <2>6 DEF AuthInv, FactorTyped, Idle, OfRequest
    <3>3. \A q \in Procs : At(q, "spend")' =>
             /\ req'[q].seen.why \in {"login", "disable", "regenerate"}
             /\ CodeOf(q)' \in Codes
             /\ CodeOf(q)'[1] = "recovery" => CodeOf(q)'[2] \in OfRequest(q)'.unused
      BY <2>6 DEF AuthInv, FactorTyped, At, OfRequest, CodeOf
    <3>4. QED
      BY <2>1, <2>3, <2>6, <3>1, <3>2, <3>3 DEF AuthInv, FactorTyped
  <2>9. RevisionsAreCounted'
    BY <2>1, <2>2, <2>3, <2>6 DEF AuthInv, RevisionsAreCounted, Idle, OfRequest
  <2>10. NewRevisionsAreUnknown'
    <3>1. \A q \in Procs : At(q, "activate")' => q # p /\ req'[q] = req[q] /\ At(q, "activate")
      BY <2>6 DEF At
    <3>2. \A q \in Procs : At(q, "activate") => OfRequest(q).revision # n
      BY <2>1, <2>2 DEF AuthInv, NewRevisionsAreUnknown
    <3>3. ASSUME NEW q \in Procs, At(q, "activate")', NEW w \in Procs \ {q}, ~Idle(w)'
          PROVE  OfRequest(w)'.revision # OfRequest(q)'.revision
      BY <2>6, <3>1, <3>2, <3>3 DEF AuthInv, NewRevisionsAreUnknown, Idle, OfRequest
    <3>4. QED
      BY <2>1, <2>2, <2>3, <3>1, <3>2, <3>3 DEF AuthInv, NewRevisionsAreUnknown, OfRequest
  <2>11. ApprovalsWereAnswered'
    BY <2>1, <2>2, <2>3, <2>6, <2>7 DEF AuthInv, ApprovalsWereAnswered, Enrolled, At, OfRequest
  <2>12. AcceptedHaveAnswered'
    BY <2>1, <2>3, <2>7 DEF AuthInv, AcceptedHaveAnswered, Enrolled, Accepted
  <2>13. QED
    BY <2>4, <2>5, <2>8, <2>9, <2>10, <2>11, <2>12 DEF AuthInv
<1>3. QED
  BY <1>1, <1>2

LEMMA DisableHolds == ASSUME AuthInv, NEW p \in Procs, Disable(p) PROVE AuthInv'
<1>1. CASE factor.revision # req[p].seen.factor.revision
  BY <1>1, EndsHolds, IdleHolds DEF Disable, AuthInv, FactorTyped
<1>2. CASE factor.revision = req[p].seen.factor.revision
  <2>1. /\ factor' = NoFactor /\ NoFactor \in Factors /\ NoFactor.revision = 0
        /\ approved' = [s \in Sessions |-> -1] /\ proven' = {} /\ spent' = {}
        /\ UNCHANGED <<revisions, now, reused>>
    BY <1>2 DEF Disable, NoFactor, Factors, Password, Nobody
  <2>2. Moves(p, NoRequest) /\ NoRequest.at = "idle"
    BY EndsHolds DEF Disable, AuthInv, FactorTyped
  <2>3. FactorTyped'
    BY <2>1, <2>2 DEF AuthInv, FactorTyped, Moves, Idle, At, OfRequest, CodeOf
  <2>4. RevisionsAreCounted'
    BY <2>1, <2>2 DEF AuthInv, FactorTyped, RevisionsAreCounted, Moves, Idle, OfRequest
  <2>5. NewRevisionsAreUnknown'
    BY <2>1, <2>2 DEF AuthInv, FactorTyped, NewRevisionsAreUnknown, Moves, Idle, At, OfRequest
  <2>6. ApprovalsWereAnswered' /\ AcceptedHaveAnswered' /\ SpentAreRefused' /\ CodesAreSpentOnce'
    BY <2>1 DEF AuthInv, ApprovalsWereAnswered, AcceptedHaveAnswered, SpentAreRefused,
       CodesAreSpentOnce, Enrolled, Password
  <2>7. QED
    BY <2>3, <2>4, <2>5, <2>6 DEF AuthInv
<1>3. QED
  BY <1>1, <1>2

LEMMA ReplaceHolds == ASSUME AuthInv, NEW p \in Procs, ReplaceRecoveryCodes(p) PROVE AuthInv'
<1>1. Moves(p, NoRequest) /\ NoRequest.at = "idle"
  BY EndsHolds DEF ReplaceRecoveryCodes, AuthInv, FactorTyped
<1>2. CASE factor' = factor
  BY <1>1, <1>2, IdleHolds DEF ReplaceRecoveryCodes
<1>3. CASE factor' # factor
  <2>1. /\ factor' = [revision |-> factor.revision, used |-> factor.used,
                      set |-> factor.set + 1, unused |-> Recovery]
        /\ UNCHANGED <<revisions, approved, now, proven, spent, reused>>
    BY <1>3 DEF ReplaceRecoveryCodes
  <2>2. /\ factor \in Factors /\ factor' \in Factors /\ factor'.revision = factor.revision
        /\ factor'.used = factor.used /\ factor'.set = factor.set + 1
    BY <2>1 DEF AuthInv, FactorTyped, Factors
  <2>3. FactorTyped'
    BY <1>1, <2>1, <2>2 DEF AuthInv, FactorTyped, Moves, Idle, At, OfRequest, CodeOf
  <2>4. RevisionsAreCounted' /\ NewRevisionsAreUnknown'
    BY <1>1, <2>1, <2>2 DEF AuthInv, RevisionsAreCounted, NewRevisionsAreUnknown, Moves,
       Idle, At, OfRequest
  <2>5. ApprovalsWereAnswered' /\ AcceptedHaveAnswered' /\ CodesAreSpentOnce'
    BY <1>1, <2>1, <2>2 DEF AuthInv, ApprovalsWereAnswered, AcceptedHaveAnswered,
       CodesAreSpentOnce, Moves, Enrolled, Accepted, At, OfRequest
  <2>6. SpentAreRefused'
    <3> SUFFICES ASSUME NEW t \in spent, t[1] = factor.revision
                 PROVE  IF t[3][1] = "app" THEN t[3][2] <= factor'.used
                        ELSE t[2] <= factor'.set
                              /\ (t[2] = factor'.set => t[3][2] \notin factor'.unused)
      BY <2>1, <2>2 DEF SpentAreRefused
    <3>1. t[2] \in Int
      BY DEF AuthInv, FactorTyped
    <3>2. QED
      BY <2>2, <3>1 DEF AuthInv, SpentAreRefused, Factors
  <2>7. QED
    BY <2>3, <2>4, <2>5, <2>6 DEF AuthInv
<1>4. QED
  BY <1>2, <1>3

LEMMA SetupHolds ==
    ASSUME AuthInv, NEW p \in Procs, NEW s \in Sessions, Setup(p, s) PROVE AuthInv'
<1> DEFINE n == revisions + 1
           f == [revision |-> n, used |-> now, set |-> 1, unused |-> Recovery]
           r == [at |-> "activate", row |-> s, seen |-> Carry("activate", f, None)]
<1>1. revisions' = n /\ UNCHANGED <<factor, approved, now, proven, spent, reused>> /\ Idle(p)
  BY DEF Setup, Begins
<1>2. Moves(p, r)
  BY <1>1, MovesHolds DEF Setup, Begins, AuthInv, FactorTyped
<1>3. f \in Factors /\ f.revision = n /\ n \in Nat /\ n > revisions /\ n > 0
  BY DEF AuthInv, FactorTyped, Factors
<1>4. /\ DOMAIN req' = Procs
      /\ \A q \in Procs : q # p => req'[q] = req[q]
      /\ req'[p].at = "activate" /\ req'[p].row = s /\ OfRequest(p)' = f
  BY <1>2 DEF Moves, OfRequest, Carry
<1> HIDE DEF f
<1>5. FactorTyped'
  BY <1>1, <1>3, <1>4 DEF AuthInv, FactorTyped, Idle, At, OfRequest, CodeOf
<1>6. /\ factor.revision \in Nat /\ factor.revision < n
      /\ \A o \in Sessions : approved[o] \in Int /\ approved[o] < n
      /\ \A q \in Procs : ~Idle(q) => OfRequest(q).revision \in Nat /\ OfRequest(q).revision < n
      /\ \A t \in spent : t[1] \in Int /\ t[1] < n
  BY DEF AuthInv, FactorTyped, RevisionsAreCounted, Factors
<1>7. RevisionsAreCounted'
  BY <1>1, <1>3, <1>4, <1>6 DEF RevisionsAreCounted, Idle, OfRequest
<1>8. NewRevisionsAreUnknown'
  <2> SUFFICES ASSUME NEW q \in Procs, At(q, "activate")'
               PROVE  /\ OfRequest(q)'.revision > 0
                      /\ OfRequest(q)'.revision # factor.revision
                      /\ \A o \in Sessions : approved[o] # OfRequest(q)'.revision
                      /\ \A w \in Procs \ {q} :
                            ~Idle(w)' => OfRequest(w)'.revision # OfRequest(q)'.revision
                      /\ \A t \in spent : t[1] # OfRequest(q)'.revision
    BY <1>1 DEF NewRevisionsAreUnknown
  <2>1. CASE q = p
    BY <1>3, <1>4, <1>6, <2>1 DEF Idle, OfRequest
  <2>2. CASE q # p
    <3>1. req'[q] = req[q] /\ At(q, "activate") /\ ~Idle(q)
      BY <1>4, <2>2 DEF At, Idle
    <3>2. OfRequest(q)'.revision # n
      BY <1>6, <3>1 DEF OfRequest
    <3>3. QED
      BY <1>3, <1>4, <3>1, <3>2 DEF AuthInv, NewRevisionsAreUnknown, Idle, OfRequest
  <2>3. QED
    BY <2>1, <2>2
<1>9. ApprovalsWereAnswered' /\ AcceptedHaveAnswered' /\ SpentAreRefused' /\ CodesAreSpentOnce'
  BY <1>1, <1>4 DEF AuthInv, ApprovalsWereAnswered, AcceptedHaveAnswered, SpentAreRefused,
     CodesAreSpentOnce, Enrolled, Accepted, At, OfRequest
<1>10. QED
  BY <1>5, <1>7, <1>8, <1>9 DEF AuthInv

LEMMA ActivateHolds == ASSUME AuthInv, NEW p \in Procs, Activate(p) PROVE AuthInv'
<1>1. CASE Enrolled
  BY <1>1, EndsHolds, IdleHolds DEF Activate, AuthInv, FactorTyped
<1>2. CASE ~Enrolled
  <2> DEFINE f == OfRequest(p)
             s == req[p].row
  <2>1. /\ factor' = f
        /\ approved' = [o \in Sessions |-> IF o = s THEN f.revision ELSE -1]
        /\ proven' = proven \cup {<<s, f.revision>>}
        /\ UNCHANGED <<revisions, now, spent, reused>>
        /\ At(p, "activate")
    BY <1>2 DEF Activate, OfRequest, Nobody
  <2>2. f \in Factors /\ f.revision \in Nat /\ f.revision > 0 /\ f.revision <= revisions
          /\ s \in Sessions
    BY <2>1 DEF AuthInv, FactorTyped, RevisionsAreCounted, NewRevisionsAreUnknown, Idle, At, Factors
  <2>3. \A q \in Procs : q # p /\ ~Idle(q) => OfRequest(q).revision # f.revision
    BY <2>1 DEF AuthInv, NewRevisionsAreUnknown
  <2>4. \A t \in spent : t[1] # f.revision
    BY <2>1 DEF AuthInv, NewRevisionsAreUnknown
  <2>5. Moves(p, NoRequest) /\ NoRequest.at = "idle"
    BY EndsHolds DEF Activate, AuthInv, FactorTyped
  <2>6. req'[p].at = "idle" /\ DOMAIN req' = Procs /\ \A q \in Procs : q # p => req'[q] = req[q]
    BY <2>5 DEF Moves
  <2> HIDE DEF f
  <2>7. FactorTyped'
    BY <2>1, <2>2, <2>6 DEF AuthInv, FactorTyped, Idle, At, OfRequest, CodeOf
  <2>8. RevisionsAreCounted'
    BY <2>1, <2>2, <2>6 DEF AuthInv, FactorTyped, RevisionsAreCounted, Idle, OfRequest
  <2>9. NewRevisionsAreUnknown'
    <3>1. \A q \in Procs : ~Idle(q)' => q # p /\ ~Idle(q) /\ req'[q] = req[q]
      BY <2>6 DEF Idle
    <3>2. \A q \in Procs : At(q, "activate")' =>
             At(q, "activate") /\ q # p /\ ~Idle(q) /\ OfRequest(q)' = OfRequest(q)
      BY <2>6 DEF At, Idle, OfRequest
    <3>3. QED
      BY <2>1, <2>3, <3>1, <3>2 DEF AuthInv, NewRevisionsAreUnknown, OfRequest
  <2>10. ApprovalsWereAnswered'
    BY <2>1, <2>3, <2>6 DEF ApprovalsWereAnswered, Idle, At, OfRequest
  <2>11. AcceptedHaveAnswered'
    BY <2>1, <2>2 DEF AcceptedHaveAnswered, Accepted
  <2>12. SpentAreRefused' /\ CodesAreSpentOnce'
    BY <2>1, <2>4 DEF AuthInv, SpentAreRefused, CodesAreSpentOnce
  <2>13. QED
    BY <2>7, <2>8, <2>9, <2>10, <2>11, <2>12 DEF AuthInv
<1>3. QED
  BY <1>1, <1>2

LEMMA NextStepHolds == ASSUME AuthInv, NextStep PROVE AuthInv'
BY DEF NextStep, AuthInv, FactorTyped, RevisionsAreCounted, NewRevisionsAreUnknown,
   ApprovalsWereAnswered, AcceptedHaveAnswered, SpentAreRefused, CodesAreSpentOnce,
   Idle, At, OfRequest, CodeOf, Enrolled, Accepted

LEMMA AuthStepHolds == AuthInv /\ [AuthNext]_authVars => AuthInv'
<1> SUFFICES ASSUME AuthInv, [AuthNext]_authVars PROVE AuthInv'
  OBVIOUS
<1>1. ASSUME NEW p \in Procs, AuthDies(p) PROVE AuthInv'
  BY <1>1, EndsHolds, IdleHolds DEF AuthDies, Dies, AuthInv, FactorTyped
<1>2. CASE UNCHANGED authVars
  BY <1>2 DEF authVars, AuthInv, FactorTyped, RevisionsAreCounted, NewRevisionsAreUnknown,
     ApprovalsWereAnswered, AcceptedHaveAnswered, SpentAreRefused, CodesAreSpentOnce,
     Idle, At, OfRequest, CodeOf, Enrolled, Accepted
<1>3. QED
  BY <1>1, <1>2, LoginHolds, ApproveHolds, UpsertHolds, RevokeHolds, VerifyHolds, SpendCodeHolds,
     DisableHolds, RegenerateHolds, ReplaceHolds, SetupHolds, ActivateHolds, NextStepHolds
     DEF AuthNext

(* No code opens twice, and while a second factor is enrolled only those   *)
(* are let in who answered with a code of it: AuthenticatorService.        *)
THEOREM FactorAlwaysHolds == AuthSpec => []FactorHolds
<1>1. AuthInv => FactorHolds
  BY DEF AuthInv, FactorHolds
<1>2. QED
  BY <1>1, AuthInitHolds, AuthStepHolds, PTL DEF AuthSpec

-----------------------------------------------------------------------------
(* The types of the second factor *)

FactorFits(f) ==
    /\ f.used \in -1..(LastStep + 1) /\ f.set \in 0..MaxSet
    /\ f.revision # Password <=> f.set > 0
RequestFits(r) ==
    /\ r.at \in {"spend", "disable", "regenerate", "replace"} => r.seen.factor.revision # Password
    /\ r.at = "activate" => FactorFits(r.seen.factor)
    /\ r.at = "spend" => (r.seen.code[1] = "app" => r.seen.code[2] \in -1..(LastStep + 1))
StateFits ==
    /\ FactorFits(factor)
    /\ revisions <= MaxRevision /\ now \in 1..LastStep
    /\ challenge \in [Sessions -> Nobody..MaxRevision]
    /\ approved \in [Sessions -> Nobody..MaxRevision]
AuthFits == StateFits /\ \A p \in Procs : RequestFits(req[p])

LEMMA AuthInvSuffices == AuthInv /\ AuthFits => AuthTypeOK
BY AuthenticatorAssumption DEF AuthInv, AuthFits, StateFits, AuthTypeOK, FactorTyped, RevisionsAreCounted,
   FactorFits, Factors, Enrolled

LEMMA AuthFitsAtFirst == AuthInit => AuthFits
<1> SUFFICES ASSUME AuthInit PROVE AuthFits
  OBVIOUS
<1>1. FactorFits(factor)
  BY AuthenticatorAssumption DEF AuthInit, FactorFits, NoFactor, Password
<1>2. \A p \in Procs : req[p].at = "idle"
  BY DEF AuthInit, ReqInit, NoRequest
<1>3. StateFits
  BY <1>1, AuthenticatorAssumption DEF AuthInit, StateFits, Nobody
<1>4. QED
  BY <1>2, <1>3 DEF AuthFits, RequestFits

(* One request has moved, the others are as they were. *)
LEMMA OneFits ==
    ASSUME AuthFits, StateFits', NEW p \in Procs, NEW r, RequestFits(r), Moves(p, r)
    PROVE  AuthFits'
BY DEF AuthFits, Moves, RequestFits

LEMMA EndFits ==
    ASSUME AuthInv, AuthFits, StateFits', NEW p \in Procs, Ends(p) PROVE AuthFits'
<1>1. Moves(p, NoRequest) /\ NoRequest.at = "idle"
  BY EndsHolds DEF AuthInv, FactorTyped
<1>2. RequestFits(NoRequest)
  BY <1>1 DEF RequestFits
<1>3. QED
  BY <1>1, <1>2, OneFits

LEMMA GoFits ==
    ASSUME AuthInv, AuthFits, StateFits', NEW p \in Procs, NEW at \in {"approve", "upsert"},
           NEW row, NEW seen, req' = [req EXCEPT ![p] = [at |-> at, row |-> row, seen |-> seen]]
    PROVE  AuthFits'
<1> DEFINE r == [at |-> at, row |-> row, seen |-> seen]
<1>1. Moves(p, r)
  BY MovesHolds DEF AuthInv, FactorTyped
<1>2. RequestFits(r)
  BY DEF RequestFits
<1>3. QED
  BY <1>1, <1>2, OneFits

LEMMA SignInFits ==
    ASSUME AuthInv, AuthFits, NEW p \in Procs,
           Approve(p) \/ Upsert(p) \/ \E s \in Sessions : Login(p, s)
    PROVE  AuthFits'
<1>1. factor.revision \in Nat /\ factor.revision <= revisions /\ revisions <= MaxRevision
        /\ revisions \in Nat
  BY DEF AuthInv, FactorTyped, RevisionsAreCounted, Factors, AuthFits, StateFits
<1>2. CASE Approve(p)
  <2>1. StateFits'
    BY <1>2 DEF Approve, AuthFits, StateFits, FactorFits
  <2>2. QED
    BY <1>2, <2>1, EndFits, GoFits DEF Approve, GoesTo
<1>3. CASE Upsert(p)
  <2>1. req[p].row \in Sessions /\ req[p].seen.factor.revision \in Nobody..MaxRevision
    BY <1>1, <1>3, AuthenticatorAssumption DEF Upsert, AuthInv, FactorTyped, RevisionsAreCounted, Factors, Idle, At,
       OfRequest, Nobody
  <2>2. Nobody \in Nobody..MaxRevision
    BY AuthenticatorAssumption DEF Nobody
  <2>3. StateFits'
    BY <1>3, <2>1, <2>2 DEF Upsert, AuthFits, StateFits, FactorFits
  <2>4. QED
    BY <1>3, <2>3, EndFits DEF Upsert
<1>4. ASSUME NEW s \in Sessions, Login(p, s) PROVE AuthFits'
  <2>1. factor.revision \in Nobody..MaxRevision
    BY <1>1, AuthenticatorAssumption DEF Nobody
  <2>2. StateFits'
    BY <1>4, <2>1 DEF Login, AuthFits, StateFits, FactorFits
  <2>3. CASE Enrolled
    BY <1>4, <2>2, <2>3 DEF Login, AuthFits
  <2>4. CASE ~Enrolled
    BY <1>4, <2>2, <2>4, GoFits DEF Login, Begins
  <2>5. QED
    BY <2>3, <2>4
<1>5. QED
  BY <1>2, <1>3, <1>4

LEMMA ServerFits ==
    ASSUME AuthInv, AuthFits, Revoke \/ NextStep \/ \E s \in Sessions : ExpireApproval(s)
    PROVE  AuthFits'
<1>1. Nobody \in Nobody..MaxRevision
  BY AuthenticatorAssumption DEF Nobody
<1>2. StateFits'
  BY <1>1, AuthenticatorAssumption DEF Revoke, NextStep, ExpireApproval, AuthFits, StateFits, FactorFits
<1>3. UNCHANGED req
  BY DEF Revoke, NextStep, ExpireApproval
<1>4. QED
  BY <1>2, <1>3 DEF AuthFits, RequestFits, FactorFits

LEMMA VerifyFits ==
    ASSUME AuthInv, AuthFits, NEW p \in Procs, NEW s \in Sessions, NEW why,
           NEW code \in AppCodes \cup RecoveryCodes, Verify(p, s, why, code)
    PROVE  AuthFits'
<1> DEFINE r == [at |-> "spend", row |-> s, seen |-> Carry(why, Compared(factor, code), code)]
<1>1. Moves(p, r)
  BY MovesHolds DEF Verify, Begins, AuthInv, FactorTyped
<1>2. Compared(factor, code).revision = factor.revision
  BY DEF Compared, OfRevision, NoFactor, Factors, AuthInv, FactorTyped
<1>3. code[1] = "app" => code[2] \in -1..(LastStep + 1)
  BY AuthenticatorAssumption DEF AppCodes, RecoveryCodes, AuthFits, StateFits
<1>4. RequestFits(r)
  BY <1>2, <1>3 DEF RequestFits, Carry, Verify, Enrolled
<1>5. StateFits'
  BY DEF Verify, AuthFits, StateFits, FactorFits
<1>6. QED
  BY <1>1, <1>4, <1>5, OneFits

LEMMA SpendFits == ASSUME AuthInv, AuthFits, NEW p \in Procs, SpendCode(p) PROVE AuthFits'
<1> DEFINE seen == req[p].seen.factor
           code == req[p].seen.code
<1>1. At(p, "spend") /\ seen \in Factors /\ code \in Codes /\ seen.revision # Password
        /\ (code[1] = "app" => code[2] \in -1..(LastStep + 1))
        /\ req[p].seen.why \in {"login", "disable", "regenerate"}
  BY DEF SpendCode, AuthInv, FactorTyped, AuthFits, RequestFits, Idle, At, OfRequest, CodeOf
<1>2. FactorFits(Spend(seen, code))
  BY <1>1 DEF Spend, FactorFits, AuthFits, StateFits, AuthInv, FactorTyped, Factors
<1>3. StateFits'
  BY <1>2 DEF SpendCode, AuthFits, StateFits, FactorFits
<1>4. ASSUME NEW at \in {"approve", "disable", "regenerate"}, Answered(p, at) PROVE AuthFits'
  <2> DEFINE r == [at |-> at, row |-> req[p].row, seen |-> Carry("answered", OfRevision(seen), None)]
  <2>1. Moves(p, r)
    BY <1>4, MovesHolds DEF Answered, AuthInv, FactorTyped
  <2>2. OfRevision(seen).revision # Password
    BY <1>1 DEF OfRevision, NoFactor
  <2>3. RequestFits(r)
    BY <2>2 DEF RequestFits, Carry
  <2>4. QED
    BY <1>3, <2>1, <2>3, OneFits
<1>5. Ends(p) \/ \E at \in {"approve", "disable", "regenerate"} : Answered(p, at)
  <2>1. CASE ~StillGood(seen, code)
    BY <2>1 DEF SpendCode
  <2>2. CASE StillGood(seen, code) /\ req[p].seen.why # "login"
    <3>1. Answered(p, req[p].seen.why)
      BY <2>2 DEF SpendCode
    <3>2. req[p].seen.why \in {"approve", "disable", "regenerate"}
      BY <1>1, <2>2
    <3>3. QED
      BY <3>1, <3>2
  <2>3. CASE StillGood(seen, code) /\ req[p].seen.why = "login"
    BY <2>3 DEF SpendCode
  <2>4. QED
    BY <2>1, <2>2, <2>3
<1>6. QED
  BY <1>3, <1>4, <1>5, EndFits

LEMMA DisableFits == ASSUME AuthInv, AuthFits, NEW p \in Procs, Disable(p) PROVE AuthFits'
<1>1. FactorFits(NoFactor)
  BY AuthenticatorAssumption DEF FactorFits, NoFactor, Password
<1>2. Nobody \in Nobody..MaxRevision
  BY AuthenticatorAssumption DEF Nobody
<1>3. StateFits'
  <2>1. factor' = factor \/ factor' = NoFactor
    BY DEF Disable
  <2>2. FactorFits(factor')
    BY <1>1, <2>1 DEF AuthFits, StateFits
  <2>3. QED
    BY <1>2, <2>2 DEF Disable, AuthFits, StateFits, FactorFits
<1>4. QED
  BY <1>3, EndFits DEF Disable

LEMMA RegenerateFits ==
    ASSUME AuthInv, AuthFits, NEW p \in Procs, RegenerateRecoveryCodes(p) PROVE AuthFits'
<1>1. StateFits'
  BY DEF RegenerateRecoveryCodes, AuthFits, StateFits, FactorFits
<1>2. CASE factor.revision = req[p].seen.factor.revision
  <2> DEFINE f == [factor EXCEPT !.used = -1]
             r == [at |-> "replace", row |-> req[p].row, seen |-> Carry("answered", f, None)]
  <2>1. Moves(p, r)
    BY <1>2, MovesHolds DEF RegenerateRecoveryCodes, AuthInv, FactorTyped
  <2>2. f.revision = factor.revision
    BY DEF Factors, AuthInv, FactorTyped
  <2>3. RequestFits(r)
    BY <1>2, <2>2 DEF RequestFits, Carry, RegenerateRecoveryCodes, AuthFits, At
  <2>4. QED
    BY <1>1, <2>1, <2>3, OneFits
<1>3. QED
  BY <1>1, <1>2, EndFits DEF RegenerateRecoveryCodes

LEMMA ReplaceFits ==
    ASSUME AuthInv, AuthFits, NEW p \in Procs, ReplaceRecoveryCodes(p) PROVE AuthFits'
<1> DEFINE seen == req[p].seen.factor
           new == [revision |-> factor.revision, used |-> factor.used, set |-> factor.set + 1,
                   unused |-> Recovery]
<1>1. At(p, "replace") /\ seen.revision # Password /\ seen.set < MaxSet /\ Ends(p)
        /\ factor.set \in 0..MaxSet /\ MaxSet \in Nat
  BY AuthenticatorAssumption DEF ReplaceRecoveryCodes, AuthFits, StateFits, FactorFits, RequestFits, At
<1>2. \/ factor' = factor
      \/ factor' = new /\ factor.revision = seen.revision /\ factor.set = seen.set
  BY DEF ReplaceRecoveryCodes
<1>3. ASSUME factor.revision = seen.revision, factor.set = seen.set PROVE FactorFits(new)
  <2>1. /\ new.revision = factor.revision /\ new.used = factor.used /\ new.set = factor.set + 1
        /\ factor.used \in -1..(LastStep + 1)
    BY DEF AuthFits, StateFits, FactorFits
  <2>2. QED
    BY <1>1, <1>3, <2>1 DEF FactorFits
<1>4. FactorFits(factor')
  BY <1>2, <1>3 DEF AuthFits, StateFits
<1>5. StateFits'
  BY <1>4 DEF ReplaceRecoveryCodes, AuthFits, StateFits, FactorFits
<1>6. QED
  BY <1>1, <1>5, EndFits

LEMMA EnrolmentFits ==
    ASSUME AuthInv, AuthFits, NEW p \in Procs, Activate(p) \/ \E s \in Sessions : Setup(p, s)
    PROVE  AuthFits'
<1>1. CASE Activate(p)
  <2> DEFINE new == req[p].seen.factor
  <2>1. /\ At(p, "activate") /\ FactorFits(new)
        /\ new.revision \in Nobody..MaxRevision /\ Nobody \in Nobody..MaxRevision
    BY <1>1, AuthenticatorAssumption DEF Activate, AuthFits, StateFits, RequestFits, AuthInv, FactorTyped,
       RevisionsAreCounted, Factors, Idle, At, OfRequest, Nobody
  <2>2. FactorFits(factor')
    BY <1>1, <2>1 DEF Activate, AuthFits, StateFits
  <2>3. approved' \in [Sessions -> Nobody..MaxRevision]
    BY <1>1, <2>1 DEF Activate, AuthFits, StateFits
  <2>4. StateFits'
    BY <1>1, <2>2, <2>3 DEF Activate, AuthFits, StateFits, FactorFits
  <2>5. QED
    BY <1>1, <2>4, EndFits DEF Activate
<1>2. ASSUME NEW s \in Sessions, Setup(p, s) PROVE AuthFits'
  <2> DEFINE f == [revision |-> revisions + 1, used |-> now, set |-> 1, unused |-> Recovery]
             r == [at |-> "activate", row |-> s, seen |-> Carry("activate", f, None)]
  <2>1. Moves(p, r) /\ revisions' = revisions + 1
    BY <1>2, MovesHolds DEF Setup, Begins, AuthInv, FactorTyped
  <2>2. FactorFits(f)
    BY AuthenticatorAssumption DEF FactorFits, AuthFits, StateFits, AuthInv, FactorTyped, Password
  <2>3. RequestFits(r)
    BY <2>2 DEF RequestFits, Carry
  <2>4. StateFits'
    BY <1>2, <2>1, AuthenticatorAssumption
       DEF Setup, AuthFits, StateFits, FactorFits, AuthInv, FactorTyped
  <2>5. QED
    BY <2>1, <2>3, <2>4, OneFits
<1>3. QED
  BY <1>1, <1>2

LEMMA AuthFitsNext == AuthInv /\ AuthFits /\ [AuthNext]_authVars => AuthFits'
<1> SUFFICES ASSUME AuthInv, AuthFits, [AuthNext]_authVars PROVE AuthFits'
  OBVIOUS
<1>1. CASE UNCHANGED authVars
  BY <1>1 DEF authVars, AuthFits, StateFits, FactorFits, RequestFits
<1>2. ASSUME NEW p \in Procs, AuthDies(p) PROVE AuthFits'
  <2>1. StateFits'
    BY <1>2 DEF AuthDies, AuthFits, StateFits, FactorFits
  <2>2. QED
    BY <1>2, <2>1, EndFits DEF AuthDies, Dies
<1>3. QED
  BY <1>1, <1>2, SignInFits, ServerFits, VerifyFits, SpendFits, DisableFits, RegenerateFits,
     ReplaceFits, EnrolmentFits DEF AuthNext

-----------------------------------------------------------------------------
(* The cache of answers *)

Answers == [version : Versions, content : Absent..MaxWrites]
Reader == [at : {"idle", "load", "store", "bump"}, row : {None}, seen : Answers \cup {None}]

(* Types, as far as the argument needs them. *)
CacheTyped ==
    /\ content \in 0..MaxWrites
    /\ issued \in 0..MaxWrites
    /\ version \in 0..issued
    /\ answered \in 0..content
    /\ entry \in [Versions -> Absent..MaxWrites]
    /\ req \in [Procs -> Reader]
    /\ \A p \in Procs : ~Idle(p) => req[p].seen \in Answers

(* Nothing is stored, or about to be, under a version not yet issued. *)
NewVersionsAreEmpty ==
    /\ \A v \in Versions : v > issued => entry[v] = Absent
    /\ \A p \in Procs : At(p, "load") \/ At(p, "store") => req[p].seen.version <= issued

(* What is about to be stored under the current version is recent enough. *)
LateStoresAreRecent ==
    \A p \in Procs :
        At(p, "store") /\ req[p].seen.version = version => req[p].seen.content >= answered

(* A write is in the database when its version is set. *)
WritesAreStored == \A p \in Procs : At(p, "bump") => req[p].seen.content \in 0..content

CacheInv ==
    /\ CacheTyped
    /\ NewVersionsAreEmpty
    /\ LateStoresAreRecent
    /\ WritesAreStored
    /\ AnsweredWritesAreSeen

(* Requests and versions range over what their names say. *)
LEMMA Ranges == MaxWrites \in Nat /\ Absent = -1 /\ Versions = 0..MaxWrites
BY CacheAssumption DEF Absent, Versions

LEMMA CacheInitHolds == CacheInit => CacheInv
<1> SUFFICES ASSUME CacheInit PROVE CacheInv
  OBVIOUS
<1>1. req \in [Procs -> Reader] /\ \A p \in Procs : req[p].at = "idle"
  BY DEF CacheInit, ReqInit, NoRequest, Reader
<1>2. CacheTyped
  BY <1>1, Ranges DEF CacheInit, CacheTyped, Idle
<1>3. QED
  BY <1>1, <1>2, Ranges DEF CacheInit, CacheInv, NewVersionsAreEmpty, LateStoresAreRecent,
       WritesAreStored, AnsweredWritesAreSeen, At

(* What a request is after it has gone on; the others are as they were.    *)
LEMMA CacheMoveHolds ==
    ASSUME CacheTyped, NEW p \in Procs, NEW at \in {"load", "store", "bump"}, NEW seen \in Answers,
           req' = [req EXCEPT ![p] = [at |-> at, row |-> None, seen |-> seen]]
    PROVE  /\ req' \in [Procs -> Reader]
           /\ req'[p] = [at |-> at, row |-> None, seen |-> seen]
           /\ \A q \in Procs : q # p => req'[q] = req[q]
<1>1. [at |-> at, row |-> None, seen |-> seen] \in Reader
  BY DEF Reader
<1>2. QED
  BY <1>1 DEF CacheTyped

LEMMA ReadsHolds ==
    ASSUME NEW v \in Versions, NEW c \in Absent..MaxWrites
    PROVE  Reads(v, c) \in Answers /\ Reads(v, c).version = v /\ Reads(v, c).content = c
BY DEF Reads, Answers

(* A request that ends leaves the others as they are. *)
LEMMA CacheEndHolds ==
    ASSUME CacheInv, NEW p \in Procs, Ends(p), UNCHANGED <<content, version, issued, entry, answered>>
    PROVE  CacheInv'
<1>1. req' \in [Procs -> Reader] /\ req'[p] = NoRequest
        /\ \A q \in Procs : q # p => req'[q] = req[q]
  BY DEF CacheInv, CacheTyped, Ends, Reader, NoRequest
<1>2. CacheTyped'
  BY <1>1 DEF CacheInv, CacheTyped, Idle, NoRequest
<1>3. QED
  BY <1>1, <1>2 DEF CacheInv, NewVersionsAreEmpty, LateStoresAreRecent, WritesAreStored,
       AnsweredWritesAreSeen, At, NoRequest

LEMMA CacheStepHolds == CacheInv /\ [CacheNext]_cacheVars => CacheInv'
<1> SUFFICES ASSUME CacheInv, [CacheNext]_cacheVars PROVE CacheInv'
  OBVIOUS
<1> USE Ranges
<1>1. ASSUME ExpireVersion PROVE CacheInv'
  BY <1>1 DEF ExpireVersion, CacheInv, CacheTyped, NewVersionsAreEmpty, LateStoresAreRecent,
       WritesAreStored, AnsweredWritesAreSeen, At, Idle
<1>2. ASSUME NEW v \in Versions, ExpireEntry(v) PROVE CacheInv'
  <2>1. entry' \in [Versions -> Absent..MaxWrites] /\ entry'[v] = Absent
          /\ \A w \in Versions : w # v => entry'[w] = entry[w]
    BY <1>2 DEF ExpireEntry, CacheInv, CacheTyped
  <2>2. QED
    BY <1>2, <2>1 DEF ExpireEntry, CacheInv, CacheTyped, NewVersionsAreEmpty, LateStoresAreRecent,
         WritesAreStored, AnsweredWritesAreSeen, At, Idle
<1>3. ASSUME NEW p \in Procs, NEW r \in Replicas, Get(p, r) PROVE CacheInv'
  <2>1. CASE Hit(r)
    BY <1>3, <2>1 DEF Get, CacheInv, CacheTyped, NewVersionsAreEmpty, LateStoresAreRecent,
         WritesAreStored, AnsweredWritesAreSeen, At, Idle
  <2>2. CASE ~Hit(r)
    <3> DEFINE seen == Reads(version, Absent)
    <3>1. seen \in Answers /\ seen.version = version
      BY ReadsHolds DEF CacheInv, CacheTyped
    <3>2. /\ req' \in [Procs -> Reader]
          /\ req'[p] = [at |-> "load", row |-> None, seen |-> seen]
          /\ \A q \in Procs : q # p => req'[q] = req[q]
      BY <1>3, <2>2, <3>1, CacheMoveHolds DEF Get, Begins, CacheInv
    <3> HIDE DEF seen
    <3>3. CacheTyped'
      BY <1>3, <3>1, <3>2 DEF Get, CacheInv, CacheTyped, Idle
    <3>4. NewVersionsAreEmpty'
      BY <1>3, <3>1, <3>2 DEF Get, CacheInv, CacheTyped, NewVersionsAreEmpty, At
    <3>5. QED
      BY <1>3, <3>2, <3>3, <3>4 DEF Get, CacheInv, LateStoresAreRecent,
           WritesAreStored, AnsweredWritesAreSeen, At
  <2>3. QED
    BY <2>1, <2>2
<1>4. ASSUME NEW p \in Procs, Load(p) PROVE CacheInv'
  <2>1. req[p].seen \in Answers /\ req[p].seen.version <= issued
    BY <1>4 DEF Load, CacheInv, CacheTyped, NewVersionsAreEmpty, At, Idle
  <2> DEFINE seen == Reads(req[p].seen.version, content)
  <2>2. seen \in Answers /\ seen.version = req[p].seen.version /\ seen.content = content
    BY <2>1, ReadsHolds DEF CacheInv, CacheTyped, Answers
  <2>3. /\ req' \in [Procs -> Reader]
        /\ req'[p] = [at |-> "store", row |-> None, seen |-> seen]
        /\ \A q \in Procs : q # p => req'[q] = req[q]
    BY <1>4, <2>2, CacheMoveHolds DEF Load, CacheInv
  <2> HIDE DEF seen
  <2>4. CacheTyped'
    BY <1>4, <2>2, <2>3 DEF Load, CacheInv, CacheTyped, Idle
  <2>5. NewVersionsAreEmpty'
    BY <1>4, <2>1, <2>2, <2>3 DEF Load, CacheInv, CacheTyped, NewVersionsAreEmpty, At
  <2>6. LateStoresAreRecent'
    BY <1>4, <2>2, <2>3 DEF Load, CacheInv, CacheTyped, LateStoresAreRecent, At
  <2>7. QED
    BY <1>4, <2>3, <2>4, <2>5, <2>6 DEF Load, CacheInv, WritesAreStored, AnsweredWritesAreSeen, At
<1>5. ASSUME NEW p \in Procs, Store(p) PROVE CacheInv'
  <2> DEFINE key == req[p].seen.version
  <2>1. req[p].seen \in Answers /\ key \in Versions /\ key <= issued
    BY <1>5 DEF Store, CacheInv, CacheTyped, NewVersionsAreEmpty, At, Idle, Answers
  <2>2. entry' \in [Versions -> Absent..MaxWrites] /\ entry'[key] = req[p].seen.content
          /\ \A w \in Versions : w # key => entry'[w] = entry[w]
    BY <1>5, <2>1 DEF Store, Key, CacheInv, CacheTyped, Answers
  <2>3. req' \in [Procs -> Reader] /\ req'[p] = NoRequest
          /\ \A q \in Procs : q # p => req'[q] = req[q]
    BY <1>5 DEF Store, CacheInv, CacheTyped, Ends, Reader, NoRequest
  <2>4. AnsweredWritesAreSeen'
    BY <1>5, <2>1, <2>2 DEF Store, CacheInv, CacheTyped, LateStoresAreRecent, AnsweredWritesAreSeen, At
  <2>5. NewVersionsAreEmpty'
    <3>1. \A v \in Versions : v > issued => entry'[v] = Absent
      <4> SUFFICES ASSUME NEW v \in Versions, v > issued PROVE entry'[v] = Absent
        OBVIOUS
      <4>1. v # key
        BY <2>1 DEF CacheInv, CacheTyped
      <4>2. QED
        BY <2>2, <4>1 DEF CacheInv, NewVersionsAreEmpty
    <3>2. \A q \in Procs : At(q, "load")' \/ At(q, "store")' => req'[q].seen.version <= issued
      BY <2>3 DEF CacheInv, NewVersionsAreEmpty, At, NoRequest
    <3>3. QED
      BY <1>5, <3>1, <3>2 DEF Store, NewVersionsAreEmpty, At
  <2>6. CacheTyped'
    BY <1>5, <2>2, <2>3 DEF Store, CacheInv, CacheTyped, Idle, NoRequest
  <2>7. QED
    BY <1>5, <2>3, <2>4, <2>5, <2>6 DEF Store, CacheInv, LateStoresAreRecent, WritesAreStored,
         At, NoRequest
<1>6. ASSUME NEW p \in Procs, Write(p) PROVE CacheInv'
  <2> DEFINE seen == Reads(0, content + 1)
  <2>0. content' = content + 1 /\ content' \in 0..MaxWrites /\ content' >= content
    BY <1>6 DEF Write, CacheInv, CacheTyped
  <2>1. seen \in Answers /\ seen.content = content'
    BY <2>0, ReadsHolds
  <2>2. /\ req' \in [Procs -> Reader]
        /\ req'[p] = [at |-> "bump", row |-> None, seen |-> seen]
        /\ \A q \in Procs : q # p => req'[q] = req[q]
    BY <1>6, <2>0, <2>1, CacheMoveHolds DEF Write, Begins, CacheInv
  <2> HIDE DEF seen
  <2>3. CacheTyped'
    BY <1>6, <2>0, <2>1, <2>2 DEF Write, CacheInv, CacheTyped, Idle
  <2>4. WritesAreStored'
    BY <1>6, <2>0, <2>1, <2>2 DEF Write, CacheInv, CacheTyped, WritesAreStored, At
  <2>5. QED
    BY <1>6, <2>0, <2>2, <2>3, <2>4 DEF Write, CacheInv, NewVersionsAreEmpty, LateStoresAreRecent,
         AnsweredWritesAreSeen, At
<1>7. ASSUME NEW p \in Procs, Bump(p) PROVE CacheInv'
  <2>1. req[p].seen.content \in 0..content
    BY <1>7 DEF Bump, CacheInv, WritesAreStored
  <2>2. req' \in [Procs -> Reader] /\ req'[p] = NoRequest
          /\ \A q \in Procs : q # p => req'[q] = req[q]
    BY <1>7 DEF Bump, CacheInv, CacheTyped, Ends, Reader, NoRequest
  <2>3. answered' \in 0..content' /\ version' = issued' /\ issued' = issued + 1
          /\ issued' \in 0..MaxWrites
    BY <1>7, <2>1 DEF Bump, CacheInv, CacheTyped
  <2>4. entry'[version'] = Absent
    BY <1>7, <2>3 DEF Bump, CacheInv, CacheTyped, NewVersionsAreEmpty
  <2>5. CacheTyped'
    BY <1>7, <2>2, <2>3 DEF Bump, CacheInv, CacheTyped, Idle, NoRequest
  <2>6. LateStoresAreRecent'
    BY <1>7, <2>2, <2>3 DEF Bump, CacheInv, CacheTyped, NewVersionsAreEmpty, LateStoresAreRecent,
         At, NoRequest
  <2>7. NewVersionsAreEmpty'
    BY <1>7, <2>2, <2>3 DEF Bump, CacheInv, CacheTyped, NewVersionsAreEmpty, At, NoRequest, Answers, Idle
  <2>8. QED
    BY <1>7, <2>2, <2>4, <2>5, <2>6, <2>7 DEF Bump, CacheInv, WritesAreStored,
         AnsweredWritesAreSeen, At, NoRequest
<1>8. ASSUME NEW p \in Procs, CacheDies(p) PROVE CacheInv'
  BY <1>8, CacheEndHolds DEF CacheDies, Dies
<1>9. CASE UNCHANGED cacheVars
  BY <1>9 DEF cacheVars, CacheInv, CacheTyped, NewVersionsAreEmpty, LateStoresAreRecent,
       WritesAreStored, AnsweredWritesAreSeen, At, Idle
<1>10. QED
  BY <1>1, <1>2, <1>3, <1>4, <1>5, <1>6, <1>7, <1>8, <1>9 DEF CacheNext

(* What the cache can serve holds every write whose answer was given with  *)
(* its version set: CacheInterceptor and CacheVersionInterceptor together. *)
THEOREM AnsweredWritesAreSeenHolds == CacheSpec => []AnsweredWritesAreSeen
<1>1. CacheInv => AnsweredWritesAreSeen
  BY DEF CacheInv
<1>2. QED
  BY <1>1, CacheInitHolds, CacheStepHolds, PTL DEF CacheSpec

-----------------------------------------------------------------------------
(* The types of the cache of answers *)

(* Each version issued stands for a write that has ended.                  *)
Bumping == {p \in Procs : At(p, "bump")}
WritesPay == issued + Cardinality(Bumping) <= content
HintsTyped == hint \in [Replicas -> Versions]

LEMMA BumpingIsCounted ==
    IsFiniteSet(Bumping) /\ Cardinality(Bumping) \in Nat /\ IsFiniteSet(Bumping')
       /\ Cardinality(Bumping') \in Nat
<1>1. Bumping \in SUBSET Procs /\ Bumping' \in SUBSET Procs
  BY DEF Bumping
<1>2. QED
  BY <1>1, Fewer, CacheAssumption

LEMMA CacheInvSuffices == CacheInv /\ WritesPay /\ HintsTyped => CacheTypeOK
BY BumpingIsCounted DEF CacheInv, CacheTyped, WritesPay, HintsTyped, CacheTypeOK

LEMMA CacheFitsAtFirst == CacheInit => WritesPay /\ HintsTyped
<1> SUFFICES ASSUME CacheInit PROVE WritesPay /\ HintsTyped
  OBVIOUS
<1>1. Bumping = {}
  BY DEF CacheInit, ReqInit, NoRequest, Bumping, At
<1>2. QED
  BY <1>1, FS_EmptySet, Ranges DEF CacheInit, WritesPay, HintsTyped

(* Nobody has come to write. *)
LEMMA WritesStay ==
    ASSUME CacheInv, WritesPay, UNCHANGED <<content, issued>>, Bumping' \subseteq Bumping
    PROVE  WritesPay'
<1>1. Bumping' \in SUBSET Bumping
  OBVIOUS
<1>2. Cardinality(Bumping') <= Cardinality(Bumping)
  BY <1>1, Fewer, BumpingIsCounted
<1>3. QED
  BY <1>2, BumpingIsCounted DEF WritesPay, CacheInv, CacheTyped

LEMMA WritesAreReady ==
    ASSUME CacheInv, WritesPay, NEW p \in Procs, Write(p) \/ Bump(p) PROVE WritesPay'
<1>1. /\ req \in [Procs -> Reader] /\ content \in Nat /\ issued \in Nat
  BY Ranges DEF CacheInv, CacheTyped
<1>2. CASE Write(p)
  <2>1. Bumping' \in SUBSET (Bumping \cup {p}) /\ content' = content + 1 /\ issued' = issued
    BY <1>1, <1>2 DEF Write, Begins, Bumping, At
  <2>2. Cardinality(Bumping') <= Cardinality(Bumping) + 1
    BY <2>1, OneMore, BumpingIsCounted
  <2>3. QED
    BY <1>1, <2>1, <2>2, BumpingIsCounted DEF WritesPay
<1>3. CASE Bump(p)
  <2>1. p \in Bumping /\ Bumping' \in SUBSET (Bumping \ {p}) /\ content' = content /\ issued' = issued + 1
    BY <1>1, <1>3 DEF Bump, Ends, NoRequest, Bumping, At
  <2>2. Cardinality(Bumping') <= Cardinality(Bumping) - 1
    BY <2>1, OneLess, BumpingIsCounted
  <2>3. QED
    BY <1>1, <2>1, <2>2, BumpingIsCounted DEF WritesPay
<1>4. QED
  BY <1>2, <1>3

LEMMA CacheFitsNext ==
    CacheInv /\ WritesPay /\ HintsTyped /\ [CacheNext]_cacheVars => WritesPay' /\ HintsTyped'
<1> SUFFICES ASSUME CacheInv, WritesPay, HintsTyped, [CacheNext]_cacheVars
             PROVE  WritesPay' /\ HintsTyped'
  OBVIOUS
<1>1. version \in Versions /\ req \in [Procs -> Reader]
  BY Ranges DEF CacheInv, CacheTyped
<1>2. HintsTyped'
  <2>1. hint' = hint \/ \E r \in Replicas : hint' = [hint EXCEPT ![r] = version]
    BY DEF CacheNext, cacheVars, Get, Load, Store, Write, Bump, ExpireEntry, ExpireVersion, CacheDies
  <2>2. QED
    BY <1>1, <2>1 DEF HintsTyped
<1>3. CASE \E p \in Procs : Write(p) \/ Bump(p)
  BY <1>2, <1>3, WritesAreReady
<1>4. ASSUME NEW p \in Procs,
             Load(p) \/ Store(p) \/ CacheDies(p) \/ \E r \in Replicas : Get(p, r)
      PROVE  WritesPay'
  <2>1. Bumping' \subseteq Bumping /\ UNCHANGED <<content, issued>>
    BY <1>1, <1>4 DEF Load, Store, CacheDies, Dies, Get, Begins, Ends, NoRequest, Bumping, At
  <2>2. QED
    BY <2>1, WritesStay
<1>5. ASSUME ExpireVersion \/ (\E v \in Versions : ExpireEntry(v)) \/ UNCHANGED cacheVars
      PROVE  WritesPay'
  <2>1. UNCHANGED <<content, issued, req>>
    BY <1>5 DEF ExpireVersion, ExpireEntry, cacheVars
  <2>2. Bumping' \subseteq Bumping
    BY <2>1 DEF Bumping, At
  <2>3. QED
    BY <2>1, <2>2, WritesStay
<1>6. QED
  BY <1>2, <1>3, <1>4, <1>5 DEF CacheNext

-----------------------------------------------------------------------------
(* The cache of permissions *)

RoleReads == [kind : {"none", "template", "owned", "read"}, set : SUBSET Grants]
RoleRequest ==
    [at : {"idle", "role", "grants", "cache", "replace", "invalidate", "insert"},
     row : {None}, seen : RoleReads \cup {None}]

RoleTyped ==
    /\ role \in {"none", "template", "owned"}
    /\ granted \subseteq Grants
    /\ req \in [Procs -> RoleRequest]
    /\ \A p \in Procs : req[p].at \notin {"idle", "invalidate"} => req[p].seen \in RoleReads

(* What a request has read of the role is still so, and what it is about   *)
(* to store is, unless a change has marked it.                             *)
ReadsAreCurrent ==
    \A p \in Procs :
        /\ At(p, "grants") => role # "none" /\ req[p].seen.kind = role
        /\ At(p, "cache") /\ p \notin raced => req[p].seen.set = Resolve(role)

PermissionInv == RoleTyped /\ ReadsAreCurrent /\ StaleFollowsRaces

(* One request has moved, the others are as they were.                     *)
RoleMoves(p, r) ==
    /\ req' \in [Procs -> RoleRequest]
    /\ req'[p] = r
    /\ \A q \in Procs : q # p => req'[q] = req[q]

LEMMA RoleMovesHolds ==
    ASSUME RoleTyped, NEW p \in Procs, NEW r \in RoleRequest, req' = [req EXCEPT ![p] = r]
    PROVE  RoleMoves(p, r)
BY DEF RoleTyped, RoleMoves

LEMMA RoleBeginsHolds ==
    ASSUME RoleTyped, NEW p \in Procs, NEW at \in {"role", "replace", "insert"},
           NEW kind \in {"none", "template", "owned"}, NEW set \in SUBSET Grants,
           Begins(p, at, None, Saw(kind, set))
    PROVE  RoleMoves(p, [at |-> at, row |-> None, seen |-> Saw(kind, set)]) /\ Saw(kind, set) \in RoleReads
<1>1. Saw(kind, set) \in RoleReads
  BY DEF Saw, RoleReads
<1>2. [at |-> at, row |-> None, seen |-> Saw(kind, set)] \in RoleRequest
  BY <1>1 DEF RoleRequest
<1>3. QED
  BY <1>1, <1>2, RoleMovesHolds DEF Begins

LEMMA RoleContinuesHolds ==
    ASSUME RoleTyped, NEW p \in Procs, NEW at \in {"grants", "cache"},
           NEW kind \in {"none", "template", "owned", "read"}, NEW set \in SUBSET Grants,
           Continues(p, at, Saw(kind, set))
    PROVE  /\ RoleMoves(p, [at |-> at, row |-> None, seen |-> Saw(kind, set)])
           /\ Saw(kind, set) \in RoleReads /\ Saw(kind, set).kind = kind /\ Saw(kind, set).set = set
<1>1. Saw(kind, set) \in RoleReads /\ Saw(kind, set).kind = kind /\ Saw(kind, set).set = set
  BY DEF Saw, RoleReads
<1>2. [at |-> at, row |-> None, seen |-> Saw(kind, set)] \in RoleRequest
  BY <1>1 DEF RoleRequest
<1>3. QED
  BY <1>1, <1>2, RoleMovesHolds DEF Continues

LEMMA RoleEndsHolds ==
    ASSUME RoleTyped, NEW p \in Procs, Ends(p)
    PROVE  RoleMoves(p, NoRequest) /\ NoRequest.at = "idle"
<1>1. NoRequest \in RoleRequest /\ NoRequest.at = "idle"
  BY DEF NoRequest, RoleRequest
<1>2. QED
  BY <1>1, RoleMovesHolds DEF Ends

(* A request that only begins, or goes on reading nothing, disturbs nothing. *)
LEMMA RoleQuietHolds ==
    ASSUME PermissionInv, NEW p \in Procs, NEW r \in RoleRequest, RoleMoves(p, r),
           r.at \in {"idle", "role", "replace", "insert"}, r.at # "idle" => r.seen \in RoleReads,
           ~At(p, "invalidate"), UNCHANGED <<role, granted, cached, outdated>>,
           raced' \in {raced, raced \ {p}}
    PROVE  PermissionInv'
<1>1. RoleTyped'
  BY DEF PermissionInv, RoleTyped, RoleMoves
<1>2. ReadsAreCurrent'
  BY DEF PermissionInv, ReadsAreCurrent, RoleMoves, At, Resolve
<1>3. StaleFollowsRaces'
  BY DEF PermissionInv, StaleFollowsRaces, RoleMoves, At, Resolve
<1>4. QED
  BY <1>1, <1>2, <1>3 DEF PermissionInv

LEMMA PermissionInitHolds == PermissionInit => PermissionInv
BY PermissionAssumption
   DEF PermissionInit, PermissionInv, RoleTyped, ReadsAreCurrent, StaleFollowsRaces, ReqInit,
       NoRequest, RoleRequest, At

LEMMA PermissionStepHolds == PermissionInv /\ [PermissionNext]_permissionVars => PermissionInv'
<1> SUFFICES ASSUME PermissionInv, [PermissionNext]_permissionVars PROVE PermissionInv'
  OBVIOUS
<1>0. RoleTyped /\ ReadsAreCurrent /\ StaleFollowsRaces
  BY DEF PermissionInv
<1>1. CASE Expire
  BY <1>0, <1>1 DEF Expire, PermissionInv, RoleTyped, ReadsAreCurrent, StaleFollowsRaces, At, Resolve
<1>2. ASSUME NEW p \in Procs, GetPermissionsForRole(p) PROVE PermissionInv'
  <2>1. RoleMoves(p, [at |-> "role", row |-> None, seen |-> Saw("none", {})]) /\ Saw("none", {}) \in RoleReads
    BY <1>0, <1>2, RoleBeginsHolds DEF GetPermissionsForRole
  <2>2. QED
    BY <1>2, <2>1, RoleQuietHolds DEF GetPermissionsForRole, Begins, Idle, At, RoleRequest
<1>3. ASSUME NEW p \in Procs, FindRoleRecord(p) PROVE PermissionInv'
  <2> DEFINE at == IF role = "none" THEN "cache" ELSE "grants"
  <2>1. /\ RoleMoves(p, [at |-> at, row |-> None, seen |-> Saw(role, {})])
        /\ Saw(role, {}) \in RoleReads /\ Saw(role, {}).kind = role /\ Saw(role, {}).set = {}
    BY <1>0, <1>3, RoleContinuesHolds DEF FindRoleRecord, RoleTyped
  <2>2. RoleTyped'
    BY <1>0, <1>3, <2>1 DEF FindRoleRecord, RoleTyped, RoleMoves
  <2>3. ReadsAreCurrent'
    <3>1. role' = role /\ granted' = granted /\ raced' = raced /\ Resolve(role)' = Resolve(role)
      BY <1>3 DEF FindRoleRecord, Resolve
    <3>2. req'[p].at = at /\ req'[p].seen = Saw(role, {})
      BY <2>1 DEF RoleMoves
    <3>3. role = "none" => Resolve(role) = {}
      BY DEF Resolve
    <3>4. \A q \in Procs : q # p => req'[q] = req[q]
      BY <2>1 DEF RoleMoves
    <3>5. QED
      BY <1>0, <2>1, <3>1, <3>2, <3>3, <3>4 DEF ReadsAreCurrent, At
  <2>4. StaleFollowsRaces'
    BY <1>0, <1>3, <2>1 DEF FindRoleRecord, StaleFollowsRaces, RoleMoves, At, Resolve
  <2>5. QED
    BY <2>2, <2>3, <2>4 DEF PermissionInv
<1>4. ASSUME NEW p \in Procs, ResolvePermissions(p) PROVE PermissionInv'
  <2> DEFINE set == Resolve(req[p].seen.kind)
  <2>1. set = Resolve(role) /\ set \in SUBSET Grants
    BY <1>0, <1>4, PermissionAssumption DEF ResolvePermissions, ReadsAreCurrent, RoleTyped, Resolve
  <2>2. /\ RoleMoves(p, [at |-> "cache", row |-> None, seen |-> Saw("read", set)])
        /\ Saw("read", set) \in RoleReads /\ Saw("read", set).set = set
    BY <1>0, <1>4, <2>1, RoleContinuesHolds DEF ResolvePermissions
  <2> HIDE DEF set
  <2>3. RoleTyped'
    BY <1>0, <1>4, <2>2 DEF ResolvePermissions, RoleTyped, RoleMoves
  <2>4. ReadsAreCurrent'
    <3>1. role' = role /\ granted' = granted /\ raced' = raced /\ Resolve(role)' = Resolve(role)
      BY <1>4 DEF ResolvePermissions, Resolve
    <3>2. req'[p].at = "cache" /\ req'[p].seen.set = Resolve(role)
      BY <2>1, <2>2 DEF RoleMoves
    <3>3. \A q \in Procs : q # p => req'[q] = req[q]
      BY <2>2 DEF RoleMoves
    <3>4. QED
      BY <1>0, <3>1, <3>2, <3>3 DEF ReadsAreCurrent, At
  <2>5. StaleFollowsRaces'
    BY <1>0, <1>4, <2>2 DEF ResolvePermissions, StaleFollowsRaces, RoleMoves, At, Resolve
  <2>6. QED
    BY <2>3, <2>4, <2>5 DEF PermissionInv
<1>5. ASSUME NEW p \in Procs, Remember(p) PROVE PermissionInv'
  <2>1. RoleMoves(p, NoRequest) /\ NoRequest.at = "idle"
    BY <1>0, <1>5, RoleEndsHolds DEF Remember
  <2>2. RoleTyped'
    BY <1>0, <1>5, <2>1 DEF Remember, RoleTyped, RoleMoves
  <2>3. ReadsAreCurrent'
    BY <1>0, <1>5, <2>1 DEF Remember, ReadsAreCurrent, RoleMoves, At, Resolve
  <2>4. StaleFollowsRaces'
    BY <1>0, <1>5 DEF Remember, ReadsAreCurrent, StaleFollowsRaces, Resolve
  <2>5. QED
    BY <2>2, <2>3, <2>4 DEF PermissionInv
<1>6. ASSUME NEW p \in Procs, NEW set \in SUBSET Grants, SetPermissionsForRole(p, set)
      PROVE  PermissionInv'
  <2>1. RoleMoves(p, [at |-> "replace", row |-> None, seen |-> Saw(role, set)]) /\ Saw(role, set) \in RoleReads
    BY <1>0, <1>6, RoleBeginsHolds DEF SetPermissionsForRole, RoleTyped
  <2>2. QED
    BY <1>6, <2>1, RoleQuietHolds DEF SetPermissionsForRole, Begins, Idle, At, RoleRequest
<1>7. ASSUME NEW p \in Procs, ResetRoleToDefaults(p) PROVE PermissionInv'
  <2>1. RoleMoves(p, [at |-> "replace", row |-> None, seen |-> Saw(role, {})]) /\ Saw(role, {}) \in RoleReads
    BY <1>0, <1>7, RoleBeginsHolds DEF ResetRoleToDefaults, RoleTyped
  <2>2. QED
    BY <1>7, <2>1, RoleQuietHolds DEF ResetRoleToDefaults, Begins, Idle, At, RoleRequest
<1>8. ASSUME NEW p \in Procs, Replace(p) PROVE PermissionInv'
  <2> DEFINE r == [at |-> "invalidate", row |-> req[p].row, seen |-> req[p].seen]
  <2>1. r \in RoleRequest /\ req[p].seen.set \in SUBSET Grants
    BY <1>0, <1>8 DEF Replace, RoleTyped, RoleRequest, RoleReads, At
  <2>2. RoleMoves(p, r) /\ r.at = "invalidate"
    BY <1>0, <1>8, <2>1, RoleMovesHolds DEF Replace, GoesTo
  <2> HIDE DEF r
  <2>3. RoleTyped'
    BY <1>0, <1>8, <2>1, <2>2 DEF Replace, RoleTyped, RoleMoves
  <2>4. ReadsAreCurrent'
    BY <1>0, <1>8, <2>2 DEF Replace, Reading, ReadsAreCurrent, RoleMoves, At
  <2>5. StaleFollowsRaces'
    BY <1>8, <2>2 DEF StaleFollowsRaces, RoleMoves, At
  <2>6. QED
    BY <2>3, <2>4, <2>5 DEF PermissionInv
<1>9. ASSUME NEW p \in Procs, InvalidateCache(p) PROVE PermissionInv'
  <2>1. RoleMoves(p, NoRequest) /\ NoRequest.at = "idle"
    BY <1>0, <1>9, RoleEndsHolds DEF InvalidateCache
  <2>2. RoleTyped'
    BY <1>0, <1>9, <2>1 DEF InvalidateCache, RoleTyped, RoleMoves
  <2>3. ReadsAreCurrent'
    BY <1>0, <1>9, <2>1 DEF InvalidateCache, ReadsAreCurrent, RoleMoves, At, Resolve
  <2>4. StaleFollowsRaces'
    BY <1>9 DEF InvalidateCache, StaleFollowsRaces
  <2>5. QED
    BY <2>2, <2>3, <2>4 DEF PermissionInv
<1>10. ASSUME NEW p \in Procs, NEW set \in SUBSET Grants, CreateRole(p, set) PROVE PermissionInv'
  <2>1. RoleMoves(p, [at |-> "insert", row |-> None, seen |-> Saw("owned", set)]) /\ Saw("owned", set) \in RoleReads
    BY <1>0, <1>10, RoleBeginsHolds DEF CreateRole
  <2>2. QED
    BY <1>10, <2>1, RoleQuietHolds DEF CreateRole, Begins, Idle, At, RoleRequest
<1>11. ASSUME NEW p \in Procs, InsertRole(p) PROVE PermissionInv'
  <2>1. RoleMoves(p, NoRequest) /\ NoRequest.at = "idle" /\ ~At(p, "invalidate")
    BY <1>0, <1>11, RoleEndsHolds DEF InsertRole, At
  <2>2. CASE role = "none"
    <3>1. req[p].seen.set \in SUBSET Grants
      BY <1>0, <1>11 DEF InsertRole, RoleTyped, RoleReads, At
    <3>2. RoleTyped'
      BY <1>0, <1>11, <2>1, <2>2, <3>1 DEF InsertRole, RoleTyped, RoleMoves
    <3>3. ReadsAreCurrent'
      BY <1>0, <1>11, <2>1, <2>2 DEF InsertRole, Reading, ReadsAreCurrent, RoleMoves, At
    <3>4. StaleFollowsRaces'
      BY <1>11, <2>2 DEF InsertRole, StaleFollowsRaces
    <3>5. QED
      BY <3>2, <3>3, <3>4 DEF PermissionInv
  <2>3. CASE role # "none"
    <3>1. NoRequest \in RoleRequest
      BY DEF NoRequest, RoleRequest
    <3>2. QED
      BY <1>11, <2>1, <2>3, <3>1, RoleQuietHolds DEF InsertRole
  <2>4. QED
    BY <2>2, <2>3
<1>12. ASSUME NEW p \in Procs, PermissionDies(p) PROVE PermissionInv'
  <2>1. RoleMoves(p, NoRequest) /\ NoRequest.at = "idle"
    BY <1>0, <1>12, RoleEndsHolds DEF PermissionDies, Dies
  <2>2. RoleTyped'
    BY <1>0, <1>12, <2>1 DEF PermissionDies, RoleTyped, RoleMoves
  <2>3. ReadsAreCurrent'
    BY <1>0, <1>12, <2>1 DEF PermissionDies, ReadsAreCurrent, RoleMoves, At, Resolve
  <2>4. StaleFollowsRaces'
    BY <1>0, <1>12, <2>1 DEF PermissionDies, StaleFollowsRaces, RoleMoves, At, Resolve
  <2>5. QED
    BY <2>2, <2>3, <2>4 DEF PermissionInv
<1>13. CASE UNCHANGED permissionVars
  BY <1>0, <1>13 DEF permissionVars, PermissionInv, RoleTyped, ReadsAreCurrent, StaleFollowsRaces,
       At, Resolve
<1>14. QED
  BY <1>1, <1>2, <1>3, <1>4, <1>5, <1>6, <1>7, <1>8, <1>9, <1>10, <1>11, <1>12, <1>13
     DEF PermissionNext

(* The cached permissions of a role are those of its rows, save while a    *)
(* change is about to invalidate them and where a race, or Redis, has left *)
(* them behind: PermissionsService.                                        *)
THEOREM StaleFollowsRacesHolds == PermissionSpec => []StaleFollowsRaces
<1>1. PermissionInv => StaleFollowsRaces
  BY DEF PermissionInv
<1>2. QED
  BY <1>1, PermissionInitHolds, PermissionStepHolds, PTL DEF PermissionSpec

-----------------------------------------------------------------------------
(* The types of the cache of permissions *)

PermissionFits ==
    /\ cached = None \/ cached \subseteq Grants
    /\ raced \subseteq Procs /\ outdated \in BOOLEAN

LEMMA PermissionInvSuffices == PermissionInv /\ PermissionFits => PermissionTypeOK
BY DEF PermissionInv, RoleTyped, PermissionFits, PermissionTypeOK

LEMMA PermissionFitsAtFirst == PermissionInit => PermissionFits
BY DEF PermissionInit, PermissionFits

LEMMA PermissionFitsNext ==
    PermissionInv /\ PermissionFits /\ [PermissionNext]_permissionVars => PermissionFits'
<1> SUFFICES ASSUME PermissionInv, PermissionFits, [PermissionNext]_permissionVars
             PROVE  PermissionFits'
  OBVIOUS
<1>1. CASE UNCHANGED permissionVars \/ Expire
  BY <1>1 DEF permissionVars, Expire, PermissionFits
<1>2. ASSUME NEW p \in Procs, Remember(p) PROVE PermissionFits'
  <2>1. req[p].seen.set \subseteq Grants
    BY <1>2 DEF Remember, At, PermissionInv, RoleTyped, RoleRequest, RoleReads
  <2>2. QED
    BY <1>2, <2>1 DEF Remember, PermissionFits
<1>3. ASSUME NEW p \in Procs, Replace(p) \/ InsertRole(p) \/ InvalidateCache(p) \/ PermissionDies(p)
      PROVE  PermissionFits'
  BY <1>3 DEF Replace, InsertRole, InvalidateCache, PermissionDies, PermissionFits, Reading
<1>4. ASSUME NEW p \in Procs,
             \/ GetPermissionsForRole(p) \/ FindRoleRecord(p) \/ ResolvePermissions(p)
             \/ ResetRoleToDefaults(p)
             \/ \E set \in SUBSET Grants : SetPermissionsForRole(p, set) \/ CreateRole(p, set)
      PROVE  PermissionFits'
  BY <1>4 DEF GetPermissionsForRole, FindRoleRecord, ResolvePermissions, ResetRoleToDefaults,
     SetPermissionsForRole, CreateRole, PermissionFits
<1>5. QED
  BY <1>1, <1>2, <1>3, <1>4 DEF PermissionNext

-----------------------------------------------------------------------------
(* The feed of changes *)

FeedRow == [at : 0..LastTick, id : 1..MaxChanges, record : Records, action : {"write", "delete"},
        mutation : Mutations \cup {ServerSide}]
FeedChange == [at : 0..LastTick, record : Records, action : {"write", "delete"},
           mutation : Mutations \cup {ServerSide}]
FeedCursor == [at : -1..LastTick, id : 0..MaxChanges]
DeviceState == [cursor : FeedCursor, local : [Records -> 0..MaxChanges], fallback : -1..LastTick,
                page : FeedCursor, doing : {"nothing", "pull", "bootstrap"}]

Opened == {w \in Writers : open[w] # NoChange}

FeedTyped ==
    /\ stored \in [Records -> Archived..changes]
    /\ changes \in 0..MaxChanges /\ tick \in 0..LastTick
    /\ feed \subseteq FeedRow
    /\ open \in [Writers -> FeedChange \cup {NoChange}]
    /\ device \in [Devices -> DeviceState]
    /\ skipped \subseteq Devices \X Records /\ purged \subseteq Devices \X Records

(* A number is left for every transaction that is open, and nothing is     *)
(* stamped in the future.                                                  *)
FeedBounds ==
    /\ changes + Cardinality(Opened) <= MaxChanges
    /\ \A row \in feed : row.at <= tick
    /\ \A w \in Writers : open[w].at <= tick
    /\ \A d \in Devices :
          /\ device[d].cursor.at <= tick /\ device[d].page.at <= tick /\ device[d].fallback <= tick
          /\ \A r \in Records : device[d].local[r] <= changes

IdsDiffer == \A a, b \in feed : a.id = b.id => a = b

(* The last row of a record tells whether the record is there. *)
Tells(row) ==
    /\ \A other \in RowsOf(row.record) : other = row \/ Before(other, row)
    /\ row.action = "write" <=> stored[row.record] > 0
LastTells == \A row \in feed : row.record \notin twisted => \E last \in RowsOf(row.record) : Tells(last)

(* A page that is on its way is after what is kept for the device. *)
PullsAfterKept == \A d \in Devices : device[d].doing = "pull" => device[d].fallback < device[d].page.at

Exempt(d, r) == <<d, r>> \in skipped \cup purged \/ r \in twisted
Coming(d, row) == Before(device[d].cursor, row) /\ Before(KeptCursor(d), row)
StillComing(d, r) == \E row \in RowsOf(r) : Coming(d, row)

(* What a device does not have yet is still to come. *)
ComingOrThere ==
    \A d \in Devices, r \in Records : Exempt(d, r) \/ Agree(device[d].local, r) \/ StillComing(d, r)

AppliedIsKnown ==
    /\ applied \subseteq Mutations
    /\ \A m \in applied : m \in forgotten \/ \E row \in feed : row.mutation = m

FeedInv ==
    /\ FeedTyped /\ FeedBounds /\ IdsDiffer /\ LastTells /\ PullsAfterKept /\ ComingOrThere
    /\ AppliedIsKnown /\ MutationsApplyOnce

LEMMA FeedInvSuffices ==
    FeedInv => FeedTypeOK /\ FeedReaches
<1> SUFFICES ASSUME FeedInv PROVE FeedTypeOK /\ FeedReaches
  OBVIOUS
<1>1. FeedTypeOK
  <2>1. ASSUME NEW d \in Devices
        PROVE  device[d].local \in [Records -> 0..changes] /\ device[d].cursor.at \in -1..tick
    <3>1. device[d] \in DeviceState /\ \A r \in Records : device[d].local[r] <= changes
      BY DEF FeedInv, FeedTyped, FeedBounds
    <3>2. device[d].local \in [Records -> 0..MaxChanges]
      BY <3>1 DEF DeviceState
    <3>3. \A r \in Records : device[d].local[r] \in 0..changes
      BY <3>1, <3>2 DEF FeedInv, FeedTyped
    <3>4. device[d].cursor.at \in -1..tick
      BY <3>1 DEF FeedInv, FeedTyped, FeedBounds, DeviceState, FeedCursor
    <3>5. QED
      BY <3>2, <3>3, <3>4
  <2>2. \A row \in feed : row.at \in 0..tick /\ row.id \in 1..MaxChanges
    BY DEF FeedInv, FeedTyped, FeedBounds, FeedRow
  <2>3. QED
    BY <2>1, <2>2 DEF FeedInv, FeedTyped, FeedTypeOK
<1>2. DevicesConverge
  <2> SUFFICES ASSUME NEW d \in Devices, NEW r \in Records, CaughtUp(d), ~Exempt(d, r)
               PROVE  Agree(device[d].local, r)
    BY DEF DevicesConverge, Exempt
  <2>1. ~StillComing(d, r)
    BY DEF CaughtUp, After, StillComing, Coming, RowsOf
  <2>2. QED
    BY <2>1 DEF FeedInv, ComingOrThere
<1>3. QED
  BY <1>1, <1>2 DEF FeedReaches, FeedInv

LEMMA FeedInitOK == FeedInit => FeedInv
<1> SUFFICES ASSUME FeedInit PROVE FeedInv
  OBVIOUS
<1> USE DEF FeedInit
<1>1. NoRow \in FeedCursor /\ NewDevice \in DeviceState
  <2>1. NoRow \in FeedCursor
    BY FeedAssumption DEF NoRow, FeedCursor
  <2>2. [r \in Records |-> Gone] \in [Records -> 0..MaxChanges] /\ -1 \in -1..LastTick
    BY FeedAssumption DEF Gone
  <2>3. QED
    BY <2>1, <2>2 DEF NewDevice, DeviceState
<1>2. FeedTyped
  <2>1. stored \in [Records -> Archived..changes] /\ changes \in 0..MaxChanges /\ tick \in 0..LastTick
    BY FeedAssumption DEF Archived, Gone
  <2>2. QED
    BY <1>1, <2>1 DEF FeedTyped
<1>3. FeedBounds
  <2>1. Opened = {}
    BY DEF Opened
  <2>2. Cardinality(Opened) = 0
    BY <2>1, FS_EmptySet
  <2>3. \A w \in Writers : open[w].at <= tick
    BY DEF NoChange
  <2>4. \A d \in Devices :
          /\ device[d].cursor.at <= tick /\ device[d].page.at <= tick /\ device[d].fallback <= tick
          /\ \A r \in Records : device[d].local[r] <= changes
    BY DEF NewDevice, NoRow, Gone
  <2>5. QED
    BY <2>2, <2>3, <2>4, FeedAssumption DEF FeedBounds
<1>4. IdsDiffer /\ LastTells /\ AppliedIsKnown /\ MutationsApplyOnce
  BY DEF IdsDiffer, LastTells, AppliedIsKnown, MutationsApplyOnce
<1>5. PullsAfterKept
  BY DEF PullsAfterKept, NewDevice
<1>6. ComingOrThere
  BY DEF ComingOrThere, Agree, NewDevice, Gone, Archived
<1>7. QED
  BY <1>2, <1>3, <1>4, <1>5, <1>6 DEF FeedInv

(* Rows are in one order. *)
LEMMA RowsOrdered ==
    ASSUME FeedInv, NEW a \in feed, NEW b \in feed
    PROVE  /\ a = b \/ Before(a, b) \/ Before(b, a)
           /\ ~(Before(a, b) /\ Before(b, a)) /\ ~Before(a, a)
<1>1. a.at \in Int /\ b.at \in Int /\ a.id \in Int /\ b.id \in Int /\ (a.id = b.id => a = b)
  BY DEF FeedInv, FeedTyped, FeedRow, IdsDiffer
<1>2. QED
  BY <1>1 DEF Before

(* What comes after a place that is itself after c comes after c. *)
LEMMA BeforeGoesOn ==
    ASSUME NEW a, NEW b, NEW c, a.at \in Int, b.at \in Int, c.at \in Int,
           a.id \in Int, b.id \in Int, c.id \in Int, Before(a, b), Before(b, c)
    PROVE  Before(a, c)
BY DEF Before

LEMMA DeviceIs ==
    ASSUME FeedInv, NEW d \in Devices
    PROVE  /\ device[d] \in DeviceState
           /\ device[d].cursor \in FeedCursor /\ device[d].cursor.at \in -1..tick
           /\ device[d].cursor.id \in 0..MaxChanges
           /\ device[d].page \in FeedCursor /\ device[d].page.at \in -1..tick
           /\ device[d].page.id \in 0..MaxChanges
           /\ device[d].fallback \in -1..tick
           /\ device[d].local \in [Records -> 0..MaxChanges]
           /\ \A r \in Records : device[d].local[r] \in 0..changes
<1>1. device[d] \in DeviceState /\ tick \in 0..LastTick /\ changes \in 0..MaxChanges
  BY DEF FeedInv, FeedTyped
<1>2. /\ device[d].cursor \in FeedCursor /\ device[d].page \in FeedCursor
      /\ device[d].fallback \in -1..LastTick /\ device[d].local \in [Records -> 0..MaxChanges]
  BY <1>1 DEF DeviceState
<1>3. /\ device[d].cursor.at <= tick /\ device[d].page.at <= tick /\ device[d].fallback <= tick
      /\ \A r \in Records : device[d].local[r] <= changes
  BY DEF FeedInv, FeedBounds
<1>4. /\ device[d].cursor.at \in -1..tick /\ device[d].cursor.id \in 0..MaxChanges
      /\ device[d].page.at \in -1..tick /\ device[d].page.id \in 0..MaxChanges
      /\ device[d].fallback \in -1..tick
  BY <1>1, <1>2, <1>3 DEF FeedCursor
<1>5. \A r \in Records : device[d].local[r] \in 0..changes
  BY <1>1, <1>2, <1>3
<1>6. QED
  BY <1>1, <1>2, <1>4, <1>5

(* A step that moves d and leaves what is written alone. *)
DeviceMoves(d, new) ==
    /\ new \in DeviceState /\ device' = [device EXCEPT ![d] = new]
    /\ new.cursor.at <= tick /\ new.page.at <= tick /\ new.fallback <= tick
    /\ \A r \in Records : new.local[r] <= changes
    /\ new.doing = "pull" => new.fallback < new.page.at
    /\ UNCHANGED <<stored, feed, changes, open, tick, twisted, forgotten, applied, twice>>
    /\ skipped' \subseteq Devices \X Records /\ purged' \subseteq Devices \X Records
    /\ \A e \in Devices \ {d}, r \in Records :
          <<e, r>> \in skipped \cup purged => <<e, r>> \in skipped' \cup purged'

(* What is still to come for a device with this cursor and kept instant. *)
ComingAfter(cursor, kept, r) ==
    \E row \in RowsOf(r) : Before(cursor, row) /\ Before([at |-> kept, id |-> 0], row)

LEMMA DeviceMovesHolds ==
    ASSUME FeedInv, NEW d \in Devices, NEW new, DeviceMoves(d, new),
           \A r \in Records :
              \/ <<d, r>> \in skipped' \cup purged' \/ r \in twisted
              \/ Agree(new.local, r) \/ ComingAfter(new.cursor, new.fallback, r)
    PROVE  FeedInv'
<1>1. device'[d] = new /\ (\A e \in Devices \ {d} : device'[e] = device[e])
        /\ device' \in [Devices -> DeviceState]
  BY DEF DeviceMoves, FeedInv, FeedTyped
<1>2. FeedTyped'
  BY <1>1 DEF DeviceMoves, FeedInv, FeedTyped
<1>3. FeedBounds'
  <2>1. Opened' = Opened
    BY DEF Opened, DeviceMoves
  <2>2. \A e \in Devices :
          /\ device'[e].cursor.at <= tick /\ device'[e].page.at <= tick /\ device'[e].fallback <= tick
          /\ \A r \in Records : device'[e].local[r] <= changes
    BY <1>1 DEF DeviceMoves, FeedInv, FeedBounds
  <2>3. QED
    BY <2>1, <2>2 DEF DeviceMoves, FeedInv, FeedBounds
<1>4. IdsDiffer' /\ AppliedIsKnown' /\ MutationsApplyOnce'
  BY DEF DeviceMoves, FeedInv, IdsDiffer, AppliedIsKnown, MutationsApplyOnce
<1>5. LastTells'
  BY DEF DeviceMoves, FeedInv, LastTells, Tells, RowsOf
<1>6. PullsAfterKept'
  BY <1>1 DEF DeviceMoves, FeedInv, PullsAfterKept
<1>7. ComingOrThere'
  <2> SUFFICES ASSUME NEW e \in Devices, NEW r \in Records
               PROVE  Exempt(e, r)' \/ Agree(device[e].local, r)' \/ StillComing(e, r)'
    BY DEF ComingOrThere
  <2>1. CASE e = d
    <3>1. ComingAfter(new.cursor, new.fallback, r) => StillComing(e, r)'
      BY <1>1, <2>1 DEF ComingAfter, StillComing, Coming, KeptCursor, RowsOf, Before, DeviceMoves
    <3>2. Agree(new.local, r) => Agree(device[e].local, r)'
      BY <1>1, <2>1 DEF Agree, DeviceMoves
    <3>3. QED
      BY <2>1, <3>1, <3>2 DEF Exempt, DeviceMoves
  <2>2. CASE e # d
    <3>1. device'[e] = device[e]
      BY <1>1, <2>2
    <3>2. Exempt(e, r) => Exempt(e, r)'
      BY <2>2 DEF Exempt, DeviceMoves
    <3>3. Agree(device[e].local, r) => Agree(device[e].local, r)'
      BY <3>1 DEF Agree, DeviceMoves
    <3>4. StillComing(e, r) => StillComing(e, r)'
      BY <3>1 DEF StillComing, Coming, KeptCursor, RowsOf, Before, DeviceMoves
    <3>5. QED
      BY <3>2, <3>3, <3>4 DEF FeedInv, ComingOrThere
  <2>3. QED
    BY <2>1, <2>2
<1>8. QED
  BY <1>2, <1>3, <1>4, <1>5, <1>6, <1>7 DEF FeedInv

(* The device is as it was, but for its place in the work. *)
LEMMA SameDevice ==
    ASSUME FeedInv, NEW d \in Devices, NEW new, new \in DeviceState,
           new.cursor = device[d].cursor, new.local = device[d].local,
           device' = [device EXCEPT ![d] = new],
           UNCHANGED <<stored, feed, changes, open, tick, History>>,
           new.page.at <= tick, new.fallback <= tick,
           new.doing = "pull" => new.fallback < new.page.at,
           \/ new.fallback = device[d].fallback
           \/ \A row \in After(device[d].cursor) : new.fallback < row.at
    PROVE  FeedInv'
<1>1. DeviceMoves(d, new)
  BY DeviceIs DEF DeviceMoves, History, FeedInv, FeedTyped, FeedBounds
<1>2. ASSUME NEW r \in Records, ~(<<d, r>> \in skipped' \cup purged' \/ r \in twisted),
             ~Agree(new.local, r)
      PROVE  ComingAfter(new.cursor, new.fallback, r)
  <2>1. StillComing(d, r)
    BY <1>2 DEF FeedInv, ComingOrThere, Exempt, History
  <2>2. PICK row \in RowsOf(r) : Before(device[d].cursor, row) /\ Before(KeptCursor(d), row)
    BY <2>1 DEF StillComing, Coming
  <2>3. Before([at |-> new.fallback, id |-> 0], row)
    BY <2>2 DEF KeptCursor, After, Before, RowsOf
  <2>4. QED
    BY <2>2, <2>3 DEF ComingAfter
<1>3. QED
  BY <1>1, <1>2, DeviceMovesHolds

LEMMA PullPageHolds ==
    ASSUME FeedInv, NEW d \in Devices, PullPage(d)
    PROVE  FeedInv'
<1>1. PICK first \in After(device[d].cursor) :
        /\ \A row \in After(device[d].cursor) : row = first \/ Before(first, row)
        /\ device' = [device EXCEPT ![d].doing = "pull", ![d].page = Place(first),
                                    ![d].fallback = first.at - 1]
  BY DEF PullPage
<1> PICK new : new = [device[d] EXCEPT !.doing = "pull", !.page = Place(first), !.fallback = first.at - 1]
  OBVIOUS
<1>2. first \in FeedRow /\ first.at \in 0..tick /\ first.id \in 1..MaxChanges /\ tick \in 0..LastTick
  BY DEF After, FeedInv, FeedTyped, FeedBounds, FeedRow
<1>3. Place(first) \in FeedCursor /\ Place(first).at = first.at /\ first.at - 1 \in -1..LastTick
  BY <1>2, FeedAssumption DEF Place, FeedCursor
<1>4. /\ new \in DeviceState /\ new.cursor = device[d].cursor /\ new.local = device[d].local
      /\ new.doing = "pull" /\ new.page = Place(first) /\ new.fallback = first.at - 1
  BY <1>3, DeviceIs DEF DeviceState
<1>5. device' = [device EXCEPT ![d] = new]
  BY <1>1
<1>6. \A row \in After(device[d].cursor) : new.fallback < row.at
  <2>1. \A row \in feed : row.at \in Int
    BY DEF FeedInv, FeedTyped, FeedRow
  <2>2. QED
    BY <1>1, <1>2, <1>4, <2>1 DEF After, Before
<1>7. new.page.at <= tick /\ new.fallback <= tick /\ new.fallback < new.page.at
  BY <1>2, <1>3, <1>4
<1>8. QED
  BY <1>4, <1>5, <1>6, <1>7, SameDevice DEF PullPage

LEMMA LosePageHolds ==
    ASSUME FeedInv, NEW d \in Devices, LosePage(d)
    PROVE  FeedInv'
<1> PICK new : new = [device[d] EXCEPT !.doing = "nothing", !.page = NoRow]
  OBVIOUS
<1>1. NoRow \in FeedCursor /\ NoRow.at <= tick
  BY FeedAssumption DEF NoRow, FeedCursor, FeedInv, FeedTyped
<1>2. /\ new \in DeviceState /\ new.cursor = device[d].cursor /\ new.local = device[d].local
      /\ new.doing = "nothing" /\ new.page = NoRow /\ new.fallback = device[d].fallback
  BY <1>1, DeviceIs DEF DeviceState
<1>3. device' = [device EXCEPT ![d] = new]
  BY DEF LosePage
<1>4. new.fallback <= tick
  BY <1>2, DeviceIs DEF FeedInv, FeedTyped
<1>5. QED
  BY <1>1, <1>2, <1>3, <1>4, SameDevice DEF LosePage

LEMMA BootstrapHolds ==
    ASSUME FeedInv, NEW d \in Devices, Bootstrap(d)
    PROVE  FeedInv'
<1> PICK instant : instant = [at |-> tick, id |-> 0]
  OBVIOUS
<1> PICK new : new = [device[d] EXCEPT !.doing = "bootstrap", !.page = instant]
  OBVIOUS
<1>1. instant \in FeedCursor /\ instant.at <= tick
  BY FeedAssumption DEF FeedCursor, FeedInv, FeedTyped
<1>2. /\ new \in DeviceState /\ new.cursor = device[d].cursor /\ new.local = device[d].local
      /\ new.doing = "bootstrap" /\ new.page = instant /\ new.fallback = device[d].fallback
  BY <1>1, DeviceIs DEF DeviceState
<1>3. device' = [device EXCEPT ![d] = new]
  BY DEF Bootstrap
<1>4. new.fallback <= tick
  BY <1>2, DeviceIs DEF FeedInv, FeedTyped
<1>5. QED
  BY <1>1, <1>2, <1>3, <1>4, SameDevice DEF Bootstrap

LEMMA LoseCursorHolds ==
    ASSUME FeedInv, NEW d \in Devices, LoseCursor(d)
    PROVE  FeedInv'
<1> PICK kept : kept = KeptCursor(d)
  OBVIOUS
<1> PICK new : new = [device[d] EXCEPT !.cursor = kept]
  OBVIOUS
<1>1. kept = [at |-> device[d].fallback, id |-> 0] /\ kept \in FeedCursor /\ kept.at <= tick
  <2>1. device[d].fallback \in -1..LastTick /\ 0 \in 0..MaxChanges /\ device[d].fallback <= tick
    BY DeviceIs, FeedAssumption DEF FeedInv, FeedTyped
  <2>2. QED
    BY <2>1 DEF FeedCursor, KeptCursor
<1>2. /\ new \in DeviceState /\ new.cursor = kept /\ new.local = device[d].local
      /\ new.doing = "nothing" /\ new.page = device[d].page /\ new.fallback = device[d].fallback
  BY <1>1, DeviceIs DEF DeviceState, LoseCursor
<1>3. DeviceMoves(d, new)
  <2>1. device' = [device EXCEPT ![d] = new] /\ UNCHANGED <<stored, feed, changes, open, tick, History>>
    BY DEF LoseCursor
  <2>2. new.cursor.at <= tick /\ new.page.at <= tick /\ new.fallback <= tick
        /\ \A r \in Records : new.local[r] <= changes
    BY <1>1, <1>2, DeviceIs DEF FeedInv, FeedTyped
  <2>3. QED
    BY <1>2, <2>1, <2>2 DEF DeviceMoves, History, FeedInv, FeedTyped
<1>4. ASSUME NEW r \in Records, ~(<<d, r>> \in skipped' \cup purged' \/ r \in twisted),
             ~Agree(new.local, r)
      PROVE  ComingAfter(new.cursor, new.fallback, r)
  <2>1. StillComing(d, r)
    BY <1>2, <1>3, <1>4 DEF FeedInv, ComingOrThere, Exempt, LoseCursor, History
  <2>2. PICK row \in RowsOf(r) : Before(kept, row)
    BY <2>1 DEF StillComing, Coming
  <2>3. QED
    BY <1>1, <1>2, <2>2 DEF ComingAfter
<1>5. QED
  BY <1>3, <1>4, DeviceMovesHolds

LEMMA ReadCollectionsHolds ==
    ASSUME FeedInv, NEW d \in Devices, ReadCollections(d)
    PROVE  FeedInv'
<1> PICK new : new = [device[d] EXCEPT !.doing = "nothing", !.page = NoRow,
                                       !.cursor = device[d].page, !.local = Snapshot]
  OBVIOUS
<1>1. NoRow \in FeedCursor /\ NoRow.at <= tick
  BY FeedAssumption DEF NoRow, FeedCursor, FeedInv, FeedTyped
<1>2. /\ Snapshot \in [Records -> 0..MaxChanges] /\ \A r \in Records : Snapshot[r] <= changes
  BY FeedAssumption DEF Snapshot, FeedInv, FeedTyped, Archived, Gone
<1>3. /\ new \in DeviceState /\ new.cursor = device[d].page /\ new.local = Snapshot
      /\ new.doing = "nothing" /\ new.page = NoRow /\ new.fallback = device[d].fallback
  BY <1>1, <1>2, DeviceIs DEF DeviceState
<1>4. DeviceMoves(d, new)
  <2>1. device' = [device EXCEPT ![d] = new]
    BY DEF ReadCollections
  <2>2. new.cursor.at <= tick /\ new.page.at <= tick /\ new.fallback <= tick
        /\ \A r \in Records : new.local[r] <= changes
    BY <1>1, <1>2, <1>3, DeviceIs DEF FeedInv, FeedTyped
  <2>3. QED
    BY <1>3, <2>1, <2>2 DEF DeviceMoves, ReadCollections, FeedInv, FeedTyped
<1>5. \A r \in Records : Agree(new.local, r)
  BY <1>3 DEF Agree, Snapshot
<1>6. QED
  BY <1>4, <1>5, DeviceMovesHolds

(* What a row leaves on the device is what is stored, or a later row of    *)
(* its record is still to come.                                            *)
LEMMA HydratedIs ==
    ASSUME FeedInv, NEW d \in Devices, NEW row \in feed
    PROVE  /\ Hydrated(d, row) \in 0..changes
           /\ \/ row.record \in twisted
              \/ Hydrated(d, row) = IF stored[row.record] = Archived THEN Gone ELSE stored[row.record]
              \/ \E last \in RowsOf(row.record) : Before(row, last)
<1>1. row \in FeedRow /\ row.record \in Records /\ row.action \in {"write", "delete"}
  BY DEF FeedInv, FeedTyped, FeedRow
<1>2. stored[row.record] \in Archived..changes /\ changes \in Nat
  BY <1>1, FeedAssumption DEF FeedInv, FeedTyped
<1>3. device[d].local[row.record] \in 0..changes
  BY <1>1, DeviceIs
<1>4. Hydrated(d, row) \in 0..changes
  BY <1>1, <1>2, <1>3 DEF Hydrated, Gone, Archived
<1>5. ASSUME row.record \notin twisted, ~ \E last \in RowsOf(row.record) : Before(row, last)
      PROVE  Hydrated(d, row) = IF stored[row.record] = Archived THEN Gone ELSE stored[row.record]
  <2>1. PICK last \in RowsOf(row.record) : Tells(last)
    BY <1>5 DEF FeedInv, LastTells
  <2>2. last.record = row.record /\ last \in feed /\ row \in RowsOf(last.record)
    BY DEF RowsOf
  <2>3. last = row
    BY <1>5, <2>1, <2>2 DEF Tells
  <2>4. row.action = "write" <=> stored[row.record] > 0
    BY <2>1, <2>2, <2>3 DEF Tells
  <2>5. QED
    BY <1>1, <1>2, <2>4 DEF Hydrated, Gone, Archived
<1>6. QED
  BY <1>4, <1>5

LEMMA HydrateHolds ==
    ASSUME FeedInv, NEW d \in Devices, Hydrate(d)
    PROVE  FeedInv'
<1>1. PICK row \in feed : Place(row) = device[d].page /\ Apply(d, row)
  BY DEF Hydrate
<1> PICK cursor : cursor = Place(row)
  OBVIOUS
<1> PICK local : local = [device[d].local EXCEPT ![row.record] = Hydrated(d, row)]
  OBVIOUS
<1> PICK new : new = [device[d] EXCEPT !.doing = "nothing", !.page = NoRow, !.cursor = cursor, !.local = local]
  OBVIOUS
<1> PICK between : between = {other \in feed : Before(device[d].cursor, other) /\ Before(other, row)}
  OBVIOUS
<1>2. /\ row.record \in Records /\ row.at \in 0..LastTick /\ row.id \in 1..MaxChanges
      /\ row.at <= tick /\ tick \in 0..LastTick /\ changes \in 0..MaxChanges
      /\ cursor.at = row.at /\ cursor.id = row.id /\ cursor \in FeedCursor
      /\ device[d].fallback < row.at
  BY <1>1 DEF FeedInv, FeedTyped, FeedBounds, FeedRow, FeedCursor, Place, PullsAfterKept, Hydrate
<1>3. NoRow \in FeedCursor /\ NoRow.at <= tick
  BY FeedAssumption DEF NoRow, FeedCursor, FeedInv, FeedTyped
<1>4. /\ local \in [Records -> 0..MaxChanges] /\ local[row.record] = Hydrated(d, row)
      /\ \A r \in Records : local[r] <= changes
      /\ \A r \in Records \ {row.record} : local[r] = device[d].local[r]
  <2>1. Hydrated(d, row) \in 0..changes /\ Hydrated(d, row) \in 0..MaxChanges
    <3>1. Hydrated(d, row) \in 0..changes
      BY HydratedIs
    <3>2. 0..changes \subseteq 0..MaxChanges
      BY <1>2, FeedAssumption
    <3>3. QED
      BY <3>1, <3>2
  <2>2. device[d].local \in [Records -> 0..MaxChanges] /\ \A r \in Records : device[d].local[r] \in 0..changes
    BY DeviceIs
  <2>3. local \in [Records -> 0..MaxChanges] /\ local[row.record] = Hydrated(d, row)
        /\ \A r \in Records \ {row.record} : local[r] = device[d].local[r]
    BY <1>2, <2>1, <2>2
  <2>4. \A r \in Records : local[r] <= changes
    BY <1>2, <2>1, <2>2, <2>3
  <2>5. QED
    BY <2>3, <2>4
<1>5. /\ new \in DeviceState /\ new.cursor = cursor /\ new.local = local
      /\ new.doing = "nothing" /\ new.page = NoRow /\ new.fallback = device[d].fallback
  BY <1>2, <1>3, <1>4, DeviceIs DEF DeviceState
<1>6. /\ device' = [device EXCEPT ![d] = new]
      /\ skipped' = {p \in skipped \cup {<<d, other.record>> : other \in between} :
                       p[1] = d => ~Agree(local, p[2])}
      /\ UNCHANGED <<stored, feed, changes, open, tick, twisted, purged, forgotten, applied, twice>>
  BY <1>1 DEF Hydrate, Apply
<1>7. DeviceMoves(d, new)
  <2>1. skipped' \subseteq Devices \X Records
    <3>1. \A other \in between : other.record \in Records
      BY DEF FeedInv, FeedTyped, FeedRow
    <3>2. QED
      BY <1>6, <3>1 DEF FeedInv, FeedTyped
  <2>2. \A e \in Devices \ {d}, r \in Records : <<e, r>> \in skipped => <<e, r>> \in skipped'
    BY <1>6
  <2>3. new.cursor.at <= tick /\ new.page.at <= tick /\ new.fallback <= tick
    BY <1>2, <1>3, <1>5, DeviceIs
  <2>4. QED
    BY <1>4, <1>5, <1>6, <2>1, <2>2, <2>3 DEF DeviceMoves, FeedInv, FeedTyped
<1>8. ASSUME NEW r \in Records, ~(<<d, r>> \in skipped' \cup purged' \/ r \in twisted),
             ~Agree(new.local, r)
      PROVE  ComingAfter(new.cursor, new.fallback, r)
  <2> PICK kept : kept = [at |-> device[d].fallback, id |-> 0]
    OBVIOUS
  <2>1. ASSUME NEW later \in RowsOf(r), Before(row, later) PROVE ComingAfter(new.cursor, new.fallback, r)
    <3>1. later.at \in Int /\ later.id \in Int /\ device[d].fallback \in Int
      BY DeviceIs DEF RowsOf, FeedInv, FeedTyped, FeedRow
    <3>2. Before(cursor, later)
      BY <1>2, <2>1 DEF Before
    <3>3. Before([at |-> device[d].fallback, id |-> 0], later)
      BY <1>2, <2>1, <3>1 DEF Before
    <3>4. QED
      BY <1>5, <3>2, <3>3 DEF ComingAfter
  <2>2. CASE r = row.record
    <3>1. \E last \in RowsOf(r) : Before(row, last)
      BY <1>4, <1>5, <1>8, <2>2, HydratedIs DEF Agree
    <3>2. QED
      BY <2>1, <3>1
  <2>3. CASE r # row.record
    <3>1. ~Agree(device[d].local, r)
      BY <1>4, <1>5, <1>8, <2>3 DEF Agree
    <3>2. <<d, r>> \notin skipped \cup purged
      BY <1>5, <1>6, <1>8
    <3>3. PICK other \in RowsOf(r) : Before(device[d].cursor, other)
      BY <1>8, <3>1, <3>2 DEF FeedInv, ComingOrThere, Exempt, StillComing, Coming
    <3>4. other \in feed /\ other.record = r /\ other # row
      BY <2>3 DEF RowsOf
    <3>5. ~Before(other, row)
      <4> SUFFICES ASSUME Before(other, row) PROVE FALSE
        OBVIOUS
      <4>1. other \in between
        BY <3>3, <3>4
      <4>2. <<d, r>> \in {<<d, x.record>> : x \in between}
        BY <3>4, <4>1
      <4>3. QED
        BY <1>5, <1>6, <1>8, <4>2
    <3>6. Before(row, other)
      BY <3>4, <3>5, RowsOrdered
    <3>7. QED
      BY <2>1, <3>6
  <2>4. QED
    BY <2>2, <2>3
<1>9. QED
  BY <1>7, <1>8, DeviceMovesHolds

(* Nothing of what is written or known changes. *)
LEMMA TickHolds ==
    ASSUME FeedInv, Tick
    PROVE  FeedInv'
<1>1. tick' \in 0..LastTick /\ tick' > tick /\ UNCHANGED <<stored, feed, changes, open, device, History>>
  BY FeedAssumption DEF Tick, FeedInv, FeedTyped
<1>2. FeedTyped'
  BY <1>1 DEF FeedInv, FeedTyped, History
<1>3. FeedBounds'
  <2>1. Opened' = Opened
    BY <1>1 DEF Opened
  <2>2. tick \in Int /\ tick' \in Int
    BY <1>1 DEF FeedInv, FeedTyped
  <2>3. \A row \in feed : row.at \in Int /\ row.at <= tick'
    BY <1>1, <2>2 DEF FeedInv, FeedTyped, FeedBounds, FeedRow
  <2>4. \A w \in Writers : open[w].at <= tick'
    <3> SUFFICES ASSUME NEW w \in Writers PROVE open[w].at <= tick'
      OBVIOUS
    <3>1. open[w] \in FeedChange \/ open[w] = NoChange
      BY DEF FeedInv, FeedTyped
    <3>2. open[w].at \in Int
      BY <3>1 DEF FeedChange, NoChange
    <3>3. open[w].at <= tick
      BY DEF FeedInv, FeedBounds
    <3>4. QED
      BY <1>1, <2>2, <3>2, <3>3
  <2>5. \A d \in Devices :
          /\ device[d].cursor.at <= tick' /\ device[d].page.at <= tick' /\ device[d].fallback <= tick'
          /\ \A r \in Records : device[d].local[r] <= changes
    BY <1>1, <2>2, DeviceIs DEF FeedInv, FeedBounds
  <2>6. QED
    BY <1>1, <2>1, <2>3, <2>4, <2>5 DEF FeedInv, FeedBounds
<1>4. IdsDiffer' /\ LastTells' /\ PullsAfterKept' /\ AppliedIsKnown' /\ MutationsApplyOnce'
  BY <1>1 DEF History, FeedInv, IdsDiffer, LastTells, Tells, RowsOf, PullsAfterKept, AppliedIsKnown, MutationsApplyOnce
<1>5. ComingOrThere'
  BY <1>1 DEF History, FeedInv, ComingOrThere, Exempt, Agree, StillComing, Coming, KeptCursor, RowsOf
<1>6. QED
  BY <1>2, <1>3, <1>4, <1>5 DEF FeedInv

LEMMA OpenedIs ==
    ASSUME FeedInv
    PROVE  /\ IsFiniteSet(Opened) /\ Cardinality(Opened) \in Nat
           /\ changes \in Nat /\ MaxChanges \in Nat /\ changes + Cardinality(Opened) <= MaxChanges
<1>1. Opened \in SUBSET Writers
  BY DEF Opened
<1>2. IsFiniteSet(Opened) /\ Cardinality(Opened) \in Nat
  BY <1>1, Fewer, FeedAssumption
<1>3. QED
  BY <1>2, FeedAssumption DEF FeedInv, FeedTyped, FeedBounds

(* A transaction begins or is given up. *)
LEMMA OpenMovesHolds ==
    ASSUME FeedInv, NEW w \in Writers, NEW new \in FeedChange \cup {NoChange}, new.at <= tick,
           open' = [open EXCEPT ![w] = new],
           UNCHANGED <<stored, feed, changes, device, tick, History>>,
           changes + Cardinality(Opened') <= MaxChanges
    PROVE  FeedInv'
<1>1. open' \in [Writers -> FeedChange \cup {NoChange}] /\ \A v \in Writers : open'[v].at <= tick
  BY DEF FeedInv, FeedTyped, FeedBounds
<1>2. FeedTyped' /\ FeedBounds'
  BY <1>1 DEF FeedInv, FeedTyped, FeedBounds, History
<1>3. IdsDiffer' /\ LastTells' /\ PullsAfterKept' /\ AppliedIsKnown' /\ MutationsApplyOnce'
  BY DEF History, FeedInv, IdsDiffer, LastTells, Tells, RowsOf, PullsAfterKept, AppliedIsKnown, MutationsApplyOnce
<1>4. ComingOrThere'
  BY DEF History, FeedInv, ComingOrThere, Exempt, Agree, StillComing, Coming, KeptCursor, RowsOf
<1>5. QED
  BY <1>2, <1>3, <1>4 DEF FeedInv

LEMMA BeginHolds ==
    ASSUME FeedInv, NEW w \in Writers, NEW r \in Records, NEW action \in {"write", "delete"},
           NEW m \in Mutations \cup {ServerSide}, Begin(w, r, action, m)
    PROVE  FeedInv'
<1> PICK new : new = [at |-> tick, record |-> r, action |-> action, mutation |-> m]
  OBVIOUS
<1>1. new \in FeedChange /\ new.at <= tick
  BY DEF FeedChange, FeedInv, FeedTyped
<1>2. open' = [open EXCEPT ![w] = new] /\ UNCHANGED <<stored, feed, changes, device, tick, History>>
  BY DEF Begin
<1>3. changes + Cardinality(Opened') <= MaxChanges
  <2>1. Opened' \in SUBSET (Opened \cup {w})
    BY <1>2 DEF Opened, FeedInv, FeedTyped
  <2>2. Cardinality(Opened') \in Nat /\ Cardinality(Opened') <= Cardinality(Opened) + 1
    BY <2>1, OpenedIs, OneMore
  <2>3. changes + Cardinality(Opened) < MaxChanges
    BY DEF Begin, Spare, Opened
  <2>4. QED
    BY <2>2, <2>3, OpenedIs
<1>4. QED
  BY <1>1, <1>2, <1>3, OpenMovesHolds

LEMMA RollbackHolds ==
    ASSUME FeedInv, NEW w \in Writers, Rollback(w)
    PROVE  FeedInv'
<1>1. open' = [open EXCEPT ![w] = NoChange] /\ UNCHANGED <<stored, feed, changes, device, tick, History>>
  BY DEF Rollback
<1>2. NoChange.at <= tick
  BY DEF NoChange, FeedInv, FeedTyped
<1>3. changes + Cardinality(Opened') <= MaxChanges
  <2>1. Opened' \in SUBSET Opened
    BY <1>1 DEF Opened, FeedInv, FeedTyped
  <2>2. Cardinality(Opened') \in Nat /\ Cardinality(Opened') <= Cardinality(Opened)
    BY <2>1, OpenedIs, Fewer
  <2>3. QED
    BY <2>2, OpenedIs
<1>4. QED
  BY <1>1, <1>2, <1>3, OpenMovesHolds

LEMMA CommitHolds ==
    ASSUME FeedInv, NEW w \in Writers, NEW id \in 1..MaxChanges, Commit(w, id)
    PROVE  FeedInv'
<1> PICK change : change = open[w]
  OBVIOUS
<1> PICK r, m : r = change.record /\ m = change.mutation
  OBVIOUS
<1> PICK row : row = [at |-> change.at, id |-> id, record |-> r, action |-> change.action, mutation |-> m]
  OBVIOUS
<1>1. /\ change # NoChange /\ (\A other \in feed : other.id # id) /\ Applies(change)
      /\ changes' = changes + 1 /\ feed' = feed \cup {row}
      /\ stored' = [stored EXCEPT ![r] = Outcome(change)]
      /\ open' = [open EXCEPT ![w] = NoChange]
      /\ skipped' = skipped \cup
           {<<d, r>> : d \in {e \in Devices : ~Before(device[e].cursor, row) \/ ~Before(KeptCursor(e), row)}}
      /\ twisted' = IF \E other \in RowsOf(r) : Before(row, other) THEN twisted \cup {r} ELSE twisted
      /\ applied' = applied \cup ({m} \cap Mutations)
      /\ twice' = twice \cup ({m} \cap applied)
      /\ UNCHANGED <<device, tick, purged, forgotten>>
  BY DEF Commit
<1>2. /\ change \in FeedChange /\ r \in Records /\ m \in Mutations \cup {ServerSide}
      /\ change.action \in {"write", "delete"} /\ change.at \in 0..LastTick /\ change.at <= tick
  <2>1. change \in FeedChange /\ change.at <= tick
    BY <1>1 DEF FeedInv, FeedTyped, FeedBounds
  <2>2. QED
    BY <2>1 DEF FeedChange
<1>3. /\ row \in FeedRow /\ row.at = change.at /\ row.id = id /\ row.record = r
      /\ row.action = change.action /\ row.mutation = m
  BY <1>2 DEF FeedRow
<1>4. changes' + Cardinality(Opened') <= MaxChanges /\ changes' \in 0..MaxChanges /\ changes' = changes + 1
        /\ changes \in Nat
  <2>1. w \in Opened
    BY <1>1 DEF Opened
  <2>2. Opened' \in SUBSET (Opened \ {w})
    BY <1>1 DEF Opened, FeedInv, FeedTyped
  <2>3. Cardinality(Opened') \in Nat /\ Cardinality(Opened') + 1 <= Cardinality(Opened)
    BY <2>1, <2>2, OpenedIs, OneLess
  <2>4. QED
    BY <1>1, <2>3, OpenedIs
<1>5. /\ Outcome(change) \in Archived..changes'
      /\ change.action = "write" <=> Outcome(change) > 0
  BY <1>2, <1>4 DEF Outcome, Archived, Gone
<1>6. FeedTyped'
  <2>1. stored' \in [Records -> Archived..changes']
    <3>1. stored \in [Records -> Archived..changes']
      BY <1>4 DEF FeedInv, FeedTyped, Archived
    <3>2. QED
      BY <1>1, <1>5, <3>1
  <2>2. feed' \subseteq FeedRow
    BY <1>1, <1>3 DEF FeedInv, FeedTyped
  <2>3. open' \in [Writers -> FeedChange \cup {NoChange}]
    BY <1>1 DEF FeedInv, FeedTyped
  <2>4. skipped' \subseteq Devices \X Records
    BY <1>1, <1>2 DEF FeedInv, FeedTyped
  <2>5. QED
    BY <1>1, <1>4, <2>1, <2>2, <2>3, <2>4 DEF FeedInv, FeedTyped
<1>7. FeedBounds'
  <2>1. \A a \in feed' : a.at <= tick
    BY <1>1, <1>2, <1>3 DEF FeedInv, FeedBounds
  <2>2. \A v \in Writers : open'[v].at <= tick
    <3>1. NoChange.at <= tick
      BY DEF NoChange, FeedInv, FeedTyped
    <3>2. QED
      BY <1>1, <3>1 DEF FeedInv, FeedTyped, FeedBounds
  <2>3. \A d \in Devices :
          /\ device[d].cursor.at <= tick /\ device[d].page.at <= tick /\ device[d].fallback <= tick
          /\ \A x \in Records : device[d].local[x] <= changes'
    <3> SUFFICES ASSUME NEW d \in Devices
                 PROVE  /\ device[d].cursor.at <= tick /\ device[d].page.at <= tick /\ device[d].fallback <= tick
                        /\ \A x \in Records : device[d].local[x] <= changes'
      OBVIOUS
    <3>1. /\ device[d].cursor.at <= tick /\ device[d].page.at <= tick /\ device[d].fallback <= tick
      BY DEF FeedInv, FeedBounds
    <3>2. \A x \in Records : device[d].local[x] \in 0..changes
      BY DeviceIs
    <3>3. \A x \in Records : device[d].local[x] <= changes'
      BY <1>4, <3>2
    <3>4. QED
      BY <3>1, <3>3
  <2>4. QED
    BY <1>1, <1>4, <2>1, <2>2, <2>3 DEF FeedBounds
<1>8. IdsDiffer'
  BY <1>1, <1>3 DEF FeedInv, IdsDiffer
<1>9. LastTells'
  <2> SUFFICES ASSUME NEW a \in feed', a.record \notin twisted'
               PROVE  \E last \in RowsOf(a.record)' : Tells(last)'
    BY DEF LastTells, RowsOf
  <2>1. CASE a.record = r
    <3>1. ASSUME NEW other \in feed', other.record = r, other # row PROVE Before(other, row)
      <4>1. other \in RowsOf(r) /\ other \in feed
        BY <1>1, <3>1 DEF RowsOf
      <4>2. ~Before(row, other)
        BY <1>1, <2>1, <4>1
      <4>3. other.id # row.id /\ other.at \in Int /\ other.id \in Int
        BY <1>1, <1>3, <4>1 DEF FeedInv, FeedTyped, FeedRow
      <4>4. row.at \in Int /\ row.id \in Int
        BY <1>2, <1>3
      <4>5. QED
        BY <4>2, <4>3, <4>4 DEF Before
    <3>2. row.action = "write" <=> stored'[row.record] > 0
      BY <1>1, <1>2, <1>3, <1>5 DEF FeedInv, FeedTyped
    <3>3. Tells(row)'
      BY <1>3, <3>1, <3>2 DEF Tells, RowsOf
    <3>4. QED
      BY <1>1, <1>3, <2>1, <3>3 DEF RowsOf
  <2>2. CASE a.record # r
    <3>1. a \in feed /\ a.record \notin twisted
      BY <1>1, <1>3, <2>2
    <3>2. PICK last \in RowsOf(a.record) : Tells(last)
      BY <3>1 DEF FeedInv, LastTells
    <3>3. last.record = a.record /\ last \in feed
      BY DEF RowsOf
    <3>4. \A other \in feed' : other.record = last.record => other \in RowsOf(last.record)
      BY <1>1, <1>3, <2>2, <3>3 DEF RowsOf
    <3>5. stored'[last.record] = stored[last.record]
      BY <1>1, <1>2, <2>2, <3>3 DEF FeedInv, FeedTyped, FeedRow
    <3>6. Tells(last)'
      BY <3>2, <3>4, <3>5 DEF Tells, RowsOf
    <3>7. QED
      BY <1>1, <3>3, <3>6 DEF RowsOf
  <2>3. QED
    BY <2>1, <2>2
<1>10. PullsAfterKept'
  BY <1>1 DEF FeedInv, PullsAfterKept
<1>11. ComingOrThere'
  <2> SUFFICES ASSUME NEW d \in Devices, NEW x \in Records
               PROVE  Exempt(d, x)' \/ Agree(device[d].local, x)' \/ StillComing(d, x)'
    BY DEF ComingOrThere
  <2>1. CASE x = r
    <3>1. CASE Coming(d, row)
      <4>1. row \in feed' /\ row.record = x
        BY <1>1, <1>3, <2>1
      <4>2. Coming(d, row)'
        BY <1>1, <3>1 DEF Coming, KeptCursor
      <4>3. StillComing(d, x)'
        BY <4>1, <4>2 DEF StillComing, RowsOf
      <4>4. QED
        BY <4>3
    <3>2. CASE ~Coming(d, row)
      <4>1. <<d, r>> \in skipped'
        BY <1>1, <3>2 DEF Coming
      <4>2. QED
        BY <2>1, <4>1 DEF Exempt
    <3>3. QED
      BY <3>1, <3>2
  <2>2. CASE x # r
    <3>1. Exempt(d, x) => Exempt(d, x)'
      BY <1>1 DEF Exempt
    <3>2. Agree(device[d].local, x) => Agree(device[d].local, x)'
      BY <1>1, <2>2 DEF Agree, FeedInv, FeedTyped
    <3>3. StillComing(d, x) => StillComing(d, x)'
      BY <1>1 DEF StillComing, Coming, KeptCursor, RowsOf
    <3>4. QED
      BY <3>1, <3>2, <3>3 DEF FeedInv, ComingOrThere
  <2>3. QED
    BY <2>1, <2>2
<1>12. AppliedIsKnown' /\ MutationsApplyOnce'
  <2>1. m \in applied => m \in forgotten
    <3> SUFFICES ASSUME m \in applied PROVE m \in forgotten
      OBVIOUS
    <3>1. m # ServerSide
      BY FeedAssumption DEF FeedInv, AppliedIsKnown
    <3>2. \A a \in feed : a.mutation # m
      BY <1>1, <3>1 DEF Applies, Unknown
    <3>3. QED
      BY <3>2 DEF FeedInv, AppliedIsKnown
  <2>2. MutationsApplyOnce'
    BY <1>1, <2>1 DEF FeedInv, MutationsApplyOnce
  <2>3. AppliedIsKnown'
    BY <1>1, <1>3 DEF FeedInv, AppliedIsKnown
  <2>4. QED
    BY <2>2, <2>3
<1>13. QED
  BY <1>6, <1>7, <1>8, <1>9, <1>10, <1>11, <1>12 DEF FeedInv

LEMMA CleanupHolds ==
    ASSUME FeedInv, CleanupExpiredChanges
    PROVE  FeedInv'
<1> PICK old : old = {row \in feed : row.at + 1 < tick}
  OBVIOUS
<1>1. /\ feed' = feed \ old
      /\ purged' = purged \cup {<<p[1], p[2].record>> :
                      p \in {q \in Devices \X old : Before(device[q[1]].cursor, q[2])}}
      /\ forgotten' = forgotten \cup {row.mutation : row \in old}
      /\ UNCHANGED <<stored, changes, open, device, tick, skipped, twisted, applied, twice>>
  BY DEF CleanupExpiredChanges
<1>2. FeedTyped'
  <2>1. \A p \in Devices \X old : p[1] \in Devices /\ p[2].record \in Records
    BY DEF FeedInv, FeedTyped, FeedRow
  <2>2. purged' \subseteq Devices \X Records
    BY <1>1, <2>1 DEF FeedInv, FeedTyped
  <2>3. QED
    BY <1>1, <2>2 DEF FeedInv, FeedTyped
<1>3. FeedBounds'
  <2>1. Opened' = Opened
    BY <1>1 DEF Opened
  <2>2. QED
    BY <1>1, <2>1 DEF FeedInv, FeedBounds
<1>4. IdsDiffer' /\ PullsAfterKept' /\ MutationsApplyOnce'
  BY <1>1 DEF FeedInv, IdsDiffer, PullsAfterKept, MutationsApplyOnce
<1>5. AppliedIsKnown'
  BY <1>1 DEF FeedInv, AppliedIsKnown
<1>6. LastTells'
  <2> SUFFICES ASSUME NEW a \in feed', a.record \notin twisted'
               PROVE  \E last \in RowsOf(a.record)' : Tells(last)'
    BY DEF LastTells
  <2>1. a \in feed /\ a.record \notin twisted /\ ~(a.at + 1 < tick)
    BY <1>1
  <2>2. PICK last \in RowsOf(a.record) : Tells(last)
    BY <2>1 DEF FeedInv, LastTells
  <2>3. last \in feed /\ last.record = a.record /\ (a = last \/ Before(a, last))
    BY <2>1, <2>2 DEF Tells, RowsOf
  <2>4. a.at \in Int /\ last.at \in Int /\ tick \in Int
    BY <2>1, <2>3 DEF FeedInv, FeedTyped, FeedRow
  <2>5. last \in feed'
    BY <1>1, <2>1, <2>3, <2>4 DEF Before
  <2>6. Tells(last)'
    BY <1>1, <2>2 DEF Tells, RowsOf
  <2>7. QED
    BY <2>3, <2>5, <2>6 DEF RowsOf
<1>7. ComingOrThere'
  <2> SUFFICES ASSUME NEW d \in Devices, NEW x \in Records
               PROVE  Exempt(d, x)' \/ Agree(device[d].local, x)' \/ StillComing(d, x)'
    BY DEF ComingOrThere
  <2>1. Exempt(d, x) => Exempt(d, x)'
    BY <1>1 DEF Exempt
  <2>2. Agree(device[d].local, x) => Agree(device[d].local, x)'
    BY <1>1 DEF Agree
  <2>3. ASSUME StillComing(d, x) PROVE StillComing(d, x)' \/ Exempt(d, x)'
    <3>1. PICK row \in RowsOf(x) : Coming(d, row)
      BY <2>3 DEF StillComing
    <3>2. row \in feed /\ row.record = x
      BY DEF RowsOf
    <3>3. CASE row \in old
      <4>1. <<d, row>> \in {q \in Devices \X old : Before(device[q[1]].cursor, q[2])}
        BY <3>1, <3>3 DEF Coming
      <4>2. <<d, x>> \in purged'
        BY <1>1, <3>2, <4>1
      <4>3. QED
        BY <4>2 DEF Exempt
    <3>4. CASE row \notin old
      <4>1. row \in feed' /\ Coming(d, row)'
        BY <1>1, <3>1, <3>2, <3>4 DEF Coming, KeptCursor
      <4>2. QED
        BY <3>2, <4>1 DEF StillComing, RowsOf
    <3>5. QED
      BY <3>3, <3>4
  <2>4. QED
    BY <2>1, <2>2, <2>3 DEF FeedInv, ComingOrThere
<1>8. QED
  BY <1>2, <1>3, <1>4, <1>5, <1>6, <1>7 DEF FeedInv

LEMMA FeedStutters ==
    ASSUME FeedInv, UNCHANGED feedVars
    PROVE  FeedInv'
<1> USE DEF feedVars
<1>1. FeedTyped' /\ FeedBounds'
  BY DEF FeedInv, FeedTyped, FeedBounds, Opened
<1>2. IdsDiffer' /\ LastTells' /\ PullsAfterKept' /\ AppliedIsKnown' /\ MutationsApplyOnce'
  BY DEF FeedInv, IdsDiffer, LastTells, Tells, RowsOf, PullsAfterKept, AppliedIsKnown, MutationsApplyOnce
<1>3. ComingOrThere'
  BY DEF FeedInv, ComingOrThere, Exempt, Agree, StillComing, Coming, KeptCursor, RowsOf
<1>4. QED
  BY <1>1, <1>2, <1>3 DEF FeedInv

LEMMA FeedStepHolds == FeedInv /\ [FeedNext]_feedVars => FeedInv'
<1> SUFFICES ASSUME FeedInv, [FeedNext]_feedVars PROVE FeedInv'
  OBVIOUS
<1>1. CASE UNCHANGED feedVars
  BY <1>1, FeedStutters
<1>2. CASE Tick \/ CleanupExpiredChanges
  BY <1>2, TickHolds, CleanupHolds
<1>3. ASSUME NEW d \in Devices,
             \/ PullPage(d) \/ Hydrate(d) \/ LosePage(d) \/ LoseCursor(d) \/ Bootstrap(d)
             \/ ReadCollections(d)
      PROVE  FeedInv'
  BY <1>3, PullPageHolds, HydrateHolds, LosePageHolds, LoseCursorHolds, BootstrapHolds, ReadCollectionsHolds
<1>4. ASSUME NEW w \in Writers, Rollback(w) PROVE FeedInv'
  BY <1>4, RollbackHolds
<1>5. ASSUME NEW w \in Writers, NEW id \in 1..MaxChanges, Commit(w, id) PROVE FeedInv'
  BY <1>5, CommitHolds
<1>6. ASSUME NEW w \in Writers, NEW r \in Records, NEW action \in {"write", "delete"},
             \/ WriteRecord(w, r, action)
             \/ \E m \in Mutations, clientTime \in 0..tick : PushChanges(w, r, action, m, clientTime)
      PROVE  FeedInv'
  <2>1. PICK m \in Mutations \cup {ServerSide} : Begin(w, r, action, m)
    BY <1>6 DEF WriteRecord, PushChanges
  <2>2. QED
    BY <2>1, BeginHolds
<1>7. QED
  BY <1>1, <1>2, <1>3, <1>4, <1>5, <1>6 DEF FeedNext

(* However changes are committed, pulled, lost, purged and read beside a   *)
(* bootstrap, for any number of records, devices and transactions: a       *)
(* device that has pulled everything agrees with the server on all that    *)
(* came in order, and no mutation is applied twice while the feed          *)
(* remembers it (pullChanges, bootstrap, pushChanges).                     *)
THEOREM FeedReachesHolds == FeedSpec => []FeedReaches
<1>1. FeedInv => FeedReaches
  BY FeedInvSuffices
<1>2. QED
  BY FeedInitOK, FeedStepHolds, <1>1, PTL DEF FeedSpec
=============================================================================
