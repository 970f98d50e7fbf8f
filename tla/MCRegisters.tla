------------------------------ MODULE MCRegisters ------------------------------
(* Registers that share no state, in turn: a behaviour is one of one part.    *)
EXTENDS AssetRegister, FormSubmissions, PlanCapacity, AttendanceSessions, TLC

VARIABLE part

(* The loans and the ledger of an asset read nothing that the other writes.  *)
Parts == {"loans", "values", "forms", "plan", "attendance"}

Straight == [price |-> 8, salvage |-> 2, life |-> 3, straight |-> TRUE]
Declining == [price |-> 8, salvage |-> 4, life |-> 2, straight |-> FALSE]
MCTerms == {Straight, Declining}
Smaller == [members |-> 1, locations |-> 1, staff |-> 1]
Larger == [members |-> 2, locations |-> 1, staff |-> 2]
MCPlans == {Smaller, Larger}

(* Two of one branch, and a visitor who only left a name. *)
MCHome == LET guest == CHOOSE m \in People : TRUE
          IN  [m \in People |-> IF m = guest THEN None ELSE CHOOSE b \in Branches : TRUE]

(* The variables of each part; the requests are shared. *)
OfAssets == <<category, asset, loan, ledger, year>>
OfForms == <<form, submission, formLock>>
OfPlan == <<plan, row, staff, seat, identity, churchLock>>
OfAttendance == <<service, parent, sessions, checkin, took>>

vars == <<OfAssets, OfForms, OfPlan, OfAttendance, req, part>>

Init ==
    /\ part \in Parts
    /\ AssetInit /\ FormInit /\ PlanInit /\ AttendanceInit
    /\ part = "plan" \/ plan = Larger

Next ==
    /\ UNCHANGED part
    /\ \/ part = "loans" /\ AssetNext /\ \A p \in Procs : req'[p].at # "look"
          /\ UNCHANGED <<ledger, year, OfForms, OfPlan, OfAttendance>>
       \/ part = "values" /\ AssetNext /\ \A p \in Procs : req'[p].at \notin {"lend", "return"}
          /\ UNCHANGED <<loan, OfForms, OfPlan, OfAttendance>>
       \/ part = "forms" /\ FormNext
          /\ UNCHANGED <<OfAssets, OfPlan, OfAttendance>>
       \/ part = "plan" /\ PlanNext
          /\ UNCHANGED <<OfAssets, OfForms, OfAttendance>>
       \/ part = "attendance" /\ AttendanceNext
          /\ UNCHANGED <<OfAssets, OfForms, OfPlan>>

Spec == Init /\ [][Next]_vars

(* Of the part whose behaviour it is; the others are as they began. *)
TypeOK ==
    CASE part \in {"loans", "values"} -> AssetTypeOK
      [] part = "forms" -> FormTypeOK
      [] part = "plan" -> PlanTypeOK
      [] part = "attendance" -> AttendanceTypeOK

(* The parts take their values from the same few names. *)
Symmetry == Permutations(Procs) \cup Permutations(Users) \cup Permutations(Submissions)
              \cup Permutations({m \in People : Home[m] # None})
=============================================================================
