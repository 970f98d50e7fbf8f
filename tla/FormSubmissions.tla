---------------------------- MODULE FormSubmissions ----------------------------
(***************************************************************************)
(* A form, its public link and its submissions: src/forms/forms.service.ts *)
(* and the submission mutation of src/sync/offline.service.ts.             *)
(*                                                                         *)
(* There are three ways in.  A signed-in user and the holder of the public *)
(* link are checked by reads before the insert; a device's mutation holds  *)
(* an advisory lock of the form from before its checks until its insert is *)
(* committed.  No unique key backs the checks.  The limit and the unique   *)
(* field are those of a form nobody changes them of; a cloned form is a    *)
(* draft that starts over and is left out.                                 *)
(***************************************************************************)
EXTENDS Integers, FiniteSets, Requests

CONSTANTS
    Submissions, \* submissions, each used once
    Users,       \* users who may sign in or bring a device
    Values,      \* values of the unique field
    Limit,       \* submission_limit
    MaxVersion   \* bound on the writes of the form

ASSUME FormAssumption ==
    /\ Limit \in Nat \ {0}
    /\ MaxVersion \in Nat
    /\ None \notin Users \cup Procs
    /\ IsFiniteSet(Procs)

VARIABLES
    form,
    submission,
    formLock  \* the request that holds the advisory lock

formVars == <<form, submission, formLock, req>>

NoSubmission == [state |-> "none", way |-> None, by |-> None, value |-> None]

FormInit ==
    /\ form = [state |-> "none", status |-> "draft", public |-> FALSE,
               token |-> 0, version |-> 0]
    /\ submission = [s \in Submissions |-> NoSubmission]
    /\ formLock = None
    /\ ReqInit

Given == {s \in Submissions : submission[s].state # "none"}
Ways(w) == {s \in Given : submission[s].way \in w}
GivenBy(u) == {s \in Given : submission[s].by = u}
Taken == {submission[s].value : s \in Given}

(* Every write moves updated_at.  A new token is named after the write. *)
Next1 == form.version + 1
FormWrite(new) ==
    /\ form.version < MaxVersion
    /\ form' = [new EXCEPT !.version = Next1]

-----------------------------------------------------------------------------
(* The form *)

CreateForm(status, public) ==
    /\ form.state = "none"
    /\ FormWrite([state |-> "live", status |-> status, public |-> public,
                  token |-> IF public THEN Next1 ELSE 0, version |-> 0])
    /\ UNCHANGED <<submission, formLock, req>>

UpdateForm(p) ==
    /\ form.state = "live"
    /\ Begins(p, "editForm", form, None)
    /\ UNCHANGED <<form, submission, formLock>>

(* What is not given is left as it is, but for the token, which is written *)
(* back as it was read.                                                    *)
TokenFor(p, public) ==
    IF (public = TRUE \/ (public = None /\ req[p].row.public)) /\ req[p].row.token = 0
    THEN Next1 ELSE req[p].row.token

EditForm(p, status, public) ==
    /\ At(p, "editForm")
    /\ FormWrite([form EXCEPT
          !.status = IF status = None THEN @ ELSE status,
          !.public = IF public = None THEN @ ELSE public,
          !.token = TokenFor(p, public)])
    /\ Ends(p)
    /\ UNCHANGED <<submission, formLock>>

(* closeForm, and deleteForm, which does not ask. *)
CloseForm ==
    /\ form.state # "none"
    /\ FormWrite([form EXCEPT !.status = "closed"])
    /\ UNCHANGED <<submission, formLock, req>>

ReopenForm ==
    /\ form.state # "none" /\ form.status = "closed"
    /\ FormWrite([form EXCEPT !.status = "draft"])
    /\ UNCHANGED <<submission, formLock, req>>

ArchiveForm ==
    /\ form.state = "live"
    /\ FormWrite([form EXCEPT !.state = "archived"])
    /\ UNCHANGED <<submission, formLock, req>>

RestoreForm ==
    /\ form.state = "archived"
    /\ FormWrite([form EXCEPT !.state = "live"])
    /\ UNCHANGED <<submission, formLock, req>>

RegeneratePublicToken ==
    /\ form.state = "live" /\ form.public
    /\ FormWrite([form EXCEPT !.token = Next1])
    /\ UNCHANGED <<submission, formLock, req>>

-----------------------------------------------------------------------------
(* The ways in *)

Accepts == form.state # "none" /\ form.status = "published"

(* One answer for each user; neither the limit nor the unique field. *)
SubmitForm(p, u, v) ==
    /\ Accepts
    /\ GivenBy(u) = {}
    /\ Begins(p, "insert", u, v)
    /\ UNCHANGED <<form, submission, formLock>>

(* Slip: only what came through the link is counted against the limit. *)
SlipUnderLimit == Cardinality(Ways({"link"})) < Limit

UnderLimit == Cardinality(Given) < Limit

(* An archived form is still open to who kept its link. *)
SubmitByPublicToken(p, v) ==
    /\ Accepts /\ form.public /\ form.token # 0
    /\ UnderLimit
    /\ v \notin Taken
    /\ Begins(p, "insert", None, v)
    /\ UNCHANGED <<form, submission, formLock>>

Insert(p, s) ==
    /\ At(p, "insert")
    /\ submission[s].state = "none"
    /\ submission' = [submission EXCEPT ![s] =
          [state |-> "pending", way |-> IF req[p].row = None THEN "link" ELSE "account",
           by |-> req[p].row, value |-> req[p].seen]]
    /\ Ends(p)
    /\ UNCHANGED <<form, formLock>>

(* Slip: the lock is taken after the checks. *)
SlipLockFree == TRUE

LockFree == formLock = None

(* The device sent the version of the form it had; an edit since refuses.  *)
SubmitOffline(p, u, v) ==
    /\ LockFree
    /\ form.state = "live" /\ Accepts
    /\ GivenBy(u) = {}
    /\ UnderLimit
    /\ v \notin Taken
    /\ Begins(p, "commit", u, v)
    /\ formLock' = p
    /\ UNCHANGED <<form, submission>>

Commit(p, s) ==
    /\ At(p, "commit")
    /\ submission[s].state = "none"
    /\ submission' = [submission EXCEPT ![s] =
          [state |-> "pending", way |-> "device", by |-> req[p].row, value |-> req[p].seen]]
    /\ formLock' = None
    /\ Ends(p)
    /\ UNCHANGED <<form>>

(* Two reviewers may both find it pending: the later answer stays. *)
UpdateSubmissionStatus(p, s) ==
    /\ submission[s].state = "pending"
    /\ Begins(p, "review", s, None)
    /\ UNCHANGED <<form, submission, formLock>>

Review(p, answer) ==
    /\ At(p, "review")
    /\ submission' = [submission EXCEPT ![req[p].row].state = answer]
    /\ Ends(p)
    /\ UNCHANGED <<form, formLock>>

(* A transaction that dies is rolled back and its lock is released. *)
FormDies(p) ==
    /\ Dies(p)
    /\ formLock' = IF formLock = p THEN None ELSE formLock
    /\ UNCHANGED <<form, submission>>

FormNext ==
    \/ \E s \in {"draft", "published"}, b \in BOOLEAN : CreateForm(s, b)
    \/ CloseForm \/ ReopenForm \/ ArchiveForm \/ RestoreForm \/ RegeneratePublicToken
    \/ \E p \in Procs :
          \/ UpdateForm(p) \/ FormDies(p)
          \/ \E s \in {"published", None}, b \in BOOLEAN \cup {None} : EditForm(p, s, b)
          \/ \E v \in Values :
                \/ SubmitByPublicToken(p, v)
                \/ \E u \in Users : SubmitForm(p, u, v) \/ SubmitOffline(p, u, v)
          \/ \E s \in Submissions :
                Insert(p, s) \/ Commit(p, s) \/ UpdateSubmissionStatus(p, s)
          \/ \E answer \in {"approved", "rejected"} : Review(p, answer)

FormSpec == FormInit /\ [][FormNext]_formVars

-----------------------------------------------------------------------------
FormTypeOK ==
    /\ form.state \in {"none", "live", "archived"}
    /\ form.token \in 0..form.version
    /\ form.version \in 0..MaxVersion
    /\ \A s \in Given :
          /\ submission[s].state \in {"pending", "approved", "rejected"}
          /\ submission[s].by = None <=> submission[s].way = "link"
    /\ formLock = None \/ At(formLock, "commit")

(* Devices are serialised by the lock of the form (submission): whatever   *)
(* the other two ways do meanwhile, those that came from devices never     *)
(* exceed the limit, and no user and no value of the unique field is among *)
(* them twice.                                                             *)
DevicesAreSerialised ==
    /\ Cardinality(Ways({"device"})) <= Limit
    /\ \A s, t \in Ways({"device"}) :
          s # t => submission[s].by # submission[t].by
                   /\ submission[s].value # submission[t].value

(* The limit is compared with a count taken before the insert and without  *)
(* the lock (submitByPublicToken), so it can be passed, but by no more     *)
(* than the requests that were in progress at once: those that have to     *)
(* keep it are never more than the limit and one for every other request.  *)
LimitFollowsRaces ==
    Cardinality(Ways({"link", "device"}))
        + Cardinality(Waiting("insert", None) \cup {p \in Procs : At(p, "commit")})
        <= Limit - 1 + Cardinality(Procs)

(* However the three ways of submitting interleave, the devices keep the   *)
(* limit among themselves and all of them pass it only as far as requests  *)
(* overlap (submission, submitByPublicToken).                              *)
LimitsHold == DevicesAreSerialised /\ LimitFollowsRaces
=============================================================================
