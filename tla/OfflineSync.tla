----------------------------- MODULE OfflineSync -----------------------------
(***************************************************************************)
(* Contact edits made offline: push and person of                          *)
(* src/sync/offline.service.ts.                                            *)
(*                                                                         *)
(* A device queues mutations against the snapshot it has and sends them    *)
(* until it gets an answer, so a request may arrive late, twice at once,   *)
(* or after the content under its id was changed.  A mutation is decided   *)
(* in one transaction: the advisory lock of its id, the receipt, the       *)
(* record, the conditional write, the new receipt, the commit.  The        *)
(* transactions are READ COMMITTED: each statement sees what others        *)
(* committed before it.  Meanwhile the record is edited, archived,         *)
(* restored and purged online.                                             *)
(*                                                                         *)
(* Mutation ids stand for (church, profile, id).  Members and visitors     *)
(* take the same path; form submissions are left out, and so are the       *)
(* fields: the content of a record is the number of its edition.           *)
(***************************************************************************)
EXTENDS Integers, FiniteSets

CONSTANTS
    Mutations,   \* mutation ids
    Records,     \* entity ids
    Workers,     \* concurrent transactions of push
    MaxNow,      \* bound on the clock
    MaxRequests, \* bound on the different requests a device sends
    MaxOutages,  \* bound on the infrastructure failures
    None

ASSUME OfflineAssumption ==
    /\ {MaxNow, MaxRequests, MaxOutages} \subseteq Nat
    /\ None \notin Mutations \cup Records

VARIABLES
    now,      \* wall clock
    record,   \* the members (or visitors) row of each entity id
    requests, \* what devices have sent and may send again
    receipt,  \* offline_receipts
    run,      \* the transactions of push
    answers,  \* acknowledgements that were given
    applied,  \* history: the writes mutations have made
    outages   \* infrastructure failures so far

vars == <<now, record, requests, receipt, run, answers, applied, outages>>

(* updated_at is the version; an edition is counted by every write. *)
Row(state, version, edition) ==
    [state |-> state, version |-> version, edition |-> edition]

NoPayload == [record |-> None, action |-> "create", base |-> 0, seen |-> 0]
NoReceipt == [payload |-> NoPayload, status |-> "none"]
Idle == [at |-> "idle", mutation |-> None, payload |-> NoPayload,
         found |-> Row("absent", 0, 0)]

Later(a, b) == IF a > b THEN a ELSE b

Init ==
    /\ now = 1
    /\ record \in [Records -> {Row("absent", 0, 0), Row("present", 1, 1)}]
    /\ requests = {}
    /\ receipt = [m \in Mutations |-> NoReceipt]
    /\ run = [w \in Workers |-> Idle]
    /\ answers = {}
    /\ applied = {}
    /\ outages = 0

-----------------------------------------------------------------------------
(* Devices and the online pages *)

(* The device remembers the version, and with it the content, it edits; it *)
(* invents the id of a record it creates, but may send it under two        *)
(* mutation ids, as when a conflict was resolved.                          *)
Proposal(e, action) ==
    IF action = "create"
    THEN [record |-> e, action |-> "create", base |-> 0, seen |-> 0]
    ELSE [record |-> e, action |-> "update", base |-> record[e].version,
          seen |-> record[e].edition]

Send(m, e, action) ==
    /\ record[e].state = IF action = "create" THEN "absent" ELSE "present"
    /\ Cardinality(requests) < MaxRequests
    /\ requests' = requests \cup {[mutation |-> m, payload |-> Proposal(e, action)]}
    /\ UNCHANGED <<now, record, receipt, run, answers, applied, outages>>

(* Edits, archiving and restoring stamp the row with the time; two of them *)
(* never fall into one instant of one record.                              *)
Online(e, to) ==
    /\ <<record[e].state, to>> \in
          {<<"present", "present">>, <<"present", "archived">>, <<"archived", "present">>}
    /\ now > record[e].version
    /\ record' = [record EXCEPT ![e] = Row(to, now, record[e].edition + 1)]
    /\ UNCHANGED <<now, requests, receipt, run, answers, applied, outages>>

(* The retention purge deletes inactive members, archived or not, by a list *)
(* that is older than the deletion: the row may have been written since.    *)
Purge(e) ==
    /\ record[e].state # "absent"
    /\ now > record[e].version
    /\ record' = [record EXCEPT ![e] = Row("absent", record[e].version, record[e].edition)]
    /\ UNCHANGED <<now, requests, receipt, run, answers, applied, outages>>

-----------------------------------------------------------------------------
(* push *)

(* The acknowledgement reaches the device, or it does not. *)
Acknowledge(m, payload, status) ==
    answers' \in {answers, answers \cup
                     {[mutation |-> m, payload |-> payload, status |-> status]}}

(* Missing permission, foreign or archived branch: nothing is written. *)
Refuse(req) ==
    /\ Acknowledge(req.mutation, req.payload, "rejected")
    /\ UNCHANGED <<now, record, requests, receipt, run, applied, outages>>

(* Slip: replays of one mutation run side by side. *)
SlipLockFree(m) == TRUE

LockFree(m) == \A w \in Workers : run[w].mutation # m

Decided(m) == receipt[m].status # "none"

(* The lock is taken and there is no receipt. *)
Begin(w, req) ==
    /\ run[w] = Idle
    /\ LockFree(req.mutation)
    /\ ~Decided(req.mutation)
    /\ run' = [run EXCEPT ![w] =
                  [at |-> "open", mutation |-> req.mutation, payload |-> req.payload,
                   found |-> Row("absent", 0, 0)]]
    /\ UNCHANGED <<now, record, requests, receipt, answers, applied, outages>>

(* Slip: the hash is not compared. *)
SlipSame(m, payload) == TRUE

Same(m, payload) == receipt[m].payload = payload

(* The lock is taken and the mutation was decided before. *)
Replay(req) ==
    LET m == req.mutation IN
    /\ LockFree(m)
    /\ Decided(m)
    /\ Acknowledge(m, req.payload,
                   IF Same(m, req.payload) THEN receipt[m].status ELSE "rejected")
    /\ UNCHANGED <<now, record, requests, receipt, run, applied, outages>>

(* The record is read. *)
Read(w) ==
    /\ run[w].at = "open"
    /\ run' = [run EXCEPT ![w] =
                  [at |-> "read", mutation |-> run[w].mutation,
                   payload |-> run[w].payload,
                   found |-> record[run[w].payload.record]]]
    /\ UNCHANGED <<now, record, requests, receipt, answers, applied, outages>>

(* Slip: the receipt is left to a later transaction. *)
SlipCommit(w, status) ==
    /\ receipt' = receipt
    /\ Acknowledge(run[w].mutation, run[w].payload, status)
    /\ run' = [run EXCEPT ![w] = Idle]

(* The receipt commits together with the effect. *)
Commit(w, status) ==
    LET m == run[w].mutation IN
    /\ receipt' = [receipt EXCEPT ![m] = [payload |-> run[w].payload, status |-> status]]
    /\ Acknowledge(m, run[w].payload, status)
    /\ run' = [run EXCEPT ![w] = Idle]

(* Unsupported or invalid fields, or a phone number that is taken. *)
Invalid(w, status) ==
    /\ run[w].at = "open"
    /\ status \in {"rejected", "conflict"}
    /\ Commit(w, status)
    /\ UNCHANGED <<now, record, requests, applied, outages>>

(* What the code calls existing: the row that was read, unless archived. *)
Existing(w) == run[w].found.state = "present"

Agrees(w) ==
    IF run[w].payload.action = "create"
    THEN ~Existing(w)
    ELSE Existing(w) /\ run[w].found.version = run[w].payload.base

(* Slip: the write is not conditional on the version that was read. *)
SlipWriteHits(w) ==
    IF run[w].payload.action = "create"
    THEN record[run[w].payload.record].state = "absent"
    ELSE record[run[w].payload.record].state = "present"

(* The insert finds no row of that id, the update the row that was read. *)
WriteHits(w) ==
    LET row == record[run[w].payload.record] IN
    IF run[w].payload.action = "create"
    THEN row.state = "absent"
    ELSE row.state = "present" /\ row.version = run[w].found.version

Written(row, action) ==
    Row("present",
        IF action = "create" THEN now ELSE Later(now, row.version + 1),
        row.edition + 1)

Apply(w) ==
    LET payload == run[w].payload
        e == payload.record
    IN
    /\ run[w].at = "read"
    /\ Agrees(w)
    /\ WriteHits(w)
    /\ record' = [record EXCEPT ![e] = Written(record[e], payload.action)]
    /\ applied' = applied \cup
          {[mutation |-> run[w].mutation, payload |-> payload,
            found |-> record[e].edition]}
    /\ Commit(w, "accepted")
    /\ UNCHANGED <<now, requests, outages>>

Conflict(w) ==
    /\ run[w].at = "read"
    /\ \/ ~Agrees(w)
       \/ run[w].payload.action = "update" /\ ~WriteHits(w)
    /\ Commit(w, "conflict")
    /\ UNCHANGED <<now, record, requests, applied, outages>>

(* The insert meets a row of that id, archived or just created: the key    *)
(* violation is no HttpException, so the transaction is rolled back.       *)
Collide(w) ==
    /\ run[w].at = "read"
    /\ run[w].payload.action = "create"
    /\ Agrees(w)
    /\ ~WriteHits(w)
    /\ Acknowledge(run[w].mutation, run[w].payload, "retry")
    /\ run' = [run EXCEPT ![w] = Idle]
    /\ UNCHANGED <<now, record, requests, receipt, applied, outages>>

(* The database or the process fails before the commit. *)
Fails(w) ==
    /\ run[w] # Idle
    /\ outages < MaxOutages
    /\ outages' = outages + 1
    /\ Acknowledge(run[w].mutation, run[w].payload, "retry")
    /\ run' = [run EXCEPT ![w] = Idle]
    /\ UNCHANGED <<now, record, requests, receipt, applied>>

Tick ==
    /\ now < MaxNow
    /\ now' = now + 1
    /\ UNCHANGED <<record, requests, receipt, run, answers, applied, outages>>

-----------------------------------------------------------------------------

PushStep(w) ==
    \/ \E req \in requests : Begin(w, req)
    \/ Read(w)
    \/ \E status \in {"rejected", "conflict"} : Invalid(w, status)
    \/ Apply(w)
    \/ Conflict(w)
    \/ Collide(w)
    \/ Fails(w)

Next ==
    \/ \E m \in Mutations, e \in Records, action \in {"create", "update"} :
          Send(m, e, action)
    \/ \E e \in Records : \/ \E to \in {"present", "archived"} : Online(e, to)
                          \/ Purge(e)
    \/ \E req \in requests : Refuse(req) \/ Replay(req)
    \/ \E w \in Workers : PushStep(w)
    \/ Tick

Spec == Init /\ [][Next]_vars

(* Devices send what has no answer again, and transactions come to an end. *)
FairSpec ==
    /\ Spec
    /\ \A m \in Mutations :
          SF_vars(\E w \in Workers, req \in requests :
                      req.mutation = m /\ Begin(w, req))
    /\ \A w \in Workers :
          /\ WF_vars(Read(w))
          /\ WF_vars(Apply(w) \/ Conflict(w) \/ Collide(w))

-----------------------------------------------------------------------------
(* Properties *)

RowRecord == [state : {"absent", "present", "archived"}, version : Nat, edition : Nat]
Payload == [record : Records \cup {None}, action : {"create", "update"},
            base : Nat, seen : Nat]
Request == [mutation : Mutations, payload : Payload]
Statuses == {"accepted", "conflict", "rejected", "retry"}
ReceiptRecord == [payload : Payload, status : Statuses \cup {"none"}]
RunRecord == [at : {"idle", "open", "read"}, mutation : Mutations \cup {None},
              payload : Payload, found : RowRecord]
Answer == [mutation : Mutations, payload : Payload, status : Statuses]
Effect == [mutation : Mutations, payload : Payload, found : Nat]

(* A transaction that is under way holds the lock of an undecided mutation. *)
RunOK(w) ==
    IF run[w].at = "idle" THEN run[w] = Idle
    ELSE /\ run[w].mutation \in Mutations
         /\ run[w].payload.record \in Records
         /\ ~Decided(run[w].mutation)

(* Every variable has its type; a transaction that is under way holds the   *)
(* lock of a mutation that has no receipt.                                  *)
TypeOK ==
    /\ now \in Nat
    /\ record \in [Records -> RowRecord]
    /\ requests \subseteq Request
    /\ \A req \in requests : req.payload.record \in Records
    /\ receipt \in [Mutations -> ReceiptRecord]
    /\ run \in [Workers -> RunRecord]
    /\ answers \subseteq Answer
    /\ applied \subseteq Effect
    /\ outages \in Nat
    /\ \A w \in Workers : RunOK(w)

(* "Advisory locks handle concurrent replays": a mutation id writes once,   *)
(* however often and with whatever content it is sent.                      *)
AppliedOnce == \A x, y \in applied : x.mutation = y.mutation => x = y

(* "Conditional writes compare server updated_at": an accepted update       *)
(* overwrites exactly the content its device had seen; what was edited in   *)
(* between, online or by another device, is never overwritten.              *)
NoLostUpdate ==
    \A x \in applied :
        x.payload.action = "update" => x.payload.seen = x.found

(* What a device was told stays true: accepted content has been written,    *)
(* and a mutation reported as a conflict never writes anything.             *)
AnswersAreTrue ==
    \A a \in answers :
        /\ a.status = "accepted" =>
              \E x \in applied : x.mutation = a.mutation /\ x.payload = a.payload
        /\ a.status = "conflict" => \A x \in applied : x.mutation # a.mutation

-----------------------------------------------------------------------------
(* The inductive invariant behind the safety properties *)

(* The lock of a mutation has one holder. *)
OneHolder ==
    \A w, x \in Workers :
        run[w].at # "idle" /\ run[w].mutation = run[x].mutation => w = x

(* Versions only grow, so an equal version means equal content. *)
Fits(payload) ==
    LET row == record[payload.record] IN
    payload.action = "update" =>
        /\ payload.base <= row.version
        /\ row.state # "absent" /\ payload.base = row.version =>
               payload.seen = row.edition

VersionsGrow ==
    /\ \A e \in Records : record[e].state = "absent" => record[e].version < now
    /\ \A req \in requests : Fits(req.payload)
    /\ \A w \in Workers : run[w].at # "idle" => Fits(run[w].payload)

(* The receipts tell what was applied. *)
ReceiptsTell ==
    /\ \A x \in applied :
          receipt[x.mutation] = [payload |-> x.payload, status |-> "accepted"]
    /\ \A m \in Mutations : receipt[m].status = "accepted" =>
          \E x \in applied : x.mutation = m /\ x.payload = receipt[m].payload
    /\ \A a \in answers : a.status = "conflict" => receipt[a.mutation].status = "conflict"

OfflineInv ==
    /\ OneHolder
    /\ VersionsGrow
    /\ ReceiptsTell
    /\ AppliedOnce
    /\ NoLostUpdate
    /\ AnswersAreTrue

-----------------------------------------------------------------------------
(* What the documentation claims and the code does not keep *)

(* "retry indicates a temporary/infrastructure failure and preserves the    *)
(* original mutation ID": a device that goes on sending a mutation to a     *)
(* service that goes on working is given a decision.                        *)
RetriesEnd ==
    \A m \in Mutations :
        (\E req \in requests : req.mutation = m) ~> Decided(m)
=============================================================================
