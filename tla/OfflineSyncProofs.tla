-------------------------- MODULE OfflineSyncProofs --------------------------
(***************************************************************************)
(* Proofs about OfflineSync for every number of mutations, records and     *)
(* transactions, and for every value of the bounds.                        *)
(***************************************************************************)
EXTENDS OfflineSync, TLAPS

(* What the actions build has the types of the variables. *)
LEMMA RowTyped ==
    ASSUME NEW state \in {"absent", "present", "archived"}, NEW v \in Nat, NEW d \in Nat
    PROVE  /\ Row(state, v, d) \in RowRecord
           /\ Row(state, v, d).state = state
           /\ Row(state, v, d).version = v
           /\ Row(state, v, d).edition = d
BY DEF Row, RowRecord

LEMMA NothingTyped ==
    /\ NoPayload \in Payload
    /\ NoReceipt \in ReceiptRecord
    /\ NoReceipt.status = "none"
    /\ Idle \in RunRecord
    /\ Idle.at = "idle" /\ Idle.mutation = None /\ None \notin Mutations
BY RowTyped, OfflineAssumption
   DEF NoPayload, NoReceipt, Idle, Payload, ReceiptRecord, RunRecord

-----------------------------------------------------------------------------
(* Type correctness, together with the lock: that a commit writes the       *)
(* receipt of nobody else's mutation needs OneHolder.                       *)

TypeInv == TypeOK /\ OneHolder

(* Committing: what the transaction leaves, whatever it has decided. *)
LEMMA CommitTyped ==
    ASSUME TypeInv, NEW w \in Workers, NEW status \in Statuses,
           run[w].at # "idle", Commit(w, status)
    PROVE  /\ receipt' \in [Mutations -> ReceiptRecord]
           /\ run' \in [Workers -> RunRecord]
           /\ answers' \subseteq Answer
           /\ \A x \in Workers : RunOK(x)'
           /\ OneHolder'
<1>1. run[w].mutation \in Mutations /\ run[w].payload \in Payload
  BY DEF TypeInv, TypeOK, RunOK, RunRecord
<1>2. run' = [run EXCEPT ![w] = Idle]
  BY DEF Commit
<1>3. receipt' = [receipt EXCEPT ![run[w].mutation] =
                     [payload |-> run[w].payload, status |-> status]]
  BY DEF Commit
<1>4. answers' \subseteq answers \cup
          {[mutation |-> run[w].mutation, payload |-> run[w].payload, status |-> status]}
  BY DEF Commit, Acknowledge
<1>5. receipt' \in [Mutations -> ReceiptRecord]
  BY <1>1, <1>3 DEF TypeInv, TypeOK, ReceiptRecord
<1>6. run' \in [Workers -> RunRecord]
  BY <1>2, NothingTyped DEF TypeInv, TypeOK
<1>7. answers' \subseteq Answer
  BY <1>1, <1>4 DEF TypeInv, TypeOK, Answer
<1>8. ASSUME NEW x \in Workers PROVE RunOK(x)'
  <2>1. CASE x = w
    BY <1>2, <2>1, NothingTyped DEF TypeInv, TypeOK, RunOK
  <2>2. CASE x # w
    <3>1. run'[x] = run[x]
      BY <1>2, <2>2 DEF TypeInv, TypeOK
    <3>2. run[x].at # "idle" => run[x].mutation # run[w].mutation
      BY <2>2 DEF TypeInv, OneHolder
    <3> QED BY <1>3, <3>1, <3>2 DEF TypeInv, TypeOK, RunOK, Decided
  <2> QED BY <2>1, <2>2
<1>9. OneHolder'
  BY <1>2, NothingTyped DEF TypeInv, TypeOK, OneHolder, RunOK
<1> QED BY <1>5, <1>6, <1>7, <1>8, <1>9

(* A run that is given up leaves the others as they are. *)
LEMMA GivenUpTyped ==
    ASSUME TypeInv, NEW w \in Workers, run' = [run EXCEPT ![w] = Idle],
           receipt' = receipt
    PROVE  /\ run' \in [Workers -> RunRecord]
           /\ \A x \in Workers : RunOK(x)'
           /\ OneHolder'
<1>1. run' \in [Workers -> RunRecord] /\ \A x \in Workers : RunOK(x)'
  BY NothingTyped DEF TypeInv, TypeOK, RunOK, Decided
<1>2. OneHolder'
  BY NothingTyped DEF TypeInv, TypeOK, OneHolder, RunOK
<1> QED BY <1>1, <1>2

LEMMA AnswerTyped ==
    ASSUME TypeInv, NEW m \in Mutations, NEW payload \in Payload,
           NEW status \in Statuses, Acknowledge(m, payload, status)
    PROVE  answers' \subseteq Answer
BY DEF TypeInv, TypeOK, Acknowledge, Answer

LEMMA TypeInit == Init => TypeInv
BY NothingTyped, RowTyped DEF Init, TypeInv, TypeOK, RunOK, OneHolder

LEMMA TypeStep == TypeInv /\ [Next]_vars => TypeInv'
<1> SUFFICES ASSUME TypeInv, [Next]_vars PROVE TypeInv'
  OBVIOUS
<1> USE DEF TypeInv
<1>1. ASSUME NEW m \in Mutations, NEW e \in Records, NEW action \in {"create", "update"},
             Send(m, e, action)
      PROVE  TypeInv'
  <2>1. Proposal(e, action) \in Payload /\ Proposal(e, action).record = e
    BY DEF Proposal, Payload, TypeOK, RowRecord
  <2>2. requests' \subseteq Request /\ \A req \in requests' : req.payload.record \in Records
    BY <1>1, <2>1 DEF Send, TypeOK, Request
  <2> QED BY <1>1, <2>2 DEF Send, TypeOK, RunOK, Decided, OneHolder
<1>2. ASSUME NEW e \in Records, NEW to \in {"present", "archived"}, Online(e, to)
      PROVE  TypeInv'
  <2>1. Row(to, now, record[e].edition + 1) \in RowRecord
    BY RowTyped DEF TypeOK, RowRecord
  <2> QED BY <1>2, <2>1 DEF Online, TypeOK, RunOK, Decided, OneHolder
<1>3. ASSUME NEW e \in Records, Purge(e) PROVE TypeInv'
  <2>1. Row("absent", record[e].version, record[e].edition) \in RowRecord
    BY RowTyped DEF TypeOK, RowRecord
  <2> QED BY <1>3, <2>1 DEF Purge, TypeOK, RunOK, Decided, OneHolder
<1>4. ASSUME NEW req \in requests, Refuse(req) \/ Replay(req) PROVE TypeInv'
  <2>1. req.mutation \in Mutations /\ req.payload \in Payload
    BY DEF TypeOK, Request
  <2>2. CASE Refuse(req)
    <3>1. answers' \subseteq Answer
      BY <2>1, <2>2, AnswerTyped DEF Refuse, Statuses
    <3> QED BY <2>2, <3>1 DEF Refuse, TypeOK, RunOK, Decided, OneHolder
  <2>3. CASE Replay(req)
    <3>1. receipt[req.mutation].status \in Statuses
      BY <2>1, <2>3 DEF Replay, Decided, TypeOK, ReceiptRecord
    <3>2. answers' \subseteq Answer
      BY <2>1, <2>3, <3>1, AnswerTyped DEF Replay, Statuses
    <3> QED BY <2>3, <3>2 DEF Replay, TypeOK, RunOK, Decided, OneHolder
  <2> QED BY <1>4, <2>2, <2>3
<1>5. ASSUME NEW w \in Workers, NEW req \in requests, Begin(w, req) PROVE TypeInv'
  <2> DEFINE taken == [at |-> "open", mutation |-> req.mutation, payload |-> req.payload,
                       found |-> Row("absent", 0, 0)]
  <2>1. /\ req.mutation \in Mutations /\ req.payload \in Payload
        /\ req.payload.record \in Records
    BY DEF TypeOK, Request
  <2>2. taken \in RunRecord
    BY <2>1, RowTyped DEF RunRecord
  <2>3. run' = [run EXCEPT ![w] = taken] /\ receipt' = receipt
    BY <1>5 DEF Begin
  <2>4. \A x \in Workers : RunOK(x)'
    BY <1>5, <2>1, <2>3 DEF Begin, TypeOK, RunOK, Decided
  <2>5. OneHolder'
    BY <1>5, <2>1, <2>3 DEF Begin, LockFree, TypeOK, OneHolder
  <2>6. run' \in [Workers -> RunRecord]
    BY <2>2, <2>3 DEF TypeOK
  <2> QED BY <1>5, <2>4, <2>5, <2>6 DEF Begin, TypeOK
<1>6. ASSUME NEW w \in Workers, Read(w) PROVE TypeInv'
  <2> DEFINE seen == [at |-> "read", mutation |-> run[w].mutation,
                      payload |-> run[w].payload, found |-> record[run[w].payload.record]]
  <2>1. /\ run[w].mutation \in Mutations /\ run[w].payload \in Payload
        /\ run[w].payload.record \in Records /\ ~Decided(run[w].mutation)
    BY <1>6 DEF Read, TypeOK, RunOK, RunRecord
  <2>2. seen \in RunRecord
    BY <2>1 DEF RunRecord, TypeOK
  <2>3. run' = [run EXCEPT ![w] = seen] /\ receipt' = receipt
    BY <1>6 DEF Read
  <2>4. \A x \in Workers : RunOK(x)'
    BY <2>1, <2>3 DEF TypeOK, RunOK, Decided
  <2>5. OneHolder'
    BY <1>6, <2>1, <2>3 DEF Read, TypeOK, OneHolder
  <2>6. run' \in [Workers -> RunRecord]
    BY <2>2, <2>3 DEF TypeOK
  <2> QED BY <1>6, <2>4, <2>5, <2>6 DEF Read, TypeOK
<1>7. ASSUME NEW w \in Workers, NEW status \in {"rejected", "conflict"},
             Invalid(w, status) \/ Conflict(w)
      PROVE  TypeInv'
  <2>1. PICK decision \in Statuses : Commit(w, decision)
    BY <1>7 DEF Invalid, Conflict, Statuses
  <2>2. run[w].at # "idle"
    BY <1>7 DEF Invalid, Conflict
  <2> QED BY <1>7, <2>1, <2>2, CommitTyped DEF Invalid, Conflict, TypeOK
<1>8. ASSUME NEW w \in Workers, Apply(w) PROVE TypeInv'
  <2>1. Commit(w, "accepted") /\ run[w].at # "idle" /\ "accepted" \in Statuses
    BY <1>8 DEF Apply, Statuses
  <2>2. run[w].mutation \in Mutations /\ run[w].payload \in Payload
          /\ run[w].payload.record \in Records
    BY <2>1 DEF TypeOK, RunOK, RunRecord
  <2>3. record[run[w].payload.record] \in RowRecord
    BY <2>2 DEF TypeOK
  <2>4. Written(record[run[w].payload.record], run[w].payload.action) \in RowRecord
    BY <2>3 DEF Written, Row, RowRecord, Later, TypeOK
  <2>5. record' \in [Records -> RowRecord]
    BY <1>8, <2>4 DEF Apply, TypeOK
  <2>6. applied' \subseteq Effect
    BY <1>8, <2>2, <2>3 DEF Apply, TypeOK, Effect, RowRecord
  <2> QED BY <1>8, <2>1, <2>5, <2>6, CommitTyped DEF Apply, TypeOK
<1>9. ASSUME NEW w \in Workers, Collide(w) \/ Fails(w) PROVE TypeInv'
  <2>1. run[w].at # "idle"
    BY <1>9 DEF Collide, Fails, TypeOK, RunOK
  <2>2. run[w].mutation \in Mutations /\ run[w].payload \in Payload
    BY <2>1 DEF TypeOK, RunOK, RunRecord
  <2>3. answers' \subseteq Answer
    BY <1>9, <2>2, AnswerTyped DEF Collide, Fails, Statuses
  <2> QED BY <1>9, <2>3, GivenUpTyped DEF Collide, Fails, TypeOK
<1>10. CASE Tick
  BY <1>10 DEF Tick, TypeOK, RunOK, Decided, OneHolder
<1>11. CASE UNCHANGED vars
  BY <1>11 DEF vars, TypeOK, RunOK, Decided, OneHolder
<1> QED
  BY <1>1, <1>2, <1>3, <1>4, <1>5, <1>6, <1>7, <1>8, <1>9, <1>10, <1>11
  DEF Next, PushStep

(* Every variable keeps its type, and a mutation is held by one transaction *)
(* at a time.                                                               *)
THEOREM TypeCorrect == Spec => []TypeOK
<1>1. Spec => []TypeInv
  BY TypeInit, TypeStep, PTL DEF Spec
<1> QED BY <1>1, PTL DEF TypeInv

-----------------------------------------------------------------------------
(* Versions *)

(* A row that is replaced by a younger one still fits what was proposed     *)
(* for the older one.                                                       *)
LEMMA YoungerFits ==
    ASSUME TypeInv, VersionsGrow, NEW e \in Records, NEW row \in RowRecord,
           row.state # "absent", row.version > record[e].version,
           record' = [record EXCEPT ![e] = row], now' = now,
           requests' = requests,
           \A w \in Workers : run'[w] = run[w] \/ run'[w] = Idle
    PROVE  VersionsGrow'
<1> USE DEF TypeInv
<1>1. ASSUME NEW payload \in Payload, payload.record \in Records, Fits(payload)
      PROVE  Fits(payload)'
  BY <1>1 DEF Fits, TypeOK, RowRecord, Payload
<1>2. \A f \in Records : record'[f].state = "absent" => record'[f].version < now'
  BY DEF VersionsGrow, TypeOK
<1>3. \A req \in requests' : Fits(req.payload)'
  BY <1>1 DEF VersionsGrow, TypeOK, Request
<1>4. ASSUME NEW w \in Workers, (run[w].at # "idle")' PROVE Fits(run[w].payload)'
  <2>1. run'[w] = run[w] /\ run[w].at # "idle"
    BY <1>4, NothingTyped
  <2>2. PICK payload \in Payload : payload = run[w].payload /\ payload.record \in Records
    BY <2>1 DEF TypeOK, RunOK, RunRecord
  <2>3. Fits(payload)
    BY <2>1, <2>2 DEF VersionsGrow
  <2>4. Fits(payload)'
    BY <1>1, <2>2, <2>3
  <2>5. payload = run'[w].payload
    BY <2>1, <2>2
  <2> QED BY <2>4, <2>5 DEF Fits
<1> QED BY <1>2, <1>3, <1>4 DEF VersionsGrow

(* Nothing written: only the proposals and the transactions can change. *)
LEMMA SameRowsFit ==
    ASSUME TypeInv, VersionsGrow, record' = record, now' \in {now, now + 1},
           \A req \in requests' : Fits(req.payload),
           \A w \in Workers : (run[w].at # "idle")' =>
               \/ \E x \in Workers : run[x].at # "idle" /\ run[x].payload = run'[w].payload
               \/ \E req \in requests : req.payload = run'[w].payload
    PROVE  VersionsGrow'
<1>1. ASSUME NEW payload PROVE Fits(payload)' <=> Fits(payload)
  BY DEF Fits
<1>2. \A e \in Records : (record[e].state = "absent" => record[e].version < now)'
  BY DEF TypeInv, TypeOK, RowRecord, VersionsGrow
<1>3. ASSUME NEW w \in Workers, (run[w].at # "idle")' PROVE Fits(run[w].payload)'
  <2>1. PICK payload : payload = run'[w].payload /\ Fits(payload)
    BY <1>3 DEF VersionsGrow
  <2> QED BY <1>1, <2>1 DEF Fits
<1>4. \A req \in requests' : Fits(req.payload)'
  BY <1>1
<1> QED BY <1>2, <1>3, <1>4 DEF VersionsGrow

LEMMA VersionsStep ==
    ASSUME TypeInv, VersionsGrow, [Next]_vars PROVE VersionsGrow'
<1> USE DEF TypeInv
<1>1. ASSUME NEW m \in Mutations, NEW e \in Records, NEW action \in {"create", "update"},
             Send(m, e, action)
      PROVE  VersionsGrow'
  <2>1. record[e] \in RowRecord
    BY DEF TypeOK
  <2>2. Fits(Proposal(e, action))
    BY <2>1 DEF Fits, Proposal, RowRecord
  <2>3. \A req \in requests' : Fits(req.payload)
    BY <1>1, <2>2 DEF Send, VersionsGrow
  <2> QED BY <1>1, <2>3, SameRowsFit DEF Send
<1>2. ASSUME NEW e \in Records, NEW to \in {"present", "archived"}, Online(e, to)
      PROVE  VersionsGrow'
  <2> DEFINE row == Row(to, now, record[e].edition + 1)
  <2>1. record[e] \in RowRecord /\ now \in Nat
    BY DEF TypeOK
  <2>2. /\ row \in RowRecord /\ row.state # "absent"
        /\ row.version > record[e].version
    BY <1>2, <2>1 DEF Online, Row, RowRecord
  <2>3. /\ record' = [record EXCEPT ![e] = row] /\ now' = now /\ requests' = requests
        /\ run' = run
    BY <1>2 DEF Online
  <2> HIDE DEF row
  <2> QED BY <2>2, <2>3, YoungerFits
<1>3. ASSUME NEW e \in Records, Purge(e) PROVE VersionsGrow'
  <2> DEFINE row == Row("absent", record[e].version, record[e].edition)
  <2>1. record[e] \in RowRecord /\ now \in Nat
    BY DEF TypeOK
  <2>2. row.state = "absent" /\ row.version = record[e].version /\ row.version < now
    BY <1>3, <2>1 DEF Purge, Row, RowRecord
  <2>3. /\ record' = [record EXCEPT ![e] = row] /\ now' = now /\ requests' = requests
        /\ run' = run
    BY <1>3 DEF Purge
  <2> HIDE DEF row
  <2>4. ASSUME NEW payload \in Payload, payload.record \in Records, Fits(payload)
        PROVE  Fits(payload)'
    BY <2>2, <2>3, <2>4 DEF Fits, TypeOK
  <2>5. \A f \in Records : (record[f].state = "absent" => record[f].version < now)'
    BY <2>2, <2>3 DEF VersionsGrow, TypeOK
  <2>6. \A req \in requests' : Fits(req.payload)'
    BY <2>3, <2>4 DEF VersionsGrow, TypeOK, Request
  <2>7. ASSUME NEW w \in Workers, (run[w].at # "idle")' PROVE Fits(run[w].payload)'
    <3>1. run[w].payload \in Payload /\ run[w].payload.record \in Records
            /\ Fits(run[w].payload)
      BY <2>3, <2>7 DEF TypeOK, RunOK, RunRecord, VersionsGrow
    <3>2. PICK payload \in Payload : payload = run[w].payload
      BY <3>1
    <3> QED BY <2>3, <2>4, <3>1, <3>2 DEF Fits
  <2> QED BY <2>5, <2>6, <2>7 DEF VersionsGrow
<1>4. ASSUME NEW req \in requests, Refuse(req) \/ Replay(req) PROVE VersionsGrow'
  BY <1>4, SameRowsFit DEF Refuse, Replay, VersionsGrow
<1>5. ASSUME NEW w \in Workers, NEW req \in requests, Begin(w, req) PROVE VersionsGrow'
  <2>1. ASSUME NEW x \in Workers, (run[x].at # "idle")'
        PROVE  \/ \E y \in Workers : run[y].at # "idle" /\ run[y].payload = run'[x].payload
               \/ \E r \in requests : r.payload = run'[x].payload
    <3>1. CASE x = w
      BY <1>5, <3>1 DEF Begin, TypeOK
    <3>2. CASE x # w
      BY <1>5, <2>1, <3>2 DEF Begin, TypeOK
    <3> QED BY <3>1, <3>2
  <2> QED BY <1>5, <2>1, SameRowsFit DEF Begin, VersionsGrow
<1>6. ASSUME NEW w \in Workers, Read(w) PROVE VersionsGrow'
  <2>1. ASSUME NEW x \in Workers, (run[x].at # "idle")'
        PROVE  \E y \in Workers : run[y].at # "idle" /\ run[y].payload = run'[x].payload
    BY <1>6, <2>1 DEF Read, TypeOK
  <2> QED BY <1>6, <2>1, SameRowsFit DEF Read, VersionsGrow
<1>7. ASSUME NEW w \in Workers, NEW status \in {"rejected", "conflict"},
             Invalid(w, status) \/ Conflict(w) \/ Collide(w) \/ Fails(w)
      PROVE  VersionsGrow'
  <2>1. run' = [run EXCEPT ![w] = Idle] /\ record' = record /\ now' = now
          /\ requests' = requests
    BY <1>7 DEF Invalid, Conflict, Collide, Fails, Commit
  <2>2. ASSUME NEW x \in Workers, (run[x].at # "idle")'
        PROVE  run[x].at # "idle" /\ run[x].payload = run'[x].payload
    BY <2>1, <2>2, NothingTyped DEF TypeOK
  <2> QED BY <2>1, <2>2, SameRowsFit DEF VersionsGrow
<1>8. ASSUME NEW w \in Workers, Apply(w) PROVE VersionsGrow'
  <2> DEFINE e == run[w].payload.record
             row == Written(record[e], run[w].payload.action)
  <2>1. run[w].at = "read" /\ e \in Records /\ run[w].payload.action \in {"create", "update"}
    BY <1>8 DEF Apply, TypeOK, RunOK, RunRecord, Payload
  <2>2. record[e] \in RowRecord /\ now \in Nat
    BY <2>1 DEF TypeOK
  <2>3. run[w].payload.action = "create" => record[e].version < now
    BY <1>8, <2>1 DEF Apply, WriteHits, VersionsGrow
  <2>4. /\ row \in RowRecord /\ row.state # "absent"
        /\ row.version > record[e].version
    BY <2>2, <2>3, <2>1 DEF Written, Later, Row, RowRecord
  <2>5. /\ record' = [record EXCEPT ![e] = row] /\ now' = now /\ requests' = requests
        /\ run' = [run EXCEPT ![w] = Idle]
    BY <1>8 DEF Apply, Commit
  <2>6. \A x \in Workers : run'[x] = run[x] \/ run'[x] = Idle
    BY <2>5 DEF TypeOK
  <2> HIDE DEF row, e
  <2> QED BY <2>1, <2>4, <2>5, <2>6, YoungerFits
<1>9. CASE Tick
  BY <1>9, SameRowsFit DEF Tick, VersionsGrow
<1>10. CASE UNCHANGED vars
  BY <1>10, SameRowsFit DEF vars, VersionsGrow
<1> QED
  BY <1>1, <1>2, <1>3, <1>4, <1>5, <1>6, <1>7, <1>8, <1>9, <1>10
  DEF Next, PushStep

-----------------------------------------------------------------------------
(* Receipts, answers and effects *)

HistoryInv == ReceiptsTell /\ AppliedOnce /\ NoLostUpdate /\ AnswersAreTrue

LEMMA AppliedIsAccepted ==
    ASSUME TypeInv, HistoryInv
    PROVE  \A x \in applied :
              /\ x.mutation \in Mutations
              /\ receipt[x.mutation].status = "accepted"
              /\ receipt[x.mutation].payload = x.payload
<1> TAKE x \in applied
<1>1. x.mutation \in Mutations
  BY DEF TypeInv, TypeOK, Effect
<1>2. receipt[x.mutation] = [payload |-> x.payload, status |-> "accepted"]
  BY DEF HistoryInv, ReceiptsTell
<1> QED BY <1>1, <1>2

(* No receipt, no effect: an answer is one that a receipt already gives, or *)
(* one that says nothing.                                                  *)
LEMMA AnswerKeeps ==
    ASSUME TypeInv, HistoryInv, NEW m \in Mutations, NEW payload \in Payload,
           NEW status \in Statuses, Acknowledge(m, payload, status),
           receipt' = receipt, applied' = applied,
           status \in {"rejected", "retry"}
             \/ receipt[m] = [payload |-> payload, status |-> status]
    PROVE  HistoryInv'
<1> DEFINE a == [mutation |-> m, payload |-> payload, status |-> status]
<1>1. answers' \subseteq answers \cup {a}
  BY DEF Acknowledge
<1>2. a.status = "conflict" =>
        receipt[a.mutation].status = "conflict" /\ \A x \in applied : x.mutation # a.mutation
  <2>1. status = "conflict" => receipt[m].status = "conflict"
    OBVIOUS
  <2> QED BY <2>1, AppliedIsAccepted
<1>3. a.status = "accepted" =>
        \E x \in applied : x.mutation = a.mutation /\ x.payload = a.payload
  BY DEF HistoryInv, ReceiptsTell
<1> HIDE DEF a
<1>4. ReceiptsTell'
  BY <1>1, <1>2 DEF HistoryInv, ReceiptsTell
<1>5. AnswersAreTrue'
  BY <1>1, <1>2, <1>3 DEF HistoryInv, AnswersAreTrue
<1> QED BY <1>4, <1>5 DEF HistoryInv, AppliedOnce, NoLostUpdate

(* A decision without effect: the mutation had no receipt, so no effect.    *)
LEMMA RefusalKeeps ==
    ASSUME TypeInv, HistoryInv, NEW w \in Workers, NEW status \in {"rejected", "conflict"},
           run[w].at # "idle", Commit(w, status), applied' = applied
    PROVE  HistoryInv'
<1> DEFINE m == run[w].mutation
           a == [mutation |-> m, payload |-> run[w].payload, status |-> status]
<1>1. m \in Mutations /\ receipt[m].status = "none"
  BY DEF TypeInv, TypeOK, RunOK, Decided
<1>2. \A x \in applied : x.mutation # m
  <2> HIDE DEF m
  <2> QED BY <1>1, AppliedIsAccepted
<1>3. /\ receipt' = [receipt EXCEPT ![m] = [payload |-> run[w].payload, status |-> status]]
      /\ answers' \subseteq answers \cup {a}
  BY DEF Commit, Acknowledge
<1>4. receipt'[m].status = status
  BY <1>1, <1>3 DEF TypeInv, TypeOK
<1>5. \A k \in Mutations : k # m => receipt'[k] = receipt[k]
  BY <1>3 DEF TypeInv, TypeOK
<1>6. \A x \in applied : x.mutation \in Mutations
  BY DEF TypeInv, TypeOK, Effect
<1>7. \A b \in answers : b.mutation \in Mutations /\ (b.status = "conflict" => b.mutation # m)
  BY <1>1 DEF TypeInv, TypeOK, Answer, HistoryInv, ReceiptsTell
<1>8. a.mutation = m /\ a.status = status
  OBVIOUS
<1> HIDE DEF m, a
<1>9. ReceiptsTell'
  BY <1>1, <1>2, <1>3, <1>4, <1>5, <1>6, <1>7, <1>8 DEF HistoryInv, ReceiptsTell
<1>10. AnswersAreTrue'
  BY <1>2, <1>3, <1>8 DEF HistoryInv, AnswersAreTrue
<1> QED BY <1>9, <1>10 DEF HistoryInv, AppliedOnce, NoLostUpdate

(* A write: the mutation had neither receipt nor effect, and the row is the *)
(* one its device had seen.                                                 *)
LEMMA ApplyKeeps ==
    ASSUME TypeInv, VersionsGrow, HistoryInv, NEW w \in Workers, Apply(w)
    PROVE  HistoryInv'
<1> DEFINE m == run[w].mutation
           payload == run[w].payload
           e == payload.record
           a == [mutation |-> m, payload |-> payload, status |-> "accepted"]
           x == [mutation |-> m, payload |-> payload, found |-> record[e].edition]
<1>1. run[w].at = "read" /\ Agrees(w) /\ WriteHits(w) /\ applied' = applied \cup {x}
  BY DEF Apply
<1>2. m \in Mutations /\ receipt[m].status = "none"
  BY <1>1 DEF TypeInv, TypeOK, RunOK, Decided
<1>3. \A y \in applied : y.mutation # m
  <2> HIDE DEF m
  <2> QED BY <1>2, AppliedIsAccepted
<1>4. /\ receipt' = [receipt EXCEPT ![m] = [payload |-> payload, status |-> "accepted"]]
      /\ answers' \subseteq answers \cup {a}
  BY DEF Apply, Commit, Acknowledge
<1>5. payload.action = "update" => payload.seen = record[e].edition
  BY <1>1 DEF VersionsGrow, Fits, Agrees, WriteHits
<1>6. /\ receipt'[m] = [payload |-> payload, status |-> "accepted"]
      /\ \A k \in Mutations : k # m => receipt'[k] = receipt[k]
  BY <1>2, <1>4 DEF TypeInv, TypeOK
<1>7. \A b \in answers : b.mutation \in Mutations /\ (b.status = "conflict" => b.mutation # m)
  BY <1>2 DEF TypeInv, TypeOK, Answer, HistoryInv, ReceiptsTell
<1>8. /\ a.mutation = m /\ a.payload = payload /\ a.status = "accepted"
      /\ x.mutation = m /\ x.payload = payload /\ x.found = record[e].edition
  OBVIOUS
<1> HIDE DEF m, payload, e, a, x
<1>9. ReceiptsTell'
  <2>1. \A y \in applied' :
           receipt'[y.mutation] = [payload |-> y.payload, status |-> "accepted"]
    BY <1>1, <1>3, <1>6, <1>8, AppliedIsAccepted DEF HistoryInv, ReceiptsTell
  <2>2. \A k \in Mutations : receipt'[k].status = "accepted" =>
           \E y \in applied' : y.mutation = k /\ y.payload = receipt'[k].payload
    BY <1>1, <1>6, <1>8 DEF HistoryInv, ReceiptsTell
  <2>3. \A b \in answers' : b.status = "conflict" => receipt'[b.mutation].status = "conflict"
    BY <1>4, <1>6, <1>7, <1>8 DEF HistoryInv, ReceiptsTell
  <2> QED BY <2>1, <2>2, <2>3 DEF ReceiptsTell
<1>10. AppliedOnce'
  BY <1>1, <1>3, <1>8 DEF HistoryInv, AppliedOnce
<1>11. NoLostUpdate'
  BY <1>1, <1>5, <1>8 DEF HistoryInv, NoLostUpdate
<1>12. AnswersAreTrue'
  BY <1>1, <1>4, <1>7, <1>8 DEF HistoryInv, AnswersAreTrue
<1> QED BY <1>9, <1>10, <1>11, <1>12 DEF HistoryInv

LEMMA HistoryInit == Init => VersionsGrow /\ HistoryInv
BY NothingTyped, RowTyped
   DEF Init, VersionsGrow, HistoryInv, ReceiptsTell, AppliedOnce, NoLostUpdate, AnswersAreTrue

LEMMA HistoryStep ==
    ASSUME TypeInv, VersionsGrow, HistoryInv, [Next]_vars PROVE HistoryInv'
<1> USE DEF TypeInv
<1>1. ASSUME applied' = applied, receipt' = receipt, answers' = answers
      PROVE  HistoryInv'
  BY <1>1 DEF HistoryInv, ReceiptsTell, AppliedOnce, NoLostUpdate, AnswersAreTrue
<1>2. ASSUME NEW m \in Mutations, NEW e \in Records, NEW action \in {"create", "update"},
             Send(m, e, action)
      PROVE  HistoryInv'
  BY <1>1, <1>2 DEF Send
<1>3. ASSUME NEW e \in Records, NEW to \in {"present", "archived"}, Online(e, to) \/ Purge(e)
      PROVE  HistoryInv'
  BY <1>1, <1>3 DEF Online, Purge
<1>4. ASSUME NEW req \in requests, Refuse(req) \/ Replay(req) PROVE HistoryInv'
  <2>1. req.mutation \in Mutations /\ req.payload \in Payload
    BY DEF TypeOK, Request
  <2>2. CASE Refuse(req)
    BY <2>1, <2>2, AnswerKeeps DEF Refuse, Statuses
  <2>3. CASE Replay(req) /\ Same(req.mutation, req.payload)
    <3>1. receipt[req.mutation] \in ReceiptRecord
      BY <2>1 DEF TypeOK
    <3>2. PICK status \in Statuses :
             /\ receipt[req.mutation].status = status
             /\ receipt[req.mutation] = [payload |-> req.payload, status |-> status]
      BY <2>3, <3>1 DEF Replay, Same, Decided, ReceiptRecord
    <3> QED BY <2>1, <2>3, <3>2, AnswerKeeps DEF Replay
  <2>4. CASE Replay(req) /\ ~Same(req.mutation, req.payload)
    BY <2>1, <2>4, AnswerKeeps DEF Replay, Statuses
  <2> QED BY <1>4, <2>2, <2>3, <2>4
<1>5. ASSUME NEW w \in Workers, (\E req \in requests : Begin(w, req)) \/ Read(w)
      PROVE  HistoryInv'
  BY <1>1, <1>5 DEF Begin, Read
<1>6. ASSUME NEW w \in Workers, NEW decision \in {"rejected", "conflict"},
             Invalid(w, decision) \/ Conflict(w)
      PROVE  HistoryInv'
  <2>1. PICK status \in {"rejected", "conflict"} : Commit(w, status)
    BY <1>6 DEF Invalid, Conflict
  <2> QED BY <1>6, <2>1, RefusalKeeps DEF Invalid, Conflict
<1>7. ASSUME NEW w \in Workers, Apply(w) PROVE HistoryInv'
  BY <1>7, ApplyKeeps
<1>8. ASSUME NEW w \in Workers, Collide(w) \/ Fails(w) PROVE HistoryInv'
  <2>1. run[w].at # "idle"
    BY <1>8 DEF Collide, Fails, TypeOK, RunOK
  <2>2. run[w].mutation \in Mutations /\ run[w].payload \in Payload
    BY <2>1 DEF TypeOK, RunOK, RunRecord
  <2> QED BY <1>8, <2>2, AnswerKeeps DEF Collide, Fails, Statuses
<1>9. CASE Tick
  BY <1>1, <1>9 DEF Tick
<1>10. CASE UNCHANGED vars
  BY <1>1, <1>10 DEF vars
<1> QED
  BY <1>2, <1>3, <1>4, <1>5, <1>6, <1>7, <1>8, <1>9, <1>10 DEF Next, PushStep

(* The inductive invariant: one holder of each lock, versions that only     *)
(* grow, receipts that tell what was applied.                               *)
THEOREM OfflineCorrect == Spec => []OfflineInv
<1>1. Init => TypeInv /\ VersionsGrow /\ HistoryInv
  BY TypeInit, HistoryInit
<1>2. TypeInv /\ VersionsGrow /\ HistoryInv /\ [Next]_vars
        => (TypeInv /\ VersionsGrow /\ HistoryInv)'
  BY TypeStep, VersionsStep, HistoryStep
<1>3. TypeInv /\ VersionsGrow /\ HistoryInv => OfflineInv
  BY DEF TypeInv, HistoryInv, OfflineInv
<1> QED BY <1>1, <1>2, <1>3, PTL DEF Spec

(* A mutation id writes once, whatever is replayed, whenever. *)
THEOREM AppliedOnceHolds == Spec => []AppliedOnce
BY OfflineCorrect, PTL DEF OfflineInv

(* An accepted update overwrites only what its device had seen. *)
THEOREM NoLostUpdateHolds == Spec => []NoLostUpdate
BY OfflineCorrect, PTL DEF OfflineInv

(* No answer is contradicted by what was, or will be, written. *)
THEOREM AnswersAreTrueHolds == Spec => []AnswersAreTrue
BY OfflineCorrect, PTL DEF OfflineInv
=============================================================================
