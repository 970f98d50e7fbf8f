-------------------------- MODULE CompanyEmailProofs --------------------------
(***************************************************************************)
(* Proofs about CompanyEmail for every set of messages and runs and for    *)
(* every choice of limits that satisfies TimingAssumption.                 *)
(***************************************************************************)
EXTENDS CompanyEmail, TLAPS

LEMMA Limits ==
    /\ MaxAttempts \in Nat /\ RetryWindow \in Nat /\ Lease \in Nat /\ Page \in Nat
    /\ Pause \in Nat /\ SendLimit \in Nat /\ WireLimit \in Nat /\ KeyLife \in Nat
    /\ MaxNow \in Nat
    /\ MaxAttempts > 0 /\ RetryWindow > 0
    /\ Scanner \in Workers
    /\ None \notin Mails /\ None \notin Nat
BY EmailAssumption

-----------------------------------------------------------------------------
(* Type correctness.  That the delay of an attempt is defined needs the     *)
(* number of attempts the run has read, so it rests on CopiesAreOld.        *)

LEMMA TypeInit == Init => TypeOK
<1> SUFFICES ASSUME Init PROVE TypeOK
  OBVIOUS
<1>1. NoMail \in MailRecord
  BY Limits DEF NoMail, MailRecord, Time
<1>2. Idle \in RunRecord
  BY Limits, <1>1 DEF Idle, RunRecord, Time
<1> QED
  BY Limits, <1>1, <1>2 DEF Init, TypeOK, Time, NoMail, Idle

(* Reading the clock and entering a step. *)
LEMMA StepTyped ==
    ASSUME TypeOK, NEW at \in {"read", "claim", "expire", "sending"}, NEW m \in Mails,
           NEW row \in MailRecord, NEW token \in Nat \cup {None}
    PROVE  Step(at, m, row, token) \in RunRecord
BY DEF Step, RunRecord, TypeOK, Time

(* Going idle, or changing only the run's own record, keeps the runs typed. *)
LEMMA RunTyped ==
    ASSUME TypeOK, NEW w \in Workers, NEW r \in RunRecord,
           r.at # "idle" => r.mail \in Mails, run' = [run EXCEPT ![w] = r]
    PROVE  /\ run' \in [Workers -> RunRecord]
           /\ \A x \in Workers : run'[x].at # "idle" => run'[x].mail \in Mails
BY DEF TypeOK

LEMMA IdleTyped == Idle \in RunRecord /\ Idle.at = "idle"
BY Limits DEF Idle, NoMail, RunRecord, MailRecord, Time

(* A row replaced by a typed one keeps the rows typed. *)
LEMMA MailTyped ==
    ASSUME TypeOK, NEW m \in Mails, NEW row \in MailRecord,
           row.token # None <=> row.leaseUntil # 0,
           row.token # None <=> row.status = "sending",
           mail' = [mail EXCEPT ![m] = row]
    PROVE  /\ mail' \in [Mails -> MailRecord]
           /\ \A k \in Mails :
                 /\ mail'[k].token # None <=> mail'[k].leaseUntil # 0
                 /\ mail'[k].token # None <=> mail'[k].status = "sending"
BY DEF TypeOK

LEMMA GivesUpTyped ==
    ASSUME TypeOK, NEW w \in Workers, GivesUp(w)
    PROVE  /\ late' \subseteq LateRecord
           /\ \A call \in late' : call \in late \/
                 /\ run[w].at = "sending" /\ ~run[w].taken
                 /\ call = [mail |-> run[w].mail, by |-> run[w].time + WireLimit]
<1>1. CASE run[w].at = "sending" /\ ~run[w].taken
  <2>1. [mail |-> run[w].mail, by |-> run[w].time + WireLimit] \in LateRecord
    BY <1>1, Limits DEF TypeOK, RunRecord, LateRecord, Time
  <2> QED
    BY <1>1, <2>1 DEF GivesUp, TypeOK
<1>2. CASE ~(run[w].at = "sending" /\ ~run[w].taken)
  BY <1>2 DEF GivesUp, TypeOK
<1> QED
  BY <1>1, <1>2

LEMMA TypeStep ==
    ASSUME TypeOK, CopiesAreOld, [Next]_vars PROVE TypeOK'
<1>1. ASSUME NEW m \in Mails, Enqueue(m) PROVE TypeOK'
  <2> DEFINE row == [status |-> "pending", attempts |-> 0, available |-> now,
                     token |-> None, leaseUntil |-> 0, first |-> 0]
  <2>1. row \in MailRecord /\ row.token = None /\ row.leaseUntil = 0 /\ row.status # "sending"
    BY DEF MailRecord, Time, TypeOK
  <2>2. mail' = [mail EXCEPT ![m] = row]
    BY <1>1 DEF Enqueue
  <2> HIDE DEF row
  <2>3. /\ mail' \in [Mails -> MailRecord]
        /\ \A k \in Mails :
              /\ mail'[k].token # None <=> mail'[k].leaseUntil # 0
              /\ mail'[k].token # None <=> mail'[k].status = "sending"
    BY <2>1, <2>2, MailTyped
  <2> QED
    BY <1>1, <2>3 DEF Enqueue, TypeOK
<1>2. ASSUME NEW w \in Workers, NEW m \in Mails, Read(w, m) PROVE TypeOK'
  <2> DEFINE r == Step("read", m, mail[m], None)
  <2>1. r \in RunRecord /\ r.mail = m
    BY StepTyped DEF TypeOK, Step
  <2>2. run' = [run EXCEPT ![w] = r] /\ batch' \subseteq batch
    BY <1>2 DEF Read
  <2>3. UNCHANGED <<now, mail, late, copies, keyed>>
    BY <1>2 DEF Read
  <2> HIDE DEF r
  <2>4. /\ run' \in [Workers -> RunRecord]
        /\ \A x \in Workers : run'[x].at # "idle" => run'[x].mail \in Mails
    BY <2>1, <2>2, RunTyped
  <2> QED
    BY <2>2, <2>3, <2>4 DEF TypeOK
<1>3. ASSUME NEW w \in Workers, Decide(w) PROVE TypeOK'
  <2> DEFINE r == IF ~Open(run[w].row) \/ ~DueAt(run[w].row, now) THEN Idle
                  ELSE Step(IF Spent(run[w].row) THEN "expire" ELSE "claim",
                            run[w].mail, run[w].row, None)
  <2>1. run[w] \in RunRecord /\ run[w].mail \in Mails /\ run[w].row \in MailRecord
    BY <1>3 DEF Decide, TypeOK, RunRecord
  <2>2. r \in RunRecord /\ (r.at # "idle" => r.mail \in Mails)
    BY <2>1, StepTyped, IdleTyped DEF Step
  <2>3. run' = [run EXCEPT ![w] = r] /\ UNCHANGED <<now, mail, batch, late, copies, keyed>>
    BY <1>3 DEF Decide
  <2> HIDE DEF r
  <2>4. /\ run' \in [Workers -> RunRecord]
        /\ \A x \in Workers : run'[x].at # "idle" => run'[x].mail \in Mails
    BY <2>2, <2>3, RunTyped
  <2> QED
    BY <2>3, <2>4 DEF TypeOK
<1>4. ASSUME NEW w \in Workers, run' = [run EXCEPT ![w] = Idle] 
      PROVE  /\ run' \in [Workers -> RunRecord]
             /\ \A x \in Workers : run'[x].at # "idle" => run'[x].mail \in Mails
  BY <1>4, IdleTyped, RunTyped
<1>5. ASSUME NEW w \in Workers, NEW status \in {"pending", "sent", "failed"},
             NEW available \in Nat, run[w].at # "idle",
             mail' = [mail EXCEPT ![run[w].mail] =
                         Settled(mail[run[w].mail], status, available)]
      PROVE  /\ mail' \in [Mails -> MailRecord]
             /\ \A k \in Mails :
                   /\ mail'[k].token # None <=> mail'[k].leaseUntil # 0
                   /\ mail'[k].token # None <=> mail'[k].status = "sending"
  <2> DEFINE m == run[w].mail
             row == Settled(mail[m], status, available)
  <2>1. m \in Mails /\ mail[m] \in MailRecord
    BY <1>5 DEF TypeOK
  <2>2. row \in MailRecord /\ row.token = None /\ row.leaseUntil = 0 /\ row.status # "sending"
    BY <2>1 DEF Settled, MailRecord, Time
  <2>3. mail' = [mail EXCEPT ![m] = row]
    BY <1>5
  <2> HIDE DEF m, row
  <2> QED
    BY <2>1, <2>2, <2>3, MailTyped
<1>6. ASSUME NEW w \in Workers, Expire(w) PROVE TypeOK'
  <2>1. run' = [run EXCEPT ![w] = Idle] /\ UNCHANGED <<now, batch, late, copies, keyed>>
    BY <1>6 DEF Expire
  <2>2. mail[run[w].mail].available \in Nat /\ run[w].at # "idle"
    BY <1>6 DEF Expire, TypeOK, MailRecord, Time
  <2>3. CASE Expirable(w)
    BY <1>4, <1>5, <1>6, <2>1, <2>2, <2>3 DEF Expire, TypeOK
  <2>4. CASE ~Expirable(w)
    BY <1>4, <1>6, <2>1, <2>4 DEF Expire, TypeOK
  <2> QED
    BY <2>3, <2>4
<1>7. ASSUME NEW w \in Workers, Claim(w) PROVE TypeOK'
  <2> DEFINE m == run[w].mail
             row == Leased(mail[m], run[w].row, run[w].time)
             r == Step("sending", m, run[w].row, mail[m].attempts + 1)
  <2>1. m \in Mails /\ mail[m] \in MailRecord /\ run[w].row \in MailRecord /\ run[w].time \in Nat
    BY <1>7 DEF Claim, TypeOK, RunRecord, Time
  <2>2. row \in MailRecord /\ row.token # None /\ row.leaseUntil # 0 /\ row.status = "sending"
    BY <2>1, Limits, TimingAssumption DEF Leased, FirstAttempt, MailRecord, Time
  <2>3. r \in RunRecord /\ r.mail \in Mails
    <3>1. mail[m].attempts + 1 \in Nat
      BY <2>1 DEF MailRecord
    <3> QED
      BY <2>1, <3>1, StepTyped DEF Step
  <2>4. /\ mail' = [mail EXCEPT ![m] = row] /\ run' = [run EXCEPT ![w] = r]
        /\ UNCHANGED <<now, batch, late, copies, keyed>>
    BY <1>7 DEF Claim
  <2> HIDE DEF r, row
  <2>5. /\ run' \in [Workers -> RunRecord]
        /\ \A x \in Workers : run'[x].at # "idle" => run'[x].mail \in Mails
    BY <2>3, <2>4, RunTyped
  <2>6. /\ mail' \in [Mails -> MailRecord]
        /\ \A k \in Mails :
              /\ mail'[k].token # None <=> mail'[k].leaseUntil # 0
              /\ mail'[k].token # None <=> mail'[k].status = "sending"
    BY <2>1, <2>2, <2>4, MailTyped
  <2> QED
    BY <2>4, <2>5, <2>6 DEF TypeOK
<1>8. ASSUME NEW w \in Workers, ClaimLost(w) PROVE TypeOK'
  BY <1>4, <1>8 DEF ClaimLost, TypeOK
<1>9. ASSUME NEW w \in Workers, Confirmed(w) PROVE TypeOK'
  BY <1>9 DEF Confirmed, TypeOK, RunRecord
<1>10. ASSUME NEW w \in Workers, Unconfirmed(w) PROVE TypeOK'
  <2>1. late' \subseteq LateRecord
    BY <1>10, GivesUpTyped DEF Unconfirmed
  <2> QED
    BY <1>10, <2>1 DEF Unconfirmed, TypeOK, RunRecord
<1>11. ASSUME NEW w \in Workers, SettleSent(w) PROVE TypeOK'
  <2>1. run' = [run EXCEPT ![w] = Idle] /\ UNCHANGED <<now, batch, late, copies, keyed>>
    BY <1>11 DEF SettleSent
  <2>2. mail[run[w].mail].available \in Nat /\ run[w].at # "idle"
    BY <1>11 DEF SettleSent, TypeOK, MailRecord, Time
  <2>3. CASE HoldsLease(w)
    BY <1>4, <1>5, <1>11, <2>1, <2>2, <2>3 DEF SettleSent, TypeOK
  <2>4. CASE ~HoldsLease(w)
    BY <1>4, <1>11, <2>1, <2>4 DEF SettleSent, TypeOK
  <2> QED
    BY <2>3, <2>4
<1>12. ASSUME NEW w \in Workers, SettleRetry(w) PROVE TypeOK'
  <2> DEFINE n == run[w].row.attempts + 1
             status == IF n >= MaxAttempts THEN "failed" ELSE "pending"
  <2>1. run' = [run EXCEPT ![w] = Idle] /\ UNCHANGED <<now, batch, late, copies, keyed>>
    BY <1>12 DEF SettleRetry
  <2>2. n \in 1..MaxAttempts /\ run[w].at # "idle"
    BY <1>12, Limits DEF SettleRetry, CopiesAreOld, Calling, TypeOK, RunRecord, MailRecord
  <2>3. now + Backoff[n] \in Nat
    <3> HIDE DEF n
    <3>1. now \in Nat /\ Backoff[n] \in Nat
      BY <2>2, EmailAssumption DEF TypeOK, Time
    <3> QED
      BY <3>1
  <2>4. CASE HoldsLease(w)
    <3>1. mail' = [mail EXCEPT ![run[w].mail] =
                      Settled(mail[run[w].mail], status, now + Backoff[n])]
      BY <1>12, <2>4 DEF SettleRetry, Retried
    <3>2. status \in {"pending", "sent", "failed"}
      OBVIOUS
    <3> HIDE DEF status, n
    <3> QED
      BY <1>4, <1>5, <2>1, <2>2, <2>3, <3>1, <3>2 DEF TypeOK
  <2>5. CASE ~HoldsLease(w)
    BY <1>4, <1>12, <2>1, <2>5 DEF SettleRetry, TypeOK
  <2> QED
    BY <2>4, <2>5
<1>13. ASSUME NEW w \in Workers, Stops(w) PROVE TypeOK'
  <2>1. late' \subseteq LateRecord /\ batch' \subseteq batch
    BY <1>13, GivesUpTyped DEF Stops
  <2> QED
    BY <1>4, <1>13, <2>1 DEF Stops, TypeOK
<1>14. ASSUME NEW m \in Mails, Takes(m) PROVE copies' \in [Mails -> Nat] /\ keyed' \in [Mails -> Time]
  BY <1>14 DEF Takes, TypeOK, Time
<1>15. ASSUME NEW w \in Workers, ProviderTakes(w) PROVE TypeOK'
  <2>1. run[w].mail \in Mails
    BY <1>15 DEF ProviderTakes, TypeOK
  <2> QED
    BY <1>14, <1>15, <2>1 DEF ProviderTakes, TypeOK, RunRecord
<1>16. ASSUME NEW call \in late, ProviderTakesLate(call) \/ ProviderLoses(call) PROVE TypeOK'
  <2>1. call.mail \in Mails
    BY DEF TypeOK, LateRecord
  <2> QED
    BY <1>14, <1>16, <2>1 DEF ProviderTakesLate, ProviderLoses, TypeOK
<1>17. ASSUME NEW page \in SUBSET Mails, Scan(page) PROVE TypeOK'
  BY <1>17 DEF Scan, TypeOK
<1>18. CASE Tick
  BY <1>18 DEF Tick, TypeOK, Time
<1>19. CASE UNCHANGED vars
  BY <1>19 DEF vars, TypeOK
<1> QED
  BY <1>1, <1>2, <1>3, <1>6, <1>7, <1>8, <1>9, <1>10, <1>11, <1>12, <1>13, <1>15, <1>16,
     <1>17, <1>18, <1>19 DEF Next, Dispatch

-----------------------------------------------------------------------------
(* The invariant of the outbox *)

LEMMA MailInit == Init => MailInv
<1> SUFFICES ASSUME Init PROVE MailInv
  OBVIOUS
<1>1. \A w \in Workers : run[w].at = "idle"
  BY DEF Init, Idle
<1>2. \A m \in Mails : /\ mail[m].token = None /\ mail[m].attempts = 0 /\ mail[m].first = 0
                       /\ mail[m].status = "none" /\ copies[m] = 0 /\ keyed[m] = 0
  BY DEF Init, NoMail
<1>3. now = 1 /\ late = {}
  BY DEF Init
<1> QED
  BY <1>1, <1>2, <1>3, Limits DEF MailInv, CopiesAreOld, OutdatedIsBlocked, StepsInTime,
     SendersHoldLease, TokensDiffer, Calling, KeysFollowFirst, LateInWindow, AcceptedWasSent,
     NoDuplicateDelivery, SentWasAccepted, RetriesStop

(* The numbers in a well-typed state. *)
LEMMA Numbers ==
    ASSUME TypeOK
    PROVE  /\ now \in Nat
           /\ \A m \in Mails :
                 /\ mail[m].attempts \in Nat /\ mail[m].available \in Nat
                 /\ mail[m].leaseUntil \in Nat /\ mail[m].first \in Nat
                 /\ mail[m].token \in Nat \cup {None}
                 /\ copies[m] \in Nat /\ keyed[m] \in Nat
           /\ \A w \in Workers :
                 /\ run[w].time \in Nat /\ run[w].row.attempts \in Nat
                 /\ run[w].row.leaseUntil \in Nat /\ run[w].row.first \in Nat
                 /\ run[w].row.available \in Nat
                 /\ run[w].row.token \in Nat \cup {None}
                 /\ run[w].token \in Nat \cup {None}
                 /\ run[w].at # "idle" => run[w].mail \in Mails
           /\ \A call \in late : call.by \in Nat /\ call.mail \in Mails
BY DEF TypeOK, MailRecord, RunRecord, LateRecord, Time

(* A run that ends without touching the row, its request perhaps on the way. *)
LEMMA RunEnds ==
    ASSUME TypeOK, MailInv, NEW w \in Workers, run' = [run EXCEPT ![w] = Idle],
           GivesUp(w) \/ late' = late, UNCHANGED <<now, mail, copies, keyed>>
    PROVE  MailInv'
<1>1. \A x \in Workers : run'[x].at # "idle" => run'[x] = run[x]
  BY DEF TypeOK, Idle
<1>2. ASSUME NEW call \in late', call \notin late
      PROVE  /\ run[w].at = "sending" /\ ~run[w].taken
             /\ call = [mail |-> run[w].mail, by |-> run[w].time + WireLimit]
  BY <1>2, GivesUpTyped
<1>3. CopiesAreOld'
  BY <1>1 DEF MailInv, CopiesAreOld, Calling
<1>4. OutdatedIsBlocked'
  BY <1>1 DEF MailInv, OutdatedIsBlocked, Outdated, LatestClaim, DueAt, Open
<1>5. StepsInTime'
  BY <1>1, <1>2 DEF MailInv, StepsInTime
<1>6. SendersHoldLease'
  BY <1>1 DEF MailInv, SendersHoldLease
<1>7. TokensDiffer'
  BY <1>1 DEF MailInv, TokensDiffer, Calling
<1>8. LateInWindow'
  <2> SUFFICES ASSUME NEW call \in late'
               PROVE  /\ mail[call.mail].first # 0
                      /\ call.by < mail[call.mail].first + RetryWindow + Pause + WireLimit
    BY DEF LateInWindow
  <2>1. CASE call \in late
    BY <2>1 DEF MailInv, LateInWindow
  <2>2. CASE call \notin late
    BY <1>2, <2>2, Numbers, Limits DEF MailInv, SendersHoldLease
  <2> QED
    BY <2>1, <2>2
<1>9. AcceptedWasSent' /\ RetriesStop'
  BY <1>1 DEF MailInv, AcceptedWasSent, RetriesStop
<1>10. KeysFollowFirst' /\ NoDuplicateDelivery' /\ SentWasAccepted'
  BY DEF MailInv, KeysFollowFirst, NoDuplicateDelivery, SentWasAccepted
<1> QED
  BY <1>3, <1>4, <1>5, <1>6, <1>7, <1>8, <1>9, <1>10 DEF MailInv

(* The lease of a message that somebody is sending has not run out, so no   *)
(* other run can claim the row, give it up or settle it.                    *)
LEMMA LeaseOutlastsCall ==
    ASSUME TypeOK, MailInv, NEW x \in Workers, run[x].at = "sending"
    PROVE  /\ mail[run[x].mail].leaseUntil > now
           /\ mail[run[x].mail].token = run[x].token
           /\ run[x].token # None
BY Numbers, Limits DEF MailInv, SendersHoldLease, StepsInTime, TokensDiffer, Calling

LEMMA MailRead ==
    ASSUME TypeOK, MailInv, NEW w \in Workers, NEW m \in Mails, Read(w, m)
    PROVE  MailInv'
<1> DEFINE r == Step("read", m, mail[m], None)
<1>1. /\ r.at = "read" /\ r.mail = m /\ r.row = mail[m] /\ r.time = now
  BY DEF Step
<1>2. /\ run[w] = Idle /\ mail[m].status # "none" /\ run' = [run EXCEPT ![w] = r]
      /\ UNCHANGED <<now, mail, late, copies, keyed>>
  BY DEF Read
<1> HIDE DEF r
<1>3. run'[w] = r /\ \A x \in Workers : x # w => run'[x] = run[x]
  BY <1>2 DEF TypeOK
<1>4. CopiesAreOld'
  <2>1. /\ mail[m].attempts <= mail[m].attempts
        /\ mail[m].token # None => mail[m].token <= mail[m].attempts /\ mail[m].leaseUntil # 0
    BY Numbers DEF MailInv, TokensDiffer, TypeOK
  <2> QED
    BY <1>1, <1>2, <1>3, <2>1 DEF MailInv, CopiesAreOld, Calling
<1>5. OutdatedIsBlocked'
  BY <1>1, <1>2, <1>3 DEF MailInv, OutdatedIsBlocked, Outdated, LatestClaim, DueAt, Open
<1>6. StepsInTime'
  BY <1>1, <1>2, <1>3, Numbers, Limits DEF MailInv, StepsInTime
<1>7. SendersHoldLease' /\ TokensDiffer' /\ AcceptedWasSent' /\ RetriesStop'
  BY <1>1, <1>2, <1>3 DEF MailInv, SendersHoldLease, TokensDiffer, Calling, AcceptedWasSent,
     RetriesStop
<1>8. LateInWindow' /\ KeysFollowFirst' /\ NoDuplicateDelivery' /\ SentWasAccepted'
  BY <1>2 DEF MailInv, LateInWindow, KeysFollowFirst, NoDuplicateDelivery, SentWasAccepted
<1> QED
  BY <1>4, <1>5, <1>6, <1>7, <1>8 DEF MailInv

LEMMA MailDecide ==
    ASSUME TypeOK, MailInv, NEW w \in Workers, Decide(w)
    PROVE  MailInv'
<1> DEFINE row == run[w].row
           r == Step(IF Spent(row) THEN "expire" ELSE "claim", run[w].mail, row, None)
<1>1. CASE ~Open(row) \/ ~DueAt(row, now)
  BY <1>1, RunEnds DEF Decide
<1>2. CASE Open(row) /\ DueAt(row, now)
  <2>1. /\ r.at \in {"claim", "expire"} /\ r.mail = run[w].mail /\ r.row = row /\ r.time = now
        /\ r.at = "claim" => ~Spent(row)
    BY DEF Step
  <2>2. /\ run[w].at = "read" /\ run' = [run EXCEPT ![w] = r]
        /\ UNCHANGED <<now, mail, late, copies, keyed>>
    BY <1>2 DEF Decide
  <2> HIDE DEF r
  <2>3. run'[w] = r /\ \A x \in Workers : x # w => run'[x] = run[x]
    BY <2>2 DEF TypeOK
  <2>4. /\ r.at = "claim" => row.attempts < MaxAttempts
        /\ r.at = "claim" /\ row.first # 0 => now - row.first < RetryWindow
    BY <2>1, Numbers, Limits DEF Spent
  <2>5. CopiesAreOld'
    BY <1>2, <2>1, <2>2, <2>3, <2>4 DEF MailInv, CopiesAreOld, Calling, DueAt
  <2>6. OutdatedIsBlocked'
    <3>1. now <= run[w].time + Pause
      BY <2>2 DEF MailInv, StepsInTime
    <3>2. run[w].mail \in Mails
      BY <2>2, Numbers
    <3>3. IF run[w].row.attempts # mail[run[w].mail].attempts
          THEN ~Open(mail[run[w].mail]) \/ ~DueAt(mail[run[w].mail], run[w].time + Pause)
          ELSE run[w].row.first = mail[run[w].mail].first
      BY <2>2 DEF MailInv, OutdatedIsBlocked, Outdated, LatestClaim
    <3>4. ~DueAt(mail[run[w].mail], run[w].time + Pause) => ~DueAt(mail[run[w].mail], now)
      BY <3>1, <3>2, Numbers, Limits DEF DueAt
    <3>5. \A x \in Workers : x # w /\ run[x].at \in {"read", "claim"} =>
             IF run[x].row.attempts # mail[run[x].mail].attempts
             THEN ~Open(mail[run[x].mail]) \/ ~DueAt(mail[run[x].mail], LatestClaim(x))
             ELSE run[x].row.first = mail[run[x].mail].first
      BY DEF MailInv, OutdatedIsBlocked, Outdated
    <3> QED
      BY <2>1, <2>2, <2>3, <3>3, <3>4, <3>5
         DEF OutdatedIsBlocked, Outdated, LatestClaim, DueAt, Open
  <2>7. StepsInTime'
    BY <2>1, <2>2, <2>3, <2>4, Numbers, Limits DEF MailInv, StepsInTime
  <2>8. SendersHoldLease' /\ TokensDiffer' /\ AcceptedWasSent' /\ RetriesStop'
    BY <2>1, <2>2, <2>3 DEF MailInv, SendersHoldLease, TokensDiffer, Calling, AcceptedWasSent,
       RetriesStop
  <2>9. LateInWindow' /\ KeysFollowFirst' /\ NoDuplicateDelivery' /\ SentWasAccepted'
    BY <2>2 DEF MailInv, LateInWindow, KeysFollowFirst, NoDuplicateDelivery, SentWasAccepted
  <2> QED
    BY <2>5, <2>6, <2>7, <2>8, <2>9 DEF MailInv
<1> QED
  BY <1>1, <1>2

(* The answer of the provider, or the end of waiting for it. *)
LEMMA MailAnswered ==
    ASSUME TypeOK, MailInv, NEW w \in Workers, Confirmed(w) \/ Unconfirmed(w)
    PROVE  MailInv'
<1>1. /\ run[w].at = "sending" /\ UNCHANGED <<now, mail, copies, keyed>>
      /\ GivesUp(w) \/ late' = late
  BY DEF Confirmed, Unconfirmed
<1>2. /\ run'[w].at \in {"confirmed", "unconfirmed"}
      /\ run'[w].at = "confirmed" => run[w].taken
      /\ run'[w].mail = run[w].mail /\ run'[w].row = run[w].row
      /\ run'[w].time = run[w].time /\ run'[w].token = run[w].token
      /\ run'[w].taken = run[w].taken
  BY DEF Confirmed, Unconfirmed, Accepted, TypeOK, RunRecord
<1>3. \A x \in Workers : x # w => run'[x] = run[x]
  BY DEF Confirmed, Unconfirmed, TypeOK
<1>4. ASSUME NEW call \in late', call \notin late
      PROVE  /\ run[w].at = "sending" /\ ~run[w].taken
             /\ call = [mail |-> run[w].mail, by |-> run[w].time + WireLimit]
  BY <1>1, <1>4, GivesUpTyped
<1>5. CopiesAreOld'
  BY <1>1, <1>2, <1>3 DEF MailInv, CopiesAreOld, Calling
<1>6. OutdatedIsBlocked'
  BY <1>1, <1>2, <1>3 DEF MailInv, OutdatedIsBlocked, Outdated, LatestClaim, DueAt, Open
<1>7. StepsInTime'
  BY <1>1, <1>2, <1>3, <1>4 DEF MailInv, StepsInTime
<1>8. SendersHoldLease' /\ TokensDiffer'
  BY <1>1, <1>2, <1>3 DEF MailInv, SendersHoldLease, TokensDiffer, Calling
<1>9. AcceptedWasSent' /\ RetriesStop'
  BY <1>1, <1>2, <1>3 DEF MailInv, AcceptedWasSent, RetriesStop
<1>10. LateInWindow'
  <2> SUFFICES ASSUME NEW call \in late'
               PROVE  /\ mail[call.mail].first # 0
                      /\ call.by < mail[call.mail].first + RetryWindow + Pause + WireLimit
    BY <1>1 DEF LateInWindow
  <2>1. CASE call \in late
    BY <2>1 DEF MailInv, LateInWindow
  <2>2. CASE call \notin late
    BY <1>4, <2>2, Numbers, Limits DEF MailInv, SendersHoldLease
  <2> QED
    BY <2>1, <2>2
<1>11. KeysFollowFirst' /\ NoDuplicateDelivery' /\ SentWasAccepted'
  BY <1>1 DEF MailInv, KeysFollowFirst, NoDuplicateDelivery, SentWasAccepted
<1> QED
  BY <1>5, <1>6, <1>7, <1>8, <1>9, <1>10, <1>11 DEF MailInv

(* A run that holds the row's lease, or that gives up on a row whose lease  *)
(* has run out, settles it.                                                 *)
LEMMA RowSettled ==
    ASSUME TypeOK, MailInv, NEW w \in Workers,
           \/ run[w].at = "expire" /\ Expirable(w)
           \/ run[w].at \in {"confirmed", "unconfirmed"} /\ HoldsLease(w),
           NEW status \in {"pending", "sent", "failed"},
           NEW available \in Nat,
           status = "sent" => copies[run[w].mail] > 0,
           status = "pending" => available > now + Pause,
           mail' = [mail EXCEPT ![run[w].mail] =
                       Settled(mail[run[w].mail], status, available)],
           run' = [run EXCEPT ![w] = Idle],
           UNCHANGED <<now, late, copies, keyed>>
    PROVE  MailInv'
<1> DEFINE m == run[w].mail
<1>1. m \in Mails /\ mail[m] \in MailRecord /\ run[w].at # "idle"
  BY DEF TypeOK
<1>2. /\ mail'[m].status = status /\ mail'[m].attempts = mail[m].attempts
      /\ mail'[m].available = available /\ mail'[m].token = None
      /\ mail'[m].first = mail[m].first
  <2>1. mail'[m] = Settled(mail[m], status, available)
    BY <1>1 DEF TypeOK
  <2> QED
    BY <2>1 DEF Settled
<1>3. \A k \in Mails : k # m => mail'[k] = mail[k]
  BY <1>1 DEF TypeOK
<1>4. \A x \in Workers : run'[x].at # "idle" => x # w /\ run'[x] = run[x]
  BY DEF TypeOK, Idle
<1>5. ASSUME NEW x \in Workers, run[x].at = "sending" PROVE run[x].mail # m
  <2> SUFFICES ASSUME run[x].mail = m PROVE FALSE
    OBVIOUS
  <2>1. mail[m].leaseUntil > now /\ mail[m].token = run[x].token /\ run[x].token # None
    BY <1>5, LeaseOutlastsCall
  <2>2. CASE run[w].at = "expire" /\ Expirable(w)
    <3>1. mail[m].token = run[w].row.token /\ run[w].row.token # None
      BY <2>1, <2>2 DEF Expirable
    <3>2. run[w].row.leaseUntil = mail[m].leaseUntil /\ run[w].row.leaseUntil <= run[w].time
      BY <2>2, <3>1 DEF MailInv, CopiesAreOld
    <3>3. run[w].time <= now
      BY <2>2 DEF MailInv, StepsInTime
    <3> QED
      BY <1>1, <2>1, <3>2, <3>3, Numbers
  <2>3. CASE run[w].at \in {"confirmed", "unconfirmed"} /\ HoldsLease(w)
    <3>1. run[w].token = run[x].token
      BY <2>1, <2>3 DEF HoldsLease
    <3>2. w = x
      BY <1>5, <2>3, <3>1 DEF MailInv, TokensDiffer, Calling
    <3> QED
      BY <1>5, <2>3, <3>2
  <2> QED
    BY <2>2, <2>3
<1> HIDE DEF m
<1>6. mail[m].status # "none"
  BY <1>1 DEF m, MailInv, CopiesAreOld
<1>7. CopiesAreOld'
  BY <1>1, <1>2, <1>3, <1>4 DEF MailInv, CopiesAreOld, Calling, TypeOK
<1>8. OutdatedIsBlocked'
  <2> SUFFICES ASSUME NEW x \in Workers, run'[x].at \in {"read", "claim"}
               PROVE  IF run[x].row.attempts # mail'[run[x].mail].attempts
                      THEN \/ ~Open(mail'[run[x].mail])
                           \/ ~DueAt(mail'[run[x].mail], LatestClaim(x))
                      ELSE run[x].row.first = mail'[run[x].mail].first
    BY <1>4 DEF OutdatedIsBlocked, Outdated, LatestClaim, DueAt, Open
  <2>1. /\ run'[x] = run[x] /\ run[x].mail \in Mails /\ run[x].time \in Nat
        /\ run[x].time <= now /\ run[x].at # "idle"
    BY <1>4, Numbers DEF MailInv, StepsInTime
  <2>2. IF run[x].row.attempts # mail[run[x].mail].attempts
        THEN ~Open(mail[run[x].mail]) \/ ~DueAt(mail[run[x].mail], LatestClaim(x))
        ELSE run[x].row.first = mail[run[x].mail].first
    BY <1>4 DEF MailInv, OutdatedIsBlocked, Outdated
  <2>3. CASE run[x].mail # m
    BY <1>3, <2>1, <2>2, <2>3
  <2>4. CASE run[x].mail = m
    <3>1. LatestClaim(x) <= now + Pause /\ LatestClaim(x) \in Nat
      BY <2>1, Numbers, Limits DEF LatestClaim
    <3>2. ~Open(mail'[m]) \/ ~DueAt(mail'[m], LatestClaim(x))
      BY <1>2, <3>1, Numbers, Limits DEF Open, DueAt
    <3> QED
      BY <1>2, <2>2, <2>4, <3>2
  <2> QED
    BY <2>3, <2>4
<1>9. StepsInTime'
  BY <1>4 DEF MailInv, StepsInTime
<1>10. SendersHoldLease'
  BY <1>3, <1>4, <1>5, Numbers DEF MailInv, SendersHoldLease
<1>11. TokensDiffer'
  BY <1>1, <1>2, <1>3, <1>4, Numbers DEF MailInv, TokensDiffer, Calling
<1>12. KeysFollowFirst'
  BY <1>1, <1>2, <1>3, <1>6 DEF MailInv, KeysFollowFirst
<1>13. LateInWindow'
  <2>1. \A k \in Mails : mail'[k].first = mail[k].first
    BY <1>2, <1>3
  <2> QED
    BY <2>1, Numbers DEF MailInv, LateInWindow
<1>14. AcceptedWasSent' /\ NoDuplicateDelivery'
  BY <1>4 DEF MailInv, AcceptedWasSent, NoDuplicateDelivery
<1>15. SentWasAccepted'
  BY <1>2, <1>3 DEF m, MailInv, SentWasAccepted
<1>16. RetriesStop'
  BY <1>2, <1>3, <1>4, <1>5, Numbers DEF MailInv, RetriesStop
<1> QED
  BY <1>7, <1>8, <1>9, <1>10, <1>11, <1>12, <1>13, <1>14, <1>15, <1>16 DEF MailInv

LEMMA MailSettles ==
    ASSUME TypeOK, MailInv, NEW w \in Workers,
           Expire(w) \/ SettleSent(w) \/ SettleRetry(w)
    PROVE  MailInv'
<1> DEFINE m == run[w].mail
<1>1. /\ run' = [run EXCEPT ![w] = Idle] /\ UNCHANGED <<now, late, copies, keyed>>
      /\ run[w].at # "idle"
  BY DEF Expire, SettleSent, SettleRetry
<1>2. m \in Mails /\ mail[m].available \in Nat
  BY <1>1, Numbers
<1>3. CASE mail' = mail
  BY <1>1, <1>3, RunEnds
<1>4. CASE Expire(w) /\ Expirable(w)
  BY <1>1, <1>2, <1>4, RowSettled DEF Expire
<1>5. CASE SettleSent(w) /\ HoldsLease(w)
  <2>1. copies[m] > 0
    BY <1>5 DEF SettleSent, MailInv, AcceptedWasSent
  <2> QED
    BY <1>1, <1>2, <1>5, <2>1, RowSettled DEF SettleSent
<1>6. CASE SettleRetry(w) /\ HoldsLease(w)
  <2> DEFINE n == run[w].row.attempts + 1
             status == IF n >= MaxAttempts THEN "failed" ELSE "pending"
             available == now + Backoff[n]
  <2>1. n \in 1..MaxAttempts
    BY <1>6, Numbers, Limits DEF SettleRetry, MailInv, CopiesAreOld, Calling
  <2>2. mail' = [mail EXCEPT ![m] = Settled(mail[m], status, available)]
    BY <1>6 DEF SettleRetry, Retried
  <2>3. run[w].at \in {"confirmed", "unconfirmed"}
    BY <1>6 DEF SettleRetry
  <2>4. status \in {"pending", "sent", "failed"} /\ status # "sent"
    OBVIOUS
  <2> HIDE DEF n, status
  <2>5. available \in Nat /\ available > now + Pause
    <3>1. Backoff[n] \in Nat /\ Backoff[n] > Pause
      BY <2>1, EmailAssumption, TimingAssumption
    <3> QED
      BY <3>1, Numbers, Limits
  <2> HIDE DEF available
  <2> QED
    BY <1>1, <1>6, <2>2, <2>3, <2>4, <2>5, RowSettled
<1> QED
  BY <1>3, <1>4, <1>5, <1>6 DEF Expire, SettleSent, SettleRetry

(* A claim succeeds only with an up-to-date copy of the row. *)
LEMMA ClaimIsFresh ==
    ASSUME TypeOK, MailInv, NEW w \in Workers, Claim(w)
    PROVE  /\ run[w].row.attempts = mail[run[w].mail].attempts
           /\ run[w].row.first = mail[run[w].mail].first
<1>1. Open(mail[run[w].mail]) /\ DueAt(mail[run[w].mail], run[w].time) /\ run[w].at = "claim"
  BY DEF Claim, Claimable
<1> QED
  BY <1>1 DEF MailInv, OutdatedIsBlocked, Outdated, LatestClaim

LEMMA MailClaim ==
    ASSUME TypeOK, MailInv, NEW w \in Workers, Claim(w)
    PROVE  MailInv'
<1> DEFINE m == run[w].mail
           t == run[w].time
           n == mail[m].attempts + 1
           r == Step("sending", m, run[w].row, n)
<1>1. /\ run[w].at = "claim" /\ Open(mail[m]) /\ DueAt(mail[m], t)
      /\ mail' = [mail EXCEPT ![m] = Leased(mail[m], run[w].row, t)]
      /\ run' = [run EXCEPT ![w] = r]
      /\ UNCHANGED <<now, batch, late, copies, keyed>>
  BY DEF Claim, Claimable
<1>2. m \in Mails /\ t \in Nat /\ n \in Nat
  BY <1>1, Numbers
<1>3. /\ mail'[m].status = "sending" /\ mail'[m].attempts = n /\ mail'[m].token = n
      /\ mail'[m].available = mail[m].available /\ mail'[m].leaseUntil = t + Lease
      /\ mail'[m].first = FirstAttempt(run[w].row, t)
  BY <1>1, <1>2 DEF TypeOK, Leased
<1>4. /\ r.at = "sending" /\ r.mail = m /\ r.row = run[w].row /\ r.time = now
      /\ r.token = n /\ r.taken = FALSE
  BY DEF Step
<1> HIDE DEF r
<1>5. run'[w] = r /\ \A x \in Workers : x # w => run'[x] = run[x]
  BY <1>1 DEF TypeOK
<1>6. \A k \in Mails : k # m => mail'[k] = mail[k]
  BY <1>1, <1>2 DEF TypeOK
<1>7. /\ run[w].row.attempts = mail[m].attempts /\ run[w].row.first = mail[m].first
      /\ mail[m].attempts < MaxAttempts
  BY <1>1, ClaimIsFresh DEF MailInv, CopiesAreOld
<1>8. /\ 0 < t /\ t <= now /\ now <= t + Pause
      /\ run[w].row.first # 0 => t - run[w].row.first < RetryWindow
  BY <1>1 DEF MailInv, StepsInTime
<1>9. /\ mail'[m].first \in Nat /\ mail'[m].first # 0 /\ mail'[m].first <= now
      /\ mail[m].first # 0 => mail'[m].first = mail[m].first
      /\ now - mail'[m].first < RetryWindow + Pause
  <2>1. CASE mail[m].first = 0
    BY <1>2, <1>3, <1>7, <1>8, <2>1, Numbers, Limits DEF FirstAttempt
  <2>2. CASE mail[m].first # 0
    <3>1. mail[m].first <= now
      BY <1>2 DEF MailInv, KeysFollowFirst
    <3> QED
      BY <1>2, <1>3, <1>7, <1>8, <2>2, <3>1, Numbers, Limits DEF FirstAttempt
  <2> QED
    BY <2>1, <2>2
<1>10. ASSUME NEW x \in Workers, run[x].at = "sending" PROVE run[x].mail # m
  <2> SUFFICES ASSUME run[x].mail = m PROVE FALSE
    OBVIOUS
  <2>1. mail[m].leaseUntil > now
    BY <1>10, LeaseOutlastsCall
  <2> QED
    BY <1>1, <1>2, <1>8, <2>1, Numbers DEF DueAt
<1> HIDE DEF m, t, n
<1>11. CopiesAreOld'
  <2>1. run[w].row.token # None => run[w].row.token <= run[w].row.attempts /\ run[w].row.leaseUntil # 0
    BY <1>1 DEF MailInv, CopiesAreOld
  <2>2. \A x \in Workers : x # w /\ run[x].at # "idle" /\ run[x].mail = m =>
           run[x].row.attempts <= mail[m].attempts
    BY DEF MailInv, CopiesAreOld
  <2>3. n = mail[m].attempts + 1 /\ mail[m].attempts \in Nat
    BY <1>2, Numbers DEF n
  <2> SUFFICES ASSUME NEW x \in Workers, run'[x].at # "idle"
               PROVE  /\ mail'[run'[x].mail].status # "none"
                      /\ run'[x].row.attempts <= mail'[run'[x].mail].attempts
                      /\ run'[x].row.token # None =>
                            run'[x].row.token <= run'[x].row.attempts /\ run'[x].row.leaseUntil # 0
                      /\ run'[x].at \in {"read", "claim", "expire"} /\ run'[x].row.token # None
                           /\ run'[x].row.token = mail'[run'[x].mail].token =>
                              run'[x].row.leaseUntil = mail'[run'[x].mail].leaseUntil
                      /\ run'[x].at = "expire" => run'[x].row.leaseUntil <= run'[x].time
                      /\ run'[x].at \in {"claim", "sending", "confirmed", "unconfirmed"} =>
                            run'[x].row.attempts < MaxAttempts
    BY DEF CopiesAreOld, Calling
  <2>4. CASE x = w
    BY <1>3, <1>4, <1>5, <1>7, <2>1, <2>3, <2>4
  <2>5. CASE x # w /\ run[x].mail = m
    <3>1. run'[x] = run[x]
      BY <1>5, <2>5
    <3>2. /\ run[x].row.attempts \in Nat /\ run[x].row.token \in Nat \cup {None}
          /\ run[x].row.attempts <= mail[m].attempts
      BY <2>2, <2>5, <3>1, Numbers
    <3>3. run[x].row.token # None =>
             run[x].row.token <= run[x].row.attempts /\ run[x].row.leaseUntil # 0
      BY <2>5, <3>1 DEF MailInv, CopiesAreOld
    <3>4. run[x].row.token # None => run[x].row.token # n
      BY <2>3, <3>2, <3>3, Limits
    <3>5. run[x].at \in {"claim", "sending", "confirmed", "unconfirmed"} =>
             run[x].row.attempts < MaxAttempts
      BY DEF MailInv, CopiesAreOld, Calling
    <3>6. run[x].at = "expire" => run[x].row.leaseUntil <= run[x].time
      BY DEF MailInv, CopiesAreOld
    <3> QED
      BY <1>3, <2>3, <2>5, <3>1, <3>2, <3>3, <3>4, <3>5, <3>6
  <2>6. CASE x # w /\ run[x].mail # m
    <3>1. run'[x] = run[x] /\ mail'[run[x].mail] = mail[run[x].mail]
      BY <1>5, <1>6, <2>6, Numbers
    <3> QED
      BY <3>1 DEF MailInv, CopiesAreOld, Calling
  <2> QED
    BY <2>4, <2>5, <2>6
<1>12. OutdatedIsBlocked'
  <2> SUFFICES ASSUME NEW x \in Workers, run'[x].at \in {"read", "claim"}
               PROVE  IF run[x].row.attempts # mail'[run[x].mail].attempts
                      THEN \/ ~Open(mail'[run[x].mail])
                           \/ ~DueAt(mail'[run[x].mail], LatestClaim(x))
                      ELSE run[x].row.first = mail'[run[x].mail].first
    BY <1>4, <1>5 DEF OutdatedIsBlocked, Outdated, LatestClaim, DueAt, Open
  <2>1. /\ run'[x] = run[x] /\ run[x].mail \in Mails /\ run[x].time \in Nat
        /\ run[x].time <= now /\ run[x].at # "idle" /\ run[x].at \in {"read", "claim"}
    BY <1>4, <1>5, Numbers DEF MailInv, StepsInTime
  <2>2. CASE run[x].mail # m
    BY <1>6, <2>1, <2>2 DEF MailInv, OutdatedIsBlocked, Outdated
  <2>3. CASE run[x].mail = m
    <3>1. LatestClaim(x) <= now + Pause /\ LatestClaim(x) \in Nat
      BY <2>1, Numbers, Limits DEF LatestClaim
    <3>2. t + Lease > now + Pause
      BY <1>2, <1>8, Numbers, Limits, TimingAssumption
    <3>3. ~DueAt(mail'[m], LatestClaim(x))
      BY <1>2, <1>3, <3>1, <3>2, Numbers, Limits DEF DueAt
    <3>4. run[x].row.attempts # mail'[m].attempts
      <4>1. run[x].row.attempts <= mail[m].attempts
        BY <2>1, <2>3 DEF MailInv, CopiesAreOld
      <4> QED
        BY <1>2, <1>3, <4>1, Numbers DEF n
    <3> QED
      BY <2>3, <3>3, <3>4
  <2> QED
    BY <2>2, <2>3
<1>13. StepsInTime'
  <2>1. 0 < now /\ now <= now /\ now <= now + SendLimit /\ now <= now + WireLimit
    BY <1>2, <1>8, Numbers, Limits
  <2> QED
    BY <1>1, <1>4, <1>5, <1>8, <2>1 DEF MailInv, StepsInTime
<1>14. SendersHoldLease'
  <2>1. t + Lease > now + SendLimit
    BY <1>2, <1>8, Numbers, Limits, TimingAssumption
  <2> SUFFICES ASSUME NEW x \in Workers, run'[x].at = "sending"
               PROVE  /\ mail'[run'[x].mail].status = "sending"
                      /\ mail'[run'[x].mail].token = run'[x].token
                      /\ mail'[run'[x].mail].leaseUntil > run'[x].time + SendLimit
                      /\ mail'[run'[x].mail].first # 0
                      /\ run'[x].time - mail'[run'[x].mail].first < RetryWindow + Pause
    BY DEF SendersHoldLease
  <2>2. CASE x = w
    BY <1>3, <1>4, <1>5, <1>9, <2>1, <2>2
  <2>3. CASE x # w
    <3>1. run'[x] = run[x] /\ mail'[run[x].mail] = mail[run[x].mail]
      BY <1>5, <1>6, <1>10, <2>3, Numbers
    <3> QED
      BY <3>1 DEF MailInv, SendersHoldLease
  <2> QED
    BY <2>2, <2>3
<1>15. TokensDiffer'
  <2>1. \A x \in Workers : x # w /\ Calling(x) /\ run[x].mail = m => run[x].token # n
    <3> SUFFICES ASSUME NEW x \in Workers, Calling(x), run[x].mail = m PROVE run[x].token # n
      OBVIOUS
    <3>1. run[x].token # None /\ run[x].token <= mail[m].attempts
      BY DEF MailInv, TokensDiffer
    <3> QED
      BY <1>2, <3>1, Numbers, Limits DEF n
  <2>2. n # None /\ n <= n /\ mail[m].attempts <= n
    BY <1>2, Numbers, Limits DEF n
  <2>3. \A x \in Workers : Calling(x) => run[x].token # None /\ run[x].token <= mail[run[x].mail].attempts
    BY DEF MailInv, TokensDiffer
  <2>4. \A x \in Workers : x # w /\ Calling(x) => run[x].token <= mail'[run[x].mail].attempts
    <3> SUFFICES ASSUME NEW x \in Workers, x # w, Calling(x)
                 PROVE  run[x].token <= mail'[run[x].mail].attempts
      OBVIOUS
    <3>1. run[x].mail \in Mails
      BY Numbers DEF Calling
    <3> QED
      BY <1>2, <1>3, <1>6, <2>2, <2>3, <3>1, Numbers
  <2>5. \A k \in Mails : mail'[k].token # None => mail'[k].token <= mail'[k].attempts
    BY <1>3, <1>6, <2>2 DEF MailInv, TokensDiffer
  <2>6. \A x \in Workers : Calling(x)' => run'[x].token # None
                                      /\ run'[x].token <= mail'[run'[x].mail].attempts
    BY <1>3, <1>4, <1>5, <2>2, <2>3, <2>4 DEF Calling
  <2>7. \A x, y \in Workers :
           Calling(x)' /\ Calling(y)' /\ run'[x].mail = run'[y].mail
              /\ run'[x].token = run'[y].token => x = y
    BY <1>4, <1>5, <2>1 DEF MailInv, TokensDiffer, Calling
  <2> QED
    BY <2>5, <2>6, <2>7 DEF TokensDiffer
<1>16. KeysFollowFirst'
  BY <1>1, <1>3, <1>6, <1>9 DEF MailInv, KeysFollowFirst
<1>17. LateInWindow'
  <2>1. \A call \in late : mail'[call.mail].first = mail[call.mail].first
    BY <1>6, <1>9, Numbers DEF MailInv, LateInWindow
  <2> QED
    BY <1>1, <2>1 DEF MailInv, LateInWindow
<1>18. AcceptedWasSent' /\ NoDuplicateDelivery' /\ SentWasAccepted'
  BY <1>1, <1>3, <1>4, <1>5, <1>6 DEF MailInv, AcceptedWasSent, NoDuplicateDelivery, SentWasAccepted
<1>19. RetriesStop'
  <2>1. n <= MaxAttempts
    BY <1>2, <1>7, Numbers, Limits DEF n
  <2>2. \A k \in Mails : mail'[k].attempts <= MaxAttempts
    BY <1>3, <1>6, <2>1 DEF MailInv, RetriesStop
  <2> QED
    BY <1>14, <2>2 DEF RetriesStop, SendersHoldLease
<1> QED
  BY <1>11, <1>12, <1>13, <1>14, <1>15, <1>16, <1>17, <1>18, <1>19 DEF MailInv

LEMMA MailEnqueue ==
    ASSUME TypeOK, MailInv, NEW m \in Mails, Enqueue(m)
    PROVE  MailInv'
<1>1. /\ mail[m].status = "none" /\ UNCHANGED <<now, run, late, copies, keyed>>
      /\ mail'[m].status = "pending" /\ mail'[m].attempts = 0 /\ mail'[m].first = 0
      /\ mail'[m].token = None
      /\ \A k \in Mails : k # m => mail'[k] = mail[k]
  BY DEF Enqueue, TypeOK
<1>2. mail[m].first = 0 /\ keyed[m] = 0
  BY <1>1 DEF MailInv, KeysFollowFirst
<1>3. \A x \in Workers : run[x].at # "idle" => run[x].mail # m
  BY <1>1 DEF MailInv, CopiesAreOld
<1>4. \A call \in late : call.mail # m
  BY <1>2 DEF MailInv, LateInWindow
<1>5. CopiesAreOld'
  BY <1>1, <1>3, Numbers DEF MailInv, CopiesAreOld, Calling
<1>6. OutdatedIsBlocked'
  BY <1>1, <1>3, Numbers DEF MailInv, OutdatedIsBlocked, Outdated, LatestClaim, DueAt, Open
<1>7. StepsInTime'
  BY <1>1 DEF MailInv, StepsInTime
<1>8. SendersHoldLease'
  BY <1>1, <1>3, Numbers DEF MailInv, SendersHoldLease
<1>9. TokensDiffer'
  BY <1>1, <1>3, Numbers DEF MailInv, TokensDiffer, Calling
<1>10. KeysFollowFirst'
  BY <1>1, <1>2, Numbers DEF MailInv, KeysFollowFirst
<1>11. LateInWindow'
  BY <1>1, <1>4, Numbers DEF MailInv, LateInWindow
<1>12. AcceptedWasSent' /\ NoDuplicateDelivery' /\ SentWasAccepted'
  BY <1>1 DEF MailInv, AcceptedWasSent, NoDuplicateDelivery, SentWasAccepted
<1>13. RetriesStop'
  BY <1>1, <1>3, Numbers, Limits DEF MailInv, RetriesStop
<1> QED
  BY <1>5, <1>6, <1>7, <1>8, <1>9, <1>10, <1>11, <1>12, <1>13 DEF MailInv

(* A request that reaches the provider before its deadline finds the key    *)
(* of an earlier one, or is the first.                                      *)
LEMMA TakesOnce ==
    ASSUME TypeOK, MailInv, NEW m \in Mails, Takes(m), mail' = mail, now' = now,
           mail[m].first # 0, now < mail[m].first + KeyLife
    PROVE  KeysFollowFirst' /\ NoDuplicateDelivery' /\ SentWasAccepted'
           /\ (\A k \in Mails : copies[k] > 0 => copies'[k] > 0) /\ copies'[m] > 0
<1>1. mail[m].first <= now /\ 0 < now
  BY DEF MailInv, KeysFollowFirst, StepsInTime
<1>2. CASE keyed[m] # 0
  <2>1. mail[m].first <= keyed[m]
    BY <1>2 DEF MailInv, KeysFollowFirst
  <2>2. KeyKnown(m)
    BY <1>2, <2>1, Numbers, Limits DEF KeyKnown
  <2>3. UNCHANGED <<copies, keyed>> /\ copies[m] # 0
    BY <1>2, <2>2 DEF Takes, MailInv, KeysFollowFirst
  <2> QED
    BY <2>3, Numbers DEF MailInv, KeysFollowFirst, NoDuplicateDelivery, SentWasAccepted
<1>3. CASE keyed[m] = 0
  <2>1. copies[m] = 0 /\ ~KeyKnown(m)
    BY <1>3 DEF KeyKnown, MailInv, KeysFollowFirst
  <2>2. /\ copies'[m] = 1 /\ keyed'[m] = now
        /\ \A k \in Mails : k # m => copies'[k] = copies[k] /\ keyed'[k] = keyed[k]
    BY <2>1 DEF Takes, TypeOK
  <2> QED
    BY <1>1, <2>1, <2>2, Numbers DEF MailInv, KeysFollowFirst, NoDuplicateDelivery, SentWasAccepted
<1> QED
  BY <1>2, <1>3

LEMMA MailProvider ==
    ASSUME TypeOK, MailInv,
           \/ \E w \in Workers : ProviderTakes(w)
           \/ \E call \in late : ProviderTakesLate(call) \/ ProviderLoses(call)
    PROVE  MailInv'
<1>1. ASSUME NEW w \in Workers, ProviderTakes(w) PROVE MailInv'
  <2> DEFINE m == run[w].mail
  <2>1. /\ run[w].at = "sending" /\ ~run[w].taken /\ Takes(m)
        /\ UNCHANGED <<now, mail, batch, late>>
    BY <1>1 DEF ProviderTakes
  <2>2. /\ run'[w].at = "sending" /\ run'[w].mail = m /\ run'[w].row = run[w].row
        /\ run'[w].time = run[w].time /\ run'[w].token = run[w].token
    BY <1>1 DEF ProviderTakes, TypeOK, RunRecord
  <2>3. \A x \in Workers : x # w => run'[x] = run[x]
    BY <1>1 DEF ProviderTakes, TypeOK
  <2>4. m \in Mails
    BY <2>1, Numbers
  <2>5. mail[m].first # 0 /\ now < mail[m].first + KeyLife
    <3>1. /\ mail[m].first # 0 /\ run[w].time - mail[m].first < RetryWindow + Pause
          /\ now <= run[w].time + WireLimit
      BY <2>1 DEF MailInv, SendersHoldLease, StepsInTime
    <3> QED
      BY <2>4, <3>1, Numbers, Limits, TimingAssumption
  <2>6. /\ KeysFollowFirst' /\ NoDuplicateDelivery' /\ SentWasAccepted'
        /\ \A k \in Mails : copies[k] > 0 => copies'[k] > 0
        /\ copies'[m] > 0
    BY <2>1, <2>4, <2>5, TakesOnce
  <2> HIDE DEF m
  <2>7. CopiesAreOld'
    BY <2>1, <2>2, <2>3 DEF m, MailInv, CopiesAreOld, Calling
  <2>8. OutdatedIsBlocked' /\ StepsInTime' /\ SendersHoldLease' /\ RetriesStop'
    BY <2>1, <2>2, <2>3 DEF m, MailInv, OutdatedIsBlocked, Outdated, LatestClaim, DueAt, Open,
       StepsInTime, SendersHoldLease, RetriesStop
  <2>9. TokensDiffer'
    BY <2>1, <2>2, <2>3 DEF m, MailInv, TokensDiffer, Calling
  <2>10. LateInWindow'
    BY <2>1 DEF MailInv, LateInWindow
  <2>11. AcceptedWasSent'
    BY <2>1, <2>2, <2>3, <2>6, Numbers DEF MailInv, AcceptedWasSent
  <2> QED
    BY <2>6, <2>7, <2>8, <2>9, <2>10, <2>11 DEF MailInv
<1>2. ASSUME UNCHANGED <<now, mail, run>>, late' \subseteq late
      PROVE  /\ CopiesAreOld' /\ OutdatedIsBlocked' /\ StepsInTime' /\ SendersHoldLease'
             /\ RetriesStop' /\ TokensDiffer' /\ LateInWindow'
  BY <1>2 DEF MailInv, CopiesAreOld, OutdatedIsBlocked, Outdated, LatestClaim, DueAt, Open,
     StepsInTime, SendersHoldLease, RetriesStop, TokensDiffer, Calling, LateInWindow
<1>3. ASSUME NEW call \in late, ProviderTakesLate(call) PROVE MailInv'
  <2>1. UNCHANGED <<now, mail, run>> /\ late' \subseteq late /\ Takes(call.mail)
    BY <1>3 DEF ProviderTakesLate
  <2>2. mail[call.mail].first # 0 /\ now < mail[call.mail].first + KeyLife
    <3>1. /\ mail[call.mail].first # 0 /\ now <= call.by
          /\ call.by < mail[call.mail].first + RetryWindow + Pause + WireLimit
      BY DEF MailInv, LateInWindow, StepsInTime
    <3> QED
      BY <3>1, Numbers, Limits, TimingAssumption
  <2>3. /\ KeysFollowFirst' /\ NoDuplicateDelivery' /\ SentWasAccepted'
        /\ \A k \in Mails : copies[k] > 0 => copies'[k] > 0
    BY <2>1, <2>2, TakesOnce, Numbers
  <2>4. AcceptedWasSent'
    BY <2>1, <2>3, Numbers DEF MailInv, AcceptedWasSent
  <2> QED
    BY <1>2, <2>1, <2>3, <2>4 DEF MailInv
<1>4. ASSUME NEW call \in late, ProviderLoses(call) PROVE MailInv'
  <2>1. UNCHANGED <<now, mail, run, copies, keyed>> /\ late' \subseteq late
    BY <1>4 DEF ProviderLoses
  <2> QED
    BY <1>2, <2>1 DEF MailInv, AcceptedWasSent, KeysFollowFirst, NoDuplicateDelivery,
       SentWasAccepted
<1> QED
  BY <1>1, <1>3, <1>4

LEMMA MailTick == ASSUME TypeOK, MailInv, Tick PROVE MailInv'
<1>1. /\ now' = now + 1 /\ UNCHANGED <<mail, run, batch, late, copies, keyed>>
      /\ \A w \in Workers : InTime(w)
      /\ \A call \in late : now < call.by
  BY DEF Tick
<1>2. StepsInTime'
  BY <1>1, Numbers, Limits DEF MailInv, StepsInTime, InTime
<1>3. KeysFollowFirst'
  BY <1>1, Numbers DEF MailInv, KeysFollowFirst
<1>4. CopiesAreOld' /\ OutdatedIsBlocked' /\ SendersHoldLease' /\ TokensDiffer'
  BY <1>1 DEF MailInv, CopiesAreOld, OutdatedIsBlocked, Outdated, LatestClaim, DueAt, Open,
     SendersHoldLease, TokensDiffer, Calling
<1>5. LateInWindow' /\ AcceptedWasSent' /\ NoDuplicateDelivery' /\ SentWasAccepted' /\ RetriesStop'
  BY <1>1 DEF MailInv, LateInWindow, AcceptedWasSent, NoDuplicateDelivery, SentWasAccepted,
     RetriesStop
<1> QED
  BY <1>2, <1>3, <1>4, <1>5 DEF MailInv

LEMMA MailUnchanged ==
    ASSUME MailInv, UNCHANGED <<now, mail, run, late, copies, keyed>> PROVE MailInv'
BY DEF MailInv, CopiesAreOld, OutdatedIsBlocked, Outdated, LatestClaim, DueAt, Open, StepsInTime,
   SendersHoldLease, TokensDiffer, Calling, KeysFollowFirst, LateInWindow, AcceptedWasSent,
   NoDuplicateDelivery, SentWasAccepted, RetriesStop

LEMMA MailStep == ASSUME TypeOK, MailInv, [Next]_vars PROVE MailInv'
<1>1. ASSUME NEW w \in Workers, Dispatch(w) PROVE MailInv'
  <2>1. CASE ClaimLost(w) \/ Stops(w)
    BY <2>1, RunEnds DEF ClaimLost, Stops
  <2>2. CASE Expire(w) \/ SettleSent(w) \/ SettleRetry(w)
    BY <2>2, MailSettles
  <2>3. CASE Confirmed(w) \/ Unconfirmed(w)
    BY <2>3, MailAnswered
  <2> QED
    BY <1>1, <2>1, <2>2, <2>3, MailRead, MailDecide, MailClaim DEF Dispatch
<1>2. ASSUME NEW page \in SUBSET Mails, Scan(page) PROVE MailInv'
  BY <1>2, MailUnchanged DEF Scan
<1>3. CASE UNCHANGED vars
  BY <1>3, MailUnchanged DEF vars
<1> QED
  BY <1>1, <1>2, <1>3, MailEnqueue, MailProvider, MailTick DEF Next

-----------------------------------------------------------------------------
(* Theorems *)

LEMMA OutboxInductive == Spec => [](TypeOK /\ MailInv)
<1>1. Init => TypeOK /\ MailInv
  BY TypeInit, MailInit
<1>2. TypeOK /\ MailInv /\ [Next]_vars => TypeOK' /\ MailInv'
  BY TypeStep, MailStep DEF MailInv
<1> QED
  BY <1>1, <1>2, PTL DEF Spec

(* Every reachable state of the outbox is well typed.                       *)
THEOREM TypeCorrect == Spec => []TypeOK
BY OutboxInductive, PTL

(* The invariant that relates every run to the row it works on.             *)
THEOREM MailCorrect == Spec => []MailInv
BY OutboxInductive, PTL

(* No two runs wait for the provider with one message.                      *)
THEOREM OneSenderHolds == Spec => []OneSender
<1>1. TypeOK /\ MailInv => OneSender
  <2> SUFFICES ASSUME TypeOK, MailInv, NEW w \in Workers, NEW x \in Workers,
                      run[w].at = "sending", run[x].at = "sending", run[w].mail = run[x].mail
               PROVE  w = x
    BY DEF OneSender
  <2>1. run[w].token = run[x].token
    BY LeaseOutlastsCall
  <2> QED
    BY <2>1 DEF MailInv, TokensDiffer, Calling
<1> QED
  BY <1>1, OutboxInductive, PTL

(* A message reaches its recipient at most once.                            *)
THEOREM NoDuplicateDeliveryHolds == Spec => []NoDuplicateDelivery
<1>1. MailInv => NoDuplicateDelivery
  BY DEF MailInv
<1> QED
  BY <1>1, MailCorrect, PTL

(* Attempts and the window of retries are bounded.                          *)
THEOREM RetriesStopHolds == Spec => []RetriesStop
<1>1. MailInv => RetriesStop
  BY DEF MailInv
<1> QED
  BY <1>1, MailCorrect, PTL

(* A row that says "sent" was accepted by the provider.                     *)
THEOREM SentWasAcceptedHolds == Spec => []SentWasAccepted
<1>1. MailInv => SentWasAccepted
  BY DEF MailInv
<1> QED
  BY <1>1, MailCorrect, PTL

(* The date of the first attempt never changes once it is set.              *)
THEOREM FirstAttemptFixedHolds == Spec => FirstAttemptFixed
<1> DEFINE Fixed == \A m \in Mails : mail[m].first # 0 => mail'[m].first = mail[m].first
<1>1. ASSUME TypeOK, MailInv, [Next]_vars PROVE Fixed
  <2>1. ASSUME NEW m \in Mails, Enqueue(m) PROVE Fixed
    BY <1>1, <2>1 DEF Enqueue, TypeOK, MailInv, KeysFollowFirst
  <2>2. ASSUME NEW w \in Workers, Claim(w) PROVE Fixed
    <3>1. run[w].row.first = mail[run[w].mail].first
      BY <1>1, <2>2, ClaimIsFresh
    <3> QED
      BY <1>1, <2>2, <3>1 DEF Claim, Leased, FirstAttempt, TypeOK
  <2>3. ASSUME NEW w \in Workers, Expire(w) \/ SettleSent(w) \/ SettleRetry(w) PROVE Fixed
    BY <1>1, <2>3 DEF Expire, SettleSent, SettleRetry, Settled, Retried, TypeOK
  <2>4. CASE mail' = mail
    BY <2>4
  <2> QED
    BY <1>1, <2>1, <2>2, <2>3, <2>4 DEF Next, Dispatch, Read, Decide, ClaimLost, Confirmed,
       Unconfirmed, Stops, ProviderTakes, Scan, ProviderTakesLate, ProviderLoses, Tick, vars
<1>2. TypeOK /\ MailInv /\ [Next]_vars => [Fixed]_vars
  BY <1>1
<1> QED
  BY <1>2, OutboxInductive, PTL DEF Spec, FirstAttemptFixed

(* A row that was sent or given up is never taken up again.                 *)
THEOREM SettledIsFinalHolds == Spec => SettledIsFinal
<1> DEFINE Final == \A m \in Mails : mail[m].status \in {"sent", "failed"} => mail'[m] = mail[m]
<1>1. ASSUME TypeOK, MailInv, [Next]_vars PROVE Final
  <2>1. ASSUME NEW m \in Mails, Enqueue(m) PROVE Final
    BY <1>1, <2>1 DEF Enqueue, TypeOK
  <2>2. ASSUME NEW w \in Workers, Claim(w) PROVE Final
    BY <1>1, <2>2 DEF Claim, Claimable, Open, TypeOK
  <2>3. ASSUME NEW w \in Workers, SettleSent(w) \/ SettleRetry(w), HoldsLease(w) PROVE Final
    <3>1. mail[run[w].mail].status = "sending"
      BY <1>1, <2>3 DEF SettleSent, SettleRetry, HoldsLease, MailInv, TokensDiffer, Calling, TypeOK
    <3>2. \A k \in Mails : k # run[w].mail => mail'[k] = mail[k]
      BY <1>1, <2>3 DEF SettleSent, SettleRetry, TypeOK
    <3> QED
      BY <3>1, <3>2
  <2>4. ASSUME NEW w \in Workers, Expire(w), Expirable(w) PROVE Final
    <3> DEFINE m == run[w].mail
    <3>1. m \in Mails /\ mail[m] \in MailRecord
      BY <1>1, <2>4 DEF Expire, TypeOK
    <3>2. /\ mail'[m] = Settled(mail[m], "failed", mail[m].available)
          /\ \A k \in Mails : k # m => mail'[k] = mail[k]
      BY <1>1, <2>4, <3>1 DEF Expire, TypeOK
    <3>3. mail[m].status = "failed" => mail[m].token = None /\ mail[m].leaseUntil = 0
      BY <1>1, <3>1 DEF TypeOK
    <3>4. mail[m].status = "failed" => Settled(mail[m], "failed", mail[m].available) = mail[m]
      BY <3>1, <3>3 DEF Settled, MailRecord
    <3>5. mail[m].status # "sent"
      BY <2>4 DEF Expirable
    <3> QED
      BY <3>1, <3>2, <3>4, <3>5
  <2>5. CASE mail' = mail
    BY <2>5
  <2> QED
    BY <1>1, <2>1, <2>2, <2>3, <2>4, <2>5 DEF Next, Dispatch, Read, Decide, Expire, ClaimLost,
       Confirmed, Unconfirmed, SettleSent, SettleRetry, Stops, ProviderTakes, Scan,
       ProviderTakesLate, ProviderLoses, Tick, vars
<1>2. TypeOK /\ MailInv /\ [Next]_vars => [Final]_vars
  BY <1>1
<1> QED
  BY <1>2, OutboxInductive, PTL DEF Spec, SettledIsFinal
=============================================================================
