---------------------------- MODULE RecurringGiving ----------------------------
(***************************************************************************)
(* Cards that are charged by the night: schedules and their edits          *)
(* (src/giving/giving.service.ts 1357-1709), the nightly dispatch of what  *)
(* is due (queues/processors/nightly-jobs.processor.ts) and the charge     *)
(* itself (processRecurringCharge, one at a time).                         *)
(*                                                                         *)
(* The gateway and the register of transactions are outside: a charge may  *)
(* be made and its answer lost, or the gift not be recorded.  A job whose  *)
(* worker died is delivered again.  Schedules here are of one member and   *)
(* one category; another category changes nothing about them.              *)
(***************************************************************************)
EXTENDS Integers, FiniteSets, Requests

CONSTANTS
    Schedules, \* recurring_giving rows, each used once
    Interval,  \* days between two charges
    LastDay,   \* bound on the days that pass
    MaxFaults  \* bound on what goes wrong

ASSUME RecurringAssumption ==
    /\ IsFiniteSet(Schedules)
    /\ Interval \in Nat \ {0}
    /\ LastDay \in Nat
    /\ MaxFaults \in Nat

VARIABLES
    schedule,
    job,      \* recurring-giving jobs, by schedule and date
    today,
    charged,  \* history: the day each schedule's card was last charged, or -Interval
    early,    \* history: charges made before an interval had passed
    faults,   \* history: what went wrong
    cancelled \* history: schedules somebody cancelled, and nobody resumed since

recurringVars == <<schedule, job, today, charged, early, faults, cancelled, req>>

NoSchedule == [state |-> "none", active |-> FALSE, paused |-> FALSE, card |-> "none",
               next |-> 0, failed |-> 0]

RecurringInit ==
    /\ schedule = [s \in Schedules |-> NoSchedule]
    /\ job = [j \in Schedules \X (0..LastDay) |-> "none"]
    /\ today = 0
    /\ charged = [s \in Schedules |-> -Interval]
    /\ early = 0
    /\ faults = 0
    /\ cancelled = {}
    /\ ReqInit

(* What a request has read: a day, a row, and how the charge ended. *)
Read(d, row, success) == [day |-> d, row |-> row, success |-> success]

Count(n) == faults + n <= MaxFaults /\ faults' = faults + n

-----------------------------------------------------------------------------
(* Schedules *)

CreateRecurringGiving(p) ==
    /\ \A s \in Schedules : ~schedule[s].active
    /\ Begins(p, "create", None, Read(today + Interval, NoSchedule, FALSE))
    /\ UNCHANGED <<schedule, job, today, charged, early, faults, cancelled>>

InsertSchedule(p, s) ==
    /\ At(p, "create")
    /\ schedule[s].state = "none"
    /\ schedule' = [schedule EXCEPT ![s] =
          [state |-> "stored", active |-> TRUE, paused |-> FALSE, card |-> "none",
           next |-> req[p].seen.day, failed |-> 0]]
    /\ Ends(p)
    /\ UNCHANGED <<job, today, charged, early, faults, cancelled>>

(* The gateway's webhook brings an authorization for the active schedule.  *)
CaptureAuthorizationCode(s) ==
    /\ schedule[s].active
    /\ schedule' = [schedule EXCEPT ![s].card = "current"]
    /\ UNCHANGED <<job, today, charged, early, faults, cancelled, req>>

(* The church is paid through another merchant account from now on.        *)
ChangeAccount ==
    /\ schedule' = [s \in Schedules |-> [schedule[s] EXCEPT
                      !.card = IF @ = "current" THEN "former" ELSE @]]
    /\ UNCHANGED <<job, today, charged, early, faults, cancelled, req>>

CancelRecurringGiving(p, s) ==
    /\ schedule[s].active \/ schedule[s].paused
    /\ Begins(p, "cancel", s, None)
    /\ UNCHANGED <<schedule, job, today, charged, early, faults, cancelled>>

Cancel(p) ==
    /\ At(p, "cancel")
    /\ schedule' = [schedule EXCEPT ![req[p].row].active = FALSE, ![req[p].row].paused = FALSE]
    /\ cancelled' = cancelled \cup {req[p].row}
    /\ Ends(p)
    /\ UNCHANGED <<job, today, charged, early, faults>>

PauseRecurringGiving(p, s) ==
    /\ schedule[s].active
    /\ Begins(p, "pause", s, None)
    /\ UNCHANGED <<schedule, job, today, charged, early, faults, cancelled>>

ResumeRecurringGiving(p, s) ==
    /\ ~schedule[s].active /\ schedule[s].paused
    /\ Begins(p, "resume", s, None)
    /\ UNCHANGED <<schedule, job, today, charged, early, faults, cancelled>>

(* Neither reads the row again, and neither touches the count of failures. *)
PauseOrResume(p) ==
    /\ At(p, "pause") \/ At(p, "resume")
    /\ schedule' = [schedule EXCEPT ![req[p].row].active = At(p, "resume"),
                                    ![req[p].row].paused = At(p, "pause")]
    /\ cancelled' = IF At(p, "resume") THEN cancelled \ {req[p].row} ELSE cancelled
    /\ Ends(p)
    /\ UNCHANGED <<job, today, charged, early, faults>>

-----------------------------------------------------------------------------
(* The night *)

Busy(steps) == \E p \in Procs : req[p].at \in steps

Unfinished(s) == \E d \in 0..LastDay : job[<<s, d>>] \in {"waiting", "running"}

(* A job of an earlier night that is still waiting counts as a fault.      *)
DispatchRecurringCharges(p, s) ==
    /\ ~Busy({"dispatch"})
    /\ schedule[s].active /\ schedule[s].card # "none" /\ schedule[s].next <= today
    /\ Begins(p, "dispatch", s, Read(today, NoSchedule, FALSE))
    /\ Count(IF Unfinished(s) THEN 1 ELSE 0)
    /\ UNCHANGED <<schedule, job, today, charged, early, cancelled>>

(* The name of the job is the schedule and the date: a second is dropped.  *)
AddJob(p) ==
    LET j == <<req[p].row, req[p].seen.day>> IN
    /\ At(p, "dispatch")
    /\ job' = IF job[j] = "none" THEN [job EXCEPT ![j] = "waiting"] ELSE job
    /\ Ends(p)
    /\ UNCHANGED <<schedule, today, charged, early, faults, cancelled>>

Working == {"charge", "record", "settle", "strike"}

Chargeable(s) == schedule[s].active /\ schedule[s].card = "current"

TakeJob(p, s, d) ==
    /\ ~Busy(Working)
    /\ job[<<s, d>>] = "waiting"
    /\ IF Chargeable(s)
         THEN /\ Begins(p, "charge", s, Read(d, schedule[s], FALSE))
              /\ job' = [job EXCEPT ![<<s, d>>] = "running"]
         ELSE /\ job' = [job EXCEPT ![<<s, d>>] = "done"]
              /\ UNCHANGED req
    /\ UNCHANGED <<schedule, today, charged, early, faults, cancelled>>

Charges(s) ==
    /\ charged' = [charged EXCEPT ![s] = today]
    /\ early' = early + IF today < charged[s] + Interval THEN 1 ELSE 0

NowAt(p, at, success) ==
    req' = [req EXCEPT ![p] = [at |-> at, row |-> req[p].row,
              seen |-> Read(req[p].seen.day, req[p].seen.row, success)]]

(* The card is charged, or declined; the answer comes, or is lost. *)
ChargeAuthorization(p) ==
    LET s == req[p].row IN
    /\ At(p, "charge")
    /\ \/ Charges(s) /\ NowAt(p, "record", TRUE) /\ UNCHANGED faults
       \/ Charges(s) /\ NowAt(p, "strike", TRUE) /\ Count(1)
       \/ NowAt(p, "record", FALSE) /\ UNCHANGED <<charged, early, faults>>
       \/ NowAt(p, "strike", FALSE) /\ UNCHANGED <<charged, early, faults>>
    /\ UNCHANGED <<schedule, job, today, cancelled>>

(* The transaction is stored, or the database refuses. *)
RecordCharge(p) ==
    LET success == req[p].seen.success IN
    /\ At(p, "record")
    /\ \/ NowAt(p, "settle", success) /\ UNCHANGED faults
       \/ NowAt(p, "strike", success) /\ Count(IF success THEN 1 ELSE 0)
    /\ UNCHANGED <<schedule, job, today, charged, early, cancelled>>

Finished(p) == job' = [job EXCEPT ![<<req[p].row, req[p].seen.day>>] = "done"]

(* Slip: the next charge is counted from the date that was due. *)
SlipNextCharge(p) == req[p].seen.row.next

NextCharge(p) == IF req[p].seen.success THEN today + Interval ELSE req[p].seen.row.next

(* is_active comes from the row as it was before the charge. *)
Settle(p) ==
    LET s == req[p].row
        success == req[p].seen.success
        strikes == req[p].seen.row.failed + 1 IN
    /\ At(p, "settle")
    /\ schedule' = [schedule EXCEPT
          ![s].next = NextCharge(p),
          ![s].failed = IF success THEN 0 ELSE strikes,
          ![s].active = success \/ strikes < 3]
    /\ Finished(p)
    /\ Ends(p)
    /\ UNCHANGED <<today, charged, early, faults, cancelled>>

(* Whatever went wrong counts as a failed attempt, and the date stays.     *)
Strike(p) ==
    LET s == req[p].row
        strikes == req[p].seen.row.failed + 1 IN
    /\ At(p, "strike")
    /\ schedule' = [schedule EXCEPT ![s].failed = strikes, ![s].active = strikes < 3]
    /\ Finished(p)
    /\ Ends(p)
    /\ UNCHANGED <<today, charged, early, faults, cancelled>>

(* A job whose worker died waits again. *)
RecurringDies(p) ==
    /\ Dies(p)
    /\ IF req[p].at \in Working
         THEN /\ job' = [job EXCEPT ![<<req[p].row, req[p].seen.day>>] = "waiting"]
              /\ Count(1)
         ELSE UNCHANGED <<job, faults>>
    /\ UNCHANGED <<schedule, today, charged, early, cancelled>>

NextDay ==
    /\ today < LastDay
    /\ today' = today + 1
    /\ UNCHANGED <<schedule, job, charged, early, faults, cancelled, req>>

RecurringNext ==
    \/ \E s \in Schedules : CaptureAuthorizationCode(s)
    \/ ChangeAccount \/ NextDay
    \/ \E p \in Procs :
          \/ CreateRecurringGiving(p) \/ Cancel(p) \/ PauseOrResume(p)
          \/ AddJob(p) \/ ChargeAuthorization(p) \/ RecordCharge(p)
          \/ Settle(p) \/ Strike(p) \/ RecurringDies(p)
          \/ \E s \in Schedules :
                \/ InsertSchedule(p, s) \/ CancelRecurringGiving(p, s)
                \/ PauseRecurringGiving(p, s) \/ ResumeRecurringGiving(p, s)
                \/ DispatchRecurringCharges(p, s)
                \/ \E d \in 0..LastDay : TakeJob(p, s, d)

RecurringSpec == RecurringInit /\ [][RecurringNext]_recurringVars

-----------------------------------------------------------------------------
RecurringTypeOK ==
    /\ \A s \in Schedules :
          /\ schedule[s].active \in BOOLEAN /\ schedule[s].paused \in BOOLEAN
          /\ schedule[s].card \in {"none", "current", "former"}
          /\ schedule[s].next \in 0..(LastDay + Interval)
    /\ job \in [Schedules \X (0..LastDay) -> {"none", "waiting", "running", "done"}]
    /\ today \in 0..LastDay
    /\ Cardinality({p \in Procs : req[p].at \in Working}) <= 1
    /\ \A s \in Schedules, d \in 0..LastDay :
          job[<<s, d>>] = "running" =>
             \E p \in Procs : req[p].at \in Working /\ req[p].row = s /\ req[p].seen.day = d

(* Nothing but the job's name and the date of the next charge keeps a card *)
(* from being charged again: the date is not looked at when the job runs.  *)
(* Still every charge that comes before its interval has passed is due to  *)
(* a fault of its own - a lost answer, a refused write, a dead worker, or  *)
(* a job that was still waiting the next night - however the schedule was  *)
(* edited meanwhile (dispatchRecurringCharges, processRecurringCharge).    *)
EarlyChargesAreFaults == early <= faults

(* "Soft-cancels a recurring giving schedule. No further charges will be   *)
(* made." (src/giving/giving.controller.ts:445): once it is cancelled no   *)
(* job starts to charge it, unless somebody resumed it.                    *)
CancelledIsNotCharged ==
    [][\A p \in Procs :
          ~At(p, "charge") /\ req'[p].at = "charge" => req'[p].row \notin cancelled]_recurringVars
=============================================================================
