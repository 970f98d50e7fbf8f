----------------------------- MODULE CompanyEmail -----------------------------
(***************************************************************************)
(* The outbox of company e-mails: src/company-email/company-email.service. *)
(*                                                                         *)
(* A business transaction stores the row; whoever calls dispatch afterwards *)
(* (the request that stored it, a repeated payment callback, the retry     *)
(* timer) reads the row, reads the clock, claims the row with a lease,     *)
(* calls the provider and settles the row.  Each of these is a database or *)
(* network call, so the runs of several processes interleave between them, *)
(* and a process may die at each of them.                                  *)
(*                                                                         *)
(* Contents, recipients and the wording of errors are left out: they are   *)
(* frozen in the row and never change.  sent_at is set exactly when the    *)
(* status becomes "sent".  One clock stands for the clocks of all hosts.   *)
(***************************************************************************)
EXTENDS Integers, FiniteSets

CONSTANTS
    Mails,        \* event keys
    Workers,      \* concurrent runs of dispatch
    Scanner,      \* the one of them that is the retry timer's
    MaxAttempts,  \* MAX_ATTEMPTS
    RetryWindow,  \* RETRY_WINDOW_MS
    Lease,        \* how far ahead lease_until is set
    Backoff,      \* delay before the next attempt, by attempts made
    Page,         \* rows one scan takes
    Pause,        \* longest wait for a database answer
    SendLimit,    \* longest provider call: its abort signal
    WireLimit,    \* longest time after which a request still reaches the provider
    KeyLife,      \* how long the provider remembers an idempotency key
    MaxNow,       \* bound on the clock
    None

ASSUME EmailAssumption ==
    /\ Scanner \in Workers
    /\ {MaxAttempts, RetryWindow, Lease, Page, Pause, SendLimit, WireLimit,
        KeyLife, MaxNow} \subseteq Nat
    /\ MaxAttempts > 0
    /\ RetryWindow > 0
    /\ Backoff \in [1..MaxAttempts -> Nat]
    /\ None \notin Mails \cup Nat

(* How the constants of the code have to lie to each other.  In the code:  *)
(* 120 s against 15 s of call, 30 s of least backoff, 23 h against 24 h.   *)
ASSUME TimingAssumption ==
    /\ Pause + SendLimit < Lease
    /\ 2 * Pause < Lease
    /\ \A n \in 1..MaxAttempts : Pause < Backoff[n]
    /\ RetryWindow + Pause + WireLimit <= KeyLife

VARIABLES
    now,     \* wall clock; 0 stands for a null date
    mail,    \* company_email_notifications
    run,     \* the runs of dispatch
    batch,   \* event keys the running scan still has to dispatch
    late,    \* requests whose sender has given up on them
    copies,  \* history: how often the provider really sent a message
    keyed    \* when the provider stored the message's idempotency key

vars == <<now, mail, run, batch, late, copies, keyed>>

NoMail == [status |-> "none", attempts |-> 0, available |-> 0, token |-> None,
           leaseUntil |-> 0, first |-> 0]

Idle == [at |-> "idle", mail |-> None, row |-> NoMail, time |-> 0,
         token |-> None, taken |-> FALSE]

(* A run that enters a step now, with the row as it has read it. *)
Step(at, m, row, token) ==
    [at |-> at, mail |-> m, row |-> row, time |-> now, token |-> token, taken |-> FALSE]

Init ==
    /\ now = 1
    /\ mail = [m \in Mails |-> NoMail]
    /\ run = [w \in Workers |-> Idle]
    /\ batch = {}
    /\ late = {}
    /\ copies = [m \in Mails |-> 0]
    /\ keyed = [m \in Mails |-> 0]

-----------------------------------------------------------------------------
(* enqueueContent, inside the transaction of the business event; an event  *)
(* key that exists is skipped.                                             *)
Enqueue(m) ==
    /\ mail[m].status = "none"
    /\ mail' = [mail EXCEPT ![m] =
                   [status |-> "pending", attempts |-> 0, available |-> now,
                    token |-> None, leaseUntil |-> 0, first |-> 0]]
    /\ UNCHANGED <<now, run, batch, late, copies, keyed>>

-----------------------------------------------------------------------------
(* dispatch *)

Open(row) == row.status \in {"pending", "sending"}

DueAt(row, t) == row.available <= t /\ row.leaseUntil <= t

Read(w, m) ==
    /\ run[w] = Idle
    /\ mail[m].status # "none"
    /\ w = Scanner => m \in batch
    /\ batch' = IF w = Scanner THEN batch \ {m} ELSE batch
    /\ run' = [run EXCEPT ![w] = Step("read", m, mail[m], None)]
    /\ UNCHANGED <<now, mail, late, copies, keyed>>

(* Slip: one attempt too many. *)
SlipSpent(row) ==
    \/ row.attempts > MaxAttempts
    \/ row.first # 0 /\ now - row.first >= RetryWindow

(* Slip: the age of the first attempt is not looked at. *)
SlipSpentWindow(row) == row.attempts >= MaxAttempts

(* No attempts are left, or the provider may soon forget the key. *)
Spent(row) ==
    \/ row.attempts >= MaxAttempts
    \/ row.first # 0 /\ now - row.first >= RetryWindow

(* The row has arrived; the clock is read and kept for the claim. *)
Decide(w) ==
    LET row == run[w].row IN
    /\ run[w].at = "read"
    /\ run' = [run EXCEPT ![w] =
                  IF ~Open(row) \/ ~DueAt(row, now) THEN Idle
                  ELSE Step(IF Spent(row) THEN "expire" ELSE "claim",
                            run[w].mail, row, None)]
    /\ UNCHANGED <<now, mail, batch, late, copies, keyed>>

(* Every settlement gives the lease back. *)
Settled(row, status, available) ==
    [status |-> status, attempts |-> row.attempts, available |-> available,
     token |-> None, leaseUntil |-> 0, first |-> row.first]

Expirable(w) ==
    LET m == run[w].mail IN
    mail[m].status # "sent" /\ mail[m].token = run[w].row.token

Expire(w) ==
    LET m == run[w].mail IN
    /\ run[w].at = "expire"
    /\ mail' = IF Expirable(w)
               THEN [mail EXCEPT ![m] = Settled(mail[m], "failed", mail[m].available)]
               ELSE mail
    /\ run' = [run EXCEPT ![w] = Idle]
    /\ UNCHANGED <<now, batch, late, copies, keyed>>

(* Slip: the lease is not part of the claim's condition. *)
SlipClaimable(row, t) == Open(row) /\ row.available <= t

(* Slip: the status is not part of the claim's condition. *)
SlipClaimableOpen(row, t) == DueAt(row, t)

Claimable(row, t) == Open(row) /\ DueAt(row, t)

(* Slip: every attempt restarts the window. *)
SlipFirstAttempt(row, t) == t

FirstAttempt(row, t) == IF row.first = 0 THEN t ELSE row.first

(* The conditional update takes the lease; the request goes out.  A token  *)
(* is fresh: the number of the claim serves for the random one.            *)
Leased(row, read, t) ==
    [status |-> "sending", attempts |-> row.attempts + 1, available |-> row.available,
     token |-> row.attempts + 1, leaseUntil |-> t + Lease,
     first |-> FirstAttempt(read, t)]

Claim(w) ==
    LET m == run[w].mail IN
    /\ run[w].at = "claim"
    /\ Claimable(mail[m], run[w].time)
    /\ mail' = [mail EXCEPT ![m] = Leased(mail[m], run[w].row, run[w].time)]
    /\ run' = [run EXCEPT ![w] =
                  Step("sending", m, run[w].row, mail[m].attempts + 1)]
    /\ UNCHANGED <<now, batch, late, copies, keyed>>

ClaimLost(w) ==
    /\ run[w].at = "claim"
    /\ ~Claimable(mail[run[w].mail], run[w].time)
    /\ run' = [run EXCEPT ![w] = Idle]
    /\ UNCHANGED <<now, mail, batch, late, copies, keyed>>

(* Slip: an answer without a message id counts as an acceptance. *)
SlipAccepted(w) == TRUE

Accepted(w) == run[w].taken

(* sendEmail returns the provider's id, *)
Confirmed(w) ==
    /\ run[w].at = "sending"
    /\ Accepted(w)
    /\ run' = [run EXCEPT ![w].at = "confirmed"]
    /\ UNCHANGED <<now, mail, batch, late, copies, keyed>>

(* What becomes of a request whose sender stops waiting for the answer. *)
GivesUp(w) ==
    IF run[w].at = "sending" /\ ~run[w].taken
    THEN late' \in {late, late \cup {[mail |-> run[w].mail, by |-> run[w].time + WireLimit]}}
    ELSE late' = late

(* or throws: the provider refused, the call timed out, the answer was lost. *)
Unconfirmed(w) ==
    /\ run[w].at = "sending"
    /\ GivesUp(w)
    /\ run' = [run EXCEPT ![w].at = "unconfirmed"]
    /\ UNCHANGED <<now, mail, batch, copies, keyed>>

HoldsLease(w) ==
    LET m == run[w].mail IN
    mail[m].token = run[w].token /\ mail[m].status # "sent"

SettleSent(w) ==
    LET m == run[w].mail IN
    /\ run[w].at = "confirmed"
    /\ mail' = IF HoldsLease(w)
               THEN [mail EXCEPT ![m] = Settled(mail[m], "sent", mail[m].available)]
               ELSE mail
    /\ run' = [run EXCEPT ![w] = Idle]
    /\ UNCHANGED <<now, batch, late, copies, keyed>>

Retried(row, attempts) ==
    Settled(row, IF attempts >= MaxAttempts THEN "failed" ELSE "pending",
            now + Backoff[attempts])

(* The catch block; a confirmed send ends here too when the database       *)
(* refuses the update that records it.                                     *)
SettleRetry(w) ==
    LET m == run[w].mail IN
    /\ run[w].at \in {"confirmed", "unconfirmed"}
    /\ mail' = IF HoldsLease(w)
               THEN [mail EXCEPT ![m] = Retried(mail[m], run[w].row.attempts + 1)]
               ELSE mail
    /\ run' = [run EXCEPT ![w] = Idle]
    /\ UNCHANGED <<now, batch, late, copies, keyed>>

(* The database is unreachable, or the process dies with its scan. *)
Stops(w) ==
    /\ run[w] # Idle
    /\ GivesUp(w)
    /\ run' = [run EXCEPT ![w] = Idle]
    /\ batch' \in IF w = Scanner THEN {batch, {}} ELSE {batch}
    /\ UNCHANGED <<now, mail, copies, keyed>>

-----------------------------------------------------------------------------
(* retryPending *)

(* Slip: a row in sending is left to its holder. *)
SlipDue(m) == mail[m].status = "pending" /\ DueAt(mail[m], now)

Due(m) == Open(mail[m]) /\ DueAt(mail[m], now)

(* The oldest due rows, a page of them, unless a scan is still running. *)
Scan(page) ==
    /\ batch = {}
    /\ run[Scanner] = Idle
    /\ page # {}
    /\ \A m \in page : Due(m)
    /\ \A m \in page, k \in Mails \ page :
          Due(k) => mail[m].available <= mail[k].available
    /\ Cardinality(page) <= Page
    /\ (\E k \in Mails \ page : Due(k)) => Cardinality(page) = Page
    /\ batch' = page
    /\ UNCHANGED <<now, mail, run, late, copies, keyed>>

-----------------------------------------------------------------------------
(* The e-mail provider, as the code uses it: a request whose key it        *)
(* remembers is answered with the first one's id and sends nothing.        *)

KeyKnown(m) == keyed[m] # 0 /\ now < keyed[m] + KeyLife

Takes(m) ==
    IF KeyKnown(m) THEN UNCHANGED <<copies, keyed>>
    ELSE /\ copies' = [copies EXCEPT ![m] = @ + 1]
         /\ keyed' = [keyed EXCEPT ![m] = now]

ProviderTakes(w) ==
    /\ run[w].at = "sending"
    /\ ~run[w].taken
    /\ Takes(run[w].mail)
    /\ run' = [run EXCEPT ![w].taken = TRUE]
    /\ UNCHANGED <<now, mail, batch, late>>

ProviderTakesLate(call) ==
    /\ Takes(call.mail)
    /\ late' = late \ {call}
    /\ UNCHANGED <<now, mail, run, batch>>

ProviderLoses(call) ==
    /\ late' = late \ {call}
    /\ UNCHANGED <<now, mail, run, batch, copies, keyed>>

(* A run waits for no answer longer than its limit: it goes on or stops. *)
InTime(w) ==
    /\ run[w].at \in {"read", "claim", "expire"} => now < run[w].time + Pause
    /\ run[w].at = "sending" => now < run[w].time + SendLimit
    /\ run[w].at = "sending" /\ ~run[w].taken => now < run[w].time + WireLimit

Tick ==
    /\ now < MaxNow
    /\ \A w \in Workers : InTime(w)
    /\ \A call \in late : now < call.by
    /\ now' = now + 1
    /\ UNCHANGED <<mail, run, batch, late, copies, keyed>>

-----------------------------------------------------------------------------

Dispatch(w) ==
    \/ \E m \in Mails : Read(w, m)
    \/ Decide(w)
    \/ Expire(w)
    \/ Claim(w)
    \/ ClaimLost(w)
    \/ Confirmed(w)
    \/ Unconfirmed(w)
    \/ SettleSent(w)
    \/ SettleRetry(w)
    \/ Stops(w)

Next ==
    \/ \E m \in Mails : Enqueue(m)
    \/ \E w \in Workers : Dispatch(w) \/ ProviderTakes(w)
    \/ \E page \in SUBSET Mails : Scan(page)
    \/ \E call \in late : ProviderTakesLate(call) \/ ProviderLoses(call)
    \/ Tick

Spec == Init /\ [][Next]_vars

(* The timer fires every minute in every worker process; a scan that keeps *)
(* being possible runs, and not every one of them dies at the same point.  *)
RetryFairness ==
    /\ SF_vars(\E page \in SUBSET Mails : Scan(page))
    /\ SF_vars(\E m \in Mails : Read(Scanner, m))
    /\ SF_vars(Decide(Scanner))
    /\ SF_vars(Claim(Scanner) \/ ClaimLost(Scanner))
    /\ SF_vars(Expire(Scanner))
    /\ WF_vars(Stops(Scanner))

FairSpec == Spec /\ RetryFairness

-----------------------------------------------------------------------------
(* Properties *)

Time == Nat
MailRecord == [status : {"none", "pending", "sending", "sent", "failed"},
               attempts : Nat, available : Time, token : Nat \cup {None},
               leaseUntil : Time, first : Time]
RunRecord == [at : {"idle", "read", "claim", "expire", "sending", "confirmed",
                    "unconfirmed"},
              mail : Mails \cup {None}, row : MailRecord, time : Time,
              token : Nat \cup {None}, taken : BOOLEAN]
LateRecord == [mail : Mails, by : Time]

(* Every variable has its type, and a row carries a lease token exactly     *)
(* while it carries a lease, which it does only in sending.                 *)
TypeOK ==
    /\ now \in Time
    /\ mail \in [Mails -> MailRecord]
    /\ run \in [Workers -> RunRecord]
    /\ batch \subseteq Mails
    /\ late \subseteq LateRecord
    /\ copies \in [Mails -> Nat]
    /\ keyed \in [Mails -> Time]
    /\ \A w \in Workers : run[w].at # "idle" => run[w].mail \in Mails
    /\ \A m \in Mails :
          /\ mail[m].token # None <=> mail[m].leaseUntil # 0
          /\ mail[m].token # None <=> mail[m].status = "sending"

(* "Atomic database leases prevent simultaneous sends by HTTP instances/    *)
(* workers": no two runs wait for the provider with one message, even when  *)
(* a lease has expired and been taken over.                                 *)
OneSender ==
    \A w, x \in Workers :
        /\ run[w].at = "sending" /\ run[x].at = "sending"
        /\ run[w].mail = run[x].mail
        => w = x

(* No message reaches its recipient twice, whatever was lost, retried or    *)
(* accepted late: the retries of an ambiguous send stay inside the life of  *)
(* the provider's key.                                                      *)
NoDuplicateDelivery == \A m \in Mails : copies[m] <= 1

(* "Automatic retries stop after eight attempts or 23 hours from the first  *)
(* attempt": however many runs hold an old copy of the row.  A request      *)
(* leaves at most one database answer after the clock was looked at.        *)
RetriesStop ==
    /\ \A m \in Mails : mail[m].attempts <= MaxAttempts
    /\ \A w \in Workers :
          run[w].at = "sending" =>
              run[w].time - mail[run[w].mail].first < RetryWindow + Pause

(* "sent" means that the provider accepted the message.                     *)
SentWasAccepted == \A m \in Mails : mail[m].status = "sent" => copies[m] > 0

(* A row that was sent or given up is never taken up again.                 *)
SettledIsFinal ==
    [][ \A m \in Mails : mail[m].status \in {"sent", "failed"} =>
                            mail'[m] = mail[m] ]_vars

(* A run that claims a row it read before another run's attempt would move  *)
(* the start of the retry window: the first attempt's date never changes.   *)
FirstAttemptFixed ==
    [][ \A m \in Mails : mail[m].first # 0 => mail'[m].first = mail[m].first ]_vars

(* "A worker can recover an expired lease": no row stays due, neither one   *)
(* whose holder died nor one that is behind others in the queue.            *)
Unattended(m) == Open(mail[m]) /\ DueAt(mail[m], now)

DueIsTaken == \A m \in Mails : Unattended(m) ~> ~Unattended(m)

-----------------------------------------------------------------------------
(* The inductive invariant behind the safety properties *)

Calling(w) == run[w].at \in {"sending", "confirmed", "unconfirmed"}

(* The copy of the row in hand is not newer than the row, and while both    *)
(* carry the same token they carry the same lease.                          *)
CopiesAreOld ==
    \A w \in Workers : run[w].at # "idle" =>
        LET row == run[w].row
            current == mail[run[w].mail]
        IN
        /\ current.status # "none"
        /\ row.attempts <= current.attempts
        /\ row.token # None => row.token <= row.attempts /\ row.leaseUntil # 0
        /\ run[w].at \in {"read", "claim", "expire"} /\ row.token # None
              /\ row.token = current.token => row.leaseUntil = current.leaseUntil
        /\ run[w].at = "expire" => row.leaseUntil <= run[w].time
        /\ run[w].at = "claim" \/ Calling(w) => row.attempts < MaxAttempts

(* A copy that has missed an attempt cannot claim: the attempt left a lease *)
(* or a delay behind that outlasts the copy, or closed the row.             *)
Outdated(w) == run[w].row.attempts # mail[run[w].mail].attempts

LatestClaim(w) == IF run[w].at = "read" THEN run[w].time + Pause ELSE run[w].time

OutdatedIsBlocked ==
    \A w \in Workers : run[w].at \in {"read", "claim"} =>
        LET row == mail[run[w].mail] IN
        IF Outdated(w)
        THEN ~Open(row) \/ ~DueAt(row, LatestClaim(w))
        ELSE run[w].row.first = row.first

(* The clock never passes the limit of a step. *)
StepsInTime ==
    /\ now > 0
    /\ \A w \in Workers : run[w].at # "idle" =>
          /\ 0 < run[w].time /\ run[w].time <= now
          /\ run[w].at \in {"read", "claim", "expire"} => now <= run[w].time + Pause
          /\ run[w].at = "sending" => now <= run[w].time + SendLimit
          /\ run[w].at = "sending" /\ ~run[w].taken => now <= run[w].time + WireLimit
          /\ run[w].at = "claim" /\ run[w].row.first # 0 =>
                 run[w].time - run[w].row.first < RetryWindow
    /\ \A call \in late : now <= call.by

(* Who waits for the provider holds the lease, and it outlasts the wait. *)
SendersHoldLease ==
    \A w \in Workers : run[w].at = "sending" =>
        LET row == mail[run[w].mail] IN
        /\ row.status = "sending"
        /\ row.token = run[w].token
        /\ row.leaseUntil > run[w].time + SendLimit
        /\ row.first # 0
        /\ run[w].time - row.first < RetryWindow + Pause

TokensDiffer ==
    /\ \A m \in Mails : mail[m].token # None => mail[m].token <= mail[m].attempts
    /\ \A w \in Workers : Calling(w) =>
          run[w].token # None /\ run[w].token <= mail[run[w].mail].attempts
    /\ \A w, x \in Workers :
          Calling(w) /\ Calling(x) /\ run[w].mail = run[x].mail
             /\ run[w].token = run[x].token => w = x

(* The provider learned the key no earlier than the row says. *)
KeysFollowFirst ==
    \A m \in Mails :
        /\ mail[m].first <= now
        /\ mail[m].status = "none" => mail[m].first = 0
        /\ copies[m] = 0 <=> keyed[m] = 0
        /\ keyed[m] # 0 => mail[m].first # 0 /\ mail[m].first <= keyed[m]

LateInWindow ==
    \A call \in late :
        /\ mail[call.mail].first # 0
        /\ call.by < mail[call.mail].first + RetryWindow + Pause + WireLimit

AcceptedWasSent ==
    \A w \in Workers :
        run[w].at = "confirmed" \/ (run[w].at = "sending" /\ run[w].taken) =>
            copies[run[w].mail] > 0

MailInv ==
    /\ CopiesAreOld
    /\ OutdatedIsBlocked
    /\ StepsInTime
    /\ SendersHoldLease
    /\ TokensDiffer
    /\ KeysFollowFirst
    /\ LateInWindow
    /\ AcceptedWasSent
    /\ NoDuplicateDelivery
    /\ SentWasAccepted
    /\ RetriesStop
=============================================================================
