----------------------------- MODULE EventTickets -----------------------------
(***************************************************************************)
(* Registrations, tickets and admission of one event:                      *)
(* src/events/events.service.ts, with the settlement of its payments in    *)
(* src/giving/giving.service.ts and the callback controllers.              *)
(*                                                                         *)
(* A registration is made before it is paid; the payment is settled by     *)
(* callbacks and by the payer's browser; a ticket is issued, cancelled and *)
(* used by other requests.  Only the claims of confirmTicketPayment and    *)
(* validateTicket and the unique keys are atomic: everything else reads,   *)
(* awaits, and writes.  A request that only reads one table after the      *)
(* other does so in one step: what it read is old either way.              *)
(*                                                                         *)
(* One tier, one ticket per registration, members only.  A registration,   *)
(* its payment and its ticket share a name of Regs: their keys are unique  *)
(* columns (registration_id, payment_reference).                           *)
(***************************************************************************)
EXTENDS Integers, FiniteSets

CONSTANTS
    Members,      \* members of the church
    Regs,         \* registrations, each used once
    Workers,      \* requests in progress
    Capacity,     \* capacity of the event
    TierCapacity, \* capacity of the tier
    MaxDeaths,    \* bound on the requests that die half-way
    None

ASSUME TicketAssumption ==
    /\ {Capacity, TierCapacity, MaxDeaths} \subseteq Nat
    /\ None \notin Regs \cup Members \cup {"hand"}

VARIABLES
    reg,        \* event_registrations
    ticket,     \* tickets
    txn,        \* status of the transactions row
    gw,         \* what the gateway has under the reference
    sent,       \* callbacks the gateway has not been answered
    attendance, \* the attendance row of a member: a ticket, "hand" or None
    run,        \* requests in progress
    deaths      \* requests that died so far

vars == <<reg, ticket, txn, gw, sent, attendance, run, deaths>>

NoReg == [state |-> "none", member |-> None, kind |-> "none",
          linked |-> FALSE, checked |-> FALSE]
NoTicket == [state |-> "none", used |-> FALSE]
Idle == [at |-> "idle", reg |-> None, member |-> None, kind |-> "none",
         seen |-> "none"]

Init ==
    /\ reg = [r \in Regs |-> NoReg]
    /\ ticket = [r \in Regs |-> NoTicket]
    /\ txn = [r \in Regs |-> "none"]
    /\ gw = [r \in Regs |-> "none"]
    /\ sent = {}
    /\ attendance = [m \in Members |-> None]
    /\ run = [w \in Workers |-> Idle]
    /\ deaths = 0

(* Rows that exist.  (event, member) is a unique key. *)
Present(r) == reg[r].state \in {"pending", "paid"}
Registered == {r \in Regs : Present(r)}
RegOf(m) == {r \in Registered : reg[r].member = m}

(* Slip: the key does not hold, or a registration does not count. *)
SlipKeyFree(m) == Cardinality(RegOf(m)) <= 1

KeyFree(m) == RegOf(m) = {}

(* Bound: a request that may insert a row starts only while Regs has one   *)
(* more than the requests that are about to insert theirs.                 *)
Spare ==
    Cardinality({w \in Workers : run[w].at \in {"enrol", "assign"}})
        < Cardinality({r \in Regs : reg[r].state = "none"})

At(w, at) == run[w].at = at
Done(w) == run' = [run EXCEPT ![w] = Idle]
GoesTo(w, at, r) ==
    run' = [run EXCEPT ![w] = [at |-> at, reg |-> r, member |-> run[w].member,
                               kind |-> run[w].kind, seen |-> "none"]]

-----------------------------------------------------------------------------
(* Registration *)

(* What registerForEvent finds before it writes. *)
HasRoom(kind) ==
    /\ Cardinality(Registered) < Capacity
    /\ kind = "online" =>
          Cardinality({r \in Regs : reg[r].state = "paid" /\ reg[r].kind = "online"})
              < TierCapacity

Register(w, m, kind) ==
    /\ At(w, "idle")
    /\ Spare
    /\ KeyFree(m)
    /\ HasRoom(kind)
    /\ run' = [run EXCEPT ![w] = [at |-> "enrol", reg |-> None, member |-> m,
                                  kind |-> kind, seen |-> "none"]]
    /\ UNCHANGED <<reg, ticket, txn, gw, sent, attendance, deaths>>

NewReg(m, kind) ==
    [state |-> IF kind = "online" THEN "pending" ELSE "paid", member |-> m,
     kind |-> kind, linked |-> FALSE, checked |-> FALSE]

(* The row is inserted, unless the member has got one meanwhile. *)
Enrol(w, r) ==
    /\ At(w, "enrol")
    /\ reg[r].state = "none"
    /\ KeyFree(run[w].member)
    /\ reg' = [reg EXCEPT ![r] = NewReg(run[w].member, run[w].kind)]
    /\ GoesTo(w, IF run[w].kind = "online" THEN "prepare" ELSE "issue", r)
    /\ UNCHANGED <<ticket, txn, gw, sent, attendance, deaths>>

EnrolFails(w) ==
    /\ run[w].at \in {"enrol", "assign"}
    /\ ~KeyFree(run[w].member)
    /\ Done(w)
    /\ UNCHANGED <<reg, ticket, txn, gw, sent, attendance, deaths>>

(* A free registration gets its ticket, and then the link to it. *)
Issue(w) ==
    LET r == run[w].reg IN
    /\ At(w, "issue")
    /\ ticket' = [ticket EXCEPT ![r] = [state |-> "paid", used |-> FALSE]]
    /\ GoesTo(w, "link", r)
    /\ UNCHANGED <<reg, txn, gw, sent, attendance, deaths>>

Link(w) ==
    LET r == run[w].reg IN
    /\ At(w, "link")
    /\ reg' = IF Present(r) THEN [reg EXCEPT ![r].linked = TRUE] ELSE reg
    /\ Done(w)
    /\ UNCHANGED <<ticket, txn, gw, sent, attendance, deaths>>

(* The transaction is stored, and its id in the registration, if that is   *)
(* still there.                                                            *)
Prepare(w) ==
    LET r == run[w].reg IN
    /\ At(w, "prepare")
    /\ txn' = [txn EXCEPT ![r] = "pending"]
    /\ IF Present(r) THEN GoesTo(w, "open", r) ELSE Done(w)
    /\ UNCHANGED <<reg, ticket, gw, sent, attendance, deaths>>

(* The gateway opens a payment page, or refuses. *)
OpenPage(w) ==
    /\ At(w, "open")
    /\ gw' \in {gw, [gw EXCEPT ![run[w].reg] = "open"]}
    /\ Done(w)
    /\ UNCHANGED <<reg, ticket, txn, sent, attendance, deaths>>

(* createTicket by staff, or by a member for a ticket that costs nothing. *)
Assign(w, m) ==
    /\ At(w, "idle")
    /\ Spare
    /\ \A r \in Regs : reg[r].member = m => ticket[r].state # "paid"
    /\ Cardinality({r \in Regs : ticket[r].state = "paid"}) < TierCapacity
    /\ run' = [run EXCEPT ![w] = [at |-> "assign", reg |-> None, member |-> m,
                                  kind |-> "staff", seen |-> "none"]]
    /\ UNCHANGED <<reg, ticket, txn, gw, sent, attendance, deaths>>

(* Its transaction stores registration, ticket and link, or nothing. *)
Assigned(w, r) ==
    /\ At(w, "assign")
    /\ reg[r].state = "none"
    /\ KeyFree(run[w].member)
    /\ reg' = [reg EXCEPT ![r] = [state |-> "paid", member |-> run[w].member,
                                  kind |-> "staff", linked |-> TRUE, checked |-> FALSE]]
    /\ ticket' = [ticket EXCEPT ![r] = [state |-> "paid", used |-> FALSE]]
    /\ Done(w)
    /\ UNCHANGED <<txn, gw, sent, attendance, deaths>>

-----------------------------------------------------------------------------
(* The gateway *)

(* A declined try leaves the page open. *)
PayerDeclined(r) ==
    /\ gw[r] = "open"
    /\ sent' = sent \cup {<<r, "failed">>}
    /\ UNCHANGED <<reg, ticket, txn, gw, attendance, run, deaths>>

(* The charge may be of another amount or currency than the transaction. *)
PayerPays(r) ==
    /\ gw[r] = "open"
    /\ gw' = [gw EXCEPT ![r] = "charged"]
    /\ sent' = sent \cup {<<r, "success">>}
    /\ UNCHANGED <<reg, ticket, txn, attendance, run, deaths>>

PayerPaysOther(r) ==
    /\ gw[r] = "open"
    /\ gw' = [gw EXCEPT ![r] = "wrong"]
    /\ sent' = sent \cup {<<r, "success">>}
    /\ UNCHANGED <<reg, ticket, txn, attendance, run, deaths>>

-----------------------------------------------------------------------------
(* Settlement *)

(* Slip: a successful charge is enough, whatever was charged. *)
SlipVerified(r) == gw[r] \in {"charged", "wrong"}

(* The gateway confirms status, amount, currency and reference. *)
Verified(r) == gw[r] = "charged"

(* verifyPayment in the payer's browser writes what the gateway says,      *)
(* whatever the row holds by then.                                         *)
VerifyPayment(r) ==
    /\ txn[r] # "none"
    /\ Verified(r)
    /\ txn' = [txn EXCEPT ![r] = "success"]
    /\ UNCHANGED <<reg, ticket, gw, sent, attendance, run, deaths>>

(* handleWebhook reads the row; a success is confirmed with the gateway. *)
HandleWebhook(w, r, kind) ==
    /\ At(w, "idle")
    /\ <<r, kind>> \in sent
    /\ kind = "success" => Verified(r)
    /\ run' = [run EXCEPT ![w] = [at |-> "notified", reg |-> r, member |-> reg[r].member,
                                  kind |-> kind, seen |-> txn[r]]]
    /\ UNCHANGED <<reg, ticket, txn, gw, sent, attendance, deaths>>

Terminal(status) == status \in {"success", "failed"}

(* The terminal check uses the row that was read. *)
RecordEvent(w) ==
    LET r == run[w].reg IN
    /\ At(w, "notified")
    /\ txn' = IF Terminal(run[w].seen) THEN txn ELSE [txn EXCEPT ![r] = run[w].kind]
    /\ GoesTo(w, "recorded", r)
    /\ UNCHANGED <<reg, ticket, gw, sent, attendance, deaths>>

(* The gateway is answered and takes the callback off its list, unless the *)
(* answer is lost.                                                         *)
Answered(w) == sent' \in {sent, sent \ {<<run[w].reg, run[w].kind>>}}

(* Slip: a payment that is booked is taken for confirmed. *)
SlipAwaitsTicket(r) == reg[r].state = "pending" /\ txn[r] # "success"

(* confirmTicketPayment goes on with a pending registration only. *)
AwaitsTicket(r) == reg[r].state = "pending"

(* The controller confirms the ticket of a payment it finds successful. *)
ConfirmBooked(w) ==
    LET r == run[w].reg IN
    /\ At(w, "recorded")
    /\ IF txn[r] = "success" /\ AwaitsTicket(r)
       THEN Verified(r) /\ GoesTo(w, "claim", r) /\ sent' = sent
       ELSE Done(w) /\ (IF Present(r) THEN Answered(w) ELSE sent' = sent)
    /\ UNCHANGED <<reg, ticket, txn, gw, attendance, deaths>>

(* The event's own callback confirms without a look at the transaction. *)
ConfirmCharged(w, r) ==
    /\ At(w, "idle")
    /\ <<r, "success">> \in sent
    /\ Verified(r)
    /\ AwaitsTicket(r)
    /\ run' = [run EXCEPT ![w] = [at |-> "claim", reg |-> r, member |-> reg[r].member,
                                  kind |-> "success", seen |-> "none"]]
    /\ UNCHANGED <<reg, ticket, txn, gw, sent, attendance, deaths>>

(* One transaction claims the pending registration, issues the ticket and  *)
(* books the payment.                                                      *)
Settle(w) ==
    LET r == run[w].reg IN
    /\ At(w, "claim")
    /\ reg[r].state = "pending"
    /\ reg' = [reg EXCEPT ![r] = [state |-> "paid", member |-> reg[r].member,
                                  kind |-> reg[r].kind, linked |-> TRUE,
                                  checked |-> reg[r].checked]]
    /\ ticket' = [ticket EXCEPT ![r] = [state |-> "paid", used |-> FALSE]]
    /\ txn' = [txn EXCEPT ![r] = "success"]
    /\ Answered(w)
    /\ Done(w)
    /\ UNCHANGED <<gw, attendance, deaths>>

(* Another callback was first, or the registration is gone. *)
SettleLost(w) ==
    LET r == run[w].reg IN
    /\ At(w, "claim")
    /\ reg[r].state # "pending"
    /\ IF Present(r) THEN Answered(w) ELSE sent' = sent
    /\ Done(w)
    /\ UNCHANGED <<reg, ticket, txn, gw, attendance, deaths>>

-----------------------------------------------------------------------------
(* Cancellation *)

Cancel(w, m) ==
    /\ At(w, "idle")
    /\ \E r \in RegOf(m) :
          run' = [run EXCEPT ![w] =
                     [at |-> IF reg[r].linked THEN "void" ELSE "delete", reg |-> r,
                      member |-> m, kind |-> "none", seen |-> "none"]]
    /\ UNCHANGED <<reg, ticket, txn, gw, sent, attendance, deaths>>

(* The ticket the registration was linked to is cancelled. *)
VoidTicket(w) ==
    LET r == run[w].reg IN
    /\ At(w, "void")
    /\ ticket' = [ticket EXCEPT ![r].state = "cancelled"]
    /\ GoesTo(w, "delete", r)
    /\ UNCHANGED <<reg, txn, gw, sent, attendance, deaths>>

(* Whatever registration the member has by now is deleted. *)
DeleteReg(w) ==
    /\ At(w, "delete")
    /\ reg' = [r \in Regs |-> IF r \in RegOf(run[w].member)
                              THEN [state |-> "gone", member |-> reg[r].member,
                                    kind |-> reg[r].kind, linked |-> reg[r].linked,
                                    checked |-> reg[r].checked]
                              ELSE reg[r]]
    /\ Done(w)
    /\ UNCHANGED <<ticket, txn, gw, sent, attendance, deaths>>

-----------------------------------------------------------------------------
(* Admission *)

Usable(r) == ticket[r].state = "paid" /\ ~ticket[r].used

(* validateTicket finds a ticket that is good. *)
Scan(w, r) ==
    /\ At(w, "idle")
    /\ Usable(r)
    /\ run' = [run EXCEPT ![w] = [at |-> "admit", reg |-> r, member |-> reg[r].member,
                                  kind |-> "none", seen |-> "none"]]
    /\ UNCHANGED <<reg, ticket, txn, gw, sent, attendance, deaths>>

(* Slip: the claim asks whether the ticket was used, not whether it is paid. *)
SlipClaims(r) == ~ticket[r].used

Claims(r) == Usable(r)

(* Slip: a member who is inside is written over. *)
SlipAttends(r) == Present(r) /\ ~reg[r].checked

(* The attendance key of the member is free, and the registration is there *)
(* and not checked in; otherwise the claim is rolled back.                 *)
Attends(r) ==
    /\ attendance[reg[r].member] = None
    /\ Present(r)
    /\ ~reg[r].checked

Admit(w) ==
    LET r == run[w].reg IN
    /\ At(w, "admit")
    /\ IF Claims(r) /\ Attends(r)
       THEN /\ ticket' = [ticket EXCEPT ![r].used = TRUE]
            /\ attendance' = [attendance EXCEPT ![reg[r].member] = r]
            /\ reg' = [reg EXCEPT ![r].checked = TRUE]
       ELSE UNCHANGED <<reg, ticket, attendance>>
    /\ Done(w)
    /\ UNCHANGED <<txn, gw, sent, deaths>>

(* checkInAttendee, and each member of bulkCheckInAttendees. *)
CheckIn(w, m) ==
    /\ At(w, "idle")
    /\ attendance[m] = None
    /\ \A r \in RegOf(m) : ~reg[r].checked
    /\ \E r \in IF RegOf(m) = {} THEN {None} ELSE RegOf(m) :
          run' = [run EXCEPT ![w] = [at |-> "attend", reg |-> r, member |-> m,
                                     kind |-> "none", seen |-> "none"]]
    /\ UNCHANGED <<reg, ticket, txn, gw, sent, attendance, deaths>>

(* The attendance row is inserted, or its key is taken. *)
Attend(w) ==
    LET m == run[w].member IN
    /\ At(w, "attend")
    /\ IF attendance[m] = None
       THEN /\ attendance' = [attendance EXCEPT ![m] = "hand"]
            /\ IF run[w].reg = None THEN Done(w) ELSE GoesTo(w, "mark", run[w].reg)
       ELSE attendance' = attendance /\ Done(w)
    /\ UNCHANGED <<reg, ticket, txn, gw, sent, deaths>>

Mark(w) ==
    LET r == run[w].reg IN
    /\ At(w, "mark")
    /\ reg' = IF Present(r) THEN [reg EXCEPT ![r].checked = TRUE] ELSE reg
    /\ Done(w)
    /\ UNCHANGED <<ticket, txn, gw, sent, attendance, deaths>>

(* walkInCheckIn is one transaction: it checks in the registration of the  *)
(* member, or makes one, without a ticket and without a look at capacity.  *)
WalkIn(m, r) ==
    /\ attendance[m] = None
    /\ \/ r \in RegOf(m) /\ ~reg[r].checked
          /\ reg' = [reg EXCEPT ![r].checked = TRUE]
       \/ KeyFree(m) /\ Spare /\ reg[r].state = "none"
          /\ reg' = [reg EXCEPT ![r] = [state |-> "paid", member |-> m, kind |-> "staff",
                                        linked |-> FALSE, checked |-> TRUE]]
    /\ attendance' = [attendance EXCEPT ![m] = "hand"]
    /\ UNCHANGED <<ticket, txn, gw, sent, run, deaths>>

-----------------------------------------------------------------------------

(* The process dies, or the database fails, between two steps. *)
Dies(w) ==
    /\ ~At(w, "idle")
    /\ deaths < MaxDeaths
    /\ deaths' = deaths + 1
    /\ Done(w)
    /\ UNCHANGED <<reg, ticket, txn, gw, sent, attendance>>

Continue(w) ==
    \/ \E r \in Regs : Enrol(w, r) \/ Assigned(w, r)
    \/ EnrolFails(w) \/ Issue(w) \/ Link(w) \/ Prepare(w) \/ OpenPage(w)
    \/ RecordEvent(w) \/ ConfirmBooked(w) \/ Settle(w) \/ SettleLost(w)
    \/ VoidTicket(w) \/ DeleteReg(w)
    \/ Admit(w) \/ Attend(w) \/ Mark(w)

Start(w) ==
    \/ \E m \in Members :
          \/ \E kind \in {"online", "free"} : Register(w, m, kind)
          \/ Assign(w, m) \/ Cancel(w, m) \/ CheckIn(w, m)
    \/ \E r \in Regs :
          \/ \E kind \in {"success", "failed"} : HandleWebhook(w, r, kind)
          \/ ConfirmCharged(w, r) \/ Scan(w, r)

Next ==
    \/ \E w \in Workers : Start(w) \/ Continue(w) \/ Dies(w)
    \/ \E r \in Regs : PayerDeclined(r) \/ PayerPays(r) \/ PayerPaysOther(r)
                       \/ VerifyPayment(r)
    \/ \E m \in Members, r \in Regs : WalkIn(m, r)

Spec == Init /\ [][Next]_vars

-----------------------------------------------------------------------------
(* Properties *)

Statuses == {"none", "pending", "success", "failed"}
Steps == {"idle", "enrol", "issue", "link", "prepare", "open", "assign", "notified",
          "recorded", "claim", "void", "delete", "admit", "attend", "mark"}
Kinds == {"none", "online", "free", "staff", "success", "failed"}

(* Every variable has its type; what is in progress was not made up.  *)
TypeOK ==
    /\ reg \in [Regs -> [state : {"none", "pending", "paid", "gone"},
                         member : Members \cup {None}, kind : Kinds,
                         linked : BOOLEAN, checked : BOOLEAN]]
    /\ ticket \in [Regs -> [state : {"none", "paid", "cancelled"}, used : BOOLEAN]]
    /\ txn \in [Regs -> Statuses]
    /\ gw \in [Regs -> {"none", "open", "charged", "wrong"}]
    /\ sent \subseteq Regs \X {"success", "failed"}
    /\ attendance \in [Members -> Regs \cup {"hand", None}]
    /\ run \in [Workers -> [at : Steps, reg : Regs \cup {None},
                            member : Members \cup {None}, kind : Kinds, seen : Statuses]]
    /\ deaths \in 0 .. MaxDeaths
    /\ \A m \in Members : Cardinality(RegOf(m)) <= 1

(* "Event tickets are issued only after confirmed payment": a ticket that   *)
(* was sold online stands for a charge of the right amount, whoever settled *)
(* it, after whatever other callbacks.                                      *)
TicketWasCharged ==
    \A r \in Regs :
        reg[r].kind = "online" /\ ticket[r].state # "none" => gw[r] = "charged"

(* "Ticket validation writes the same attendance identity as the roster;    *)
(* duplicate attendance rolls back the claim": a used ticket is the one its *)
(* member came in with, and a registration is checked in when its member    *)
(* is inside, by a ticket, by hand or as a walk-in.                         *)
AdmissionsAgree ==
    \A r \in Regs :
        /\ ticket[r].used => attendance[reg[r].member] = r
        /\ reg[r].checked => attendance[reg[r].member] # None

(* "Cancelled tickets cannot be consumed", also when the cancellation is    *)
(* between the look at the ticket and the admission, or has so far only     *)
(* deleted the registration.                                                *)
CancelledStaysOut ==
    [][\A r \in Regs :
          ticket'[r].used /\ ~ticket[r].used =>
              ticket[r].state = "paid" /\ Present(r)]_vars

(* The gateway stops to report a charge when it is answered: by then there  *)
(* is a ticket, the registration is gone, or a declined try was recorded,   *)
(* whoever booked the charge first and whichever requests died.             *)
AnsweredHasTicket ==
    [][\A r \in Regs :
          <<r, "success">> \in sent /\ <<r, "success">> \notin sent' =>
              ticket'[r].state # "none" \/ ~Present(r) \/ txn[r] = "failed"]_vars

-----------------------------------------------------------------------------
(* What comments claim and the code does not keep *)

(* registerForEvent refuses "if event is at capacity". *)
CapacityKept ==
    [][\A r \in Regs :
          reg[r].state = "none" /\ reg'[r].kind \in {"online", "free"} =>
              Cardinality(Registered) < Capacity]_vars

(* "Idempotent - skip if already in terminal state" *)
SettledPaymentIsFinal ==
    [][\A r \in Regs : txn[r] = "success" => txn'[r] = "success"]_vars
=============================================================================
