--------------------------- MODULE EventTicketsProofs ---------------------------
(***************************************************************************)
(* Proofs about EventTickets for any members, registrations, requests and  *)
(* limits.                                                                 *)
(*                                                                         *)
(* Between two awaits a request knows little of the rows it works on, and  *)
(* what it knows must not be undone by the others (Sound): rows move       *)
(* forward only (Forward).  The payment page of a registration is opened   *)
(* by the one request that stored it (OneOpener), so a charge, once made,  *)
(* stays made; what makes a ticket of it has asked the gateway.            *)
(***************************************************************************)
EXTENDS EventTickets, FiniteSetTheorems, TLAPS

-----------------------------------------------------------------------------
(* The invariant *)

Reg == [state : {"none", "pending", "paid", "gone"}, member : Members \cup {None},
        kind : Kinds, linked : BOOLEAN, checked : BOOLEAN]
Ticket == [state : {"none", "paid", "cancelled"}, used : BOOLEAN]
Run == [at : Steps, reg : Regs \cup {None}, member : Members \cup {None},
        kind : Kinds, seen : Statuses]

Typed ==
    /\ reg \in [Regs -> Reg]
    /\ ticket \in [Regs -> Ticket]
    /\ txn \in [Regs -> Statuses]
    /\ gw \in [Regs -> {"none", "open", "charged", "wrong"}]
    /\ sent \subseteq Regs \X {"success", "failed"}
    /\ attendance \in [Members -> Regs \cup {"hand", None}]
    /\ run \in [Workers -> Run]
    /\ deaths \in 0 .. MaxDeaths

(* (event, member) is a unique key. *)
OneEach ==
    \A r, s \in Registered : reg[r].member = reg[s].member => r = s

(* A name that is not used yet has nothing under it. *)
UnusedIsEmpty(r) ==
    /\ reg[r].state = "none" =>
          reg[r] = NoReg /\ ticket[r] = NoTicket /\ txn[r] = "none" /\ gw[r] = "none"
    /\ reg[r].state # "none" => reg[r].member \in Members

(* What is linked, and what was sold and paid, has a ticket. *)
TicketsExist(r) ==
    /\ reg[r].linked => ticket[r].state # "none"
    /\ reg[r].state = "paid" /\ reg[r].kind = "online" => ticket[r].state # "none"
    /\ ticket[r].used => ticket[r].state # "none"

(* Only what is sold has a payment page, and only a page sends callbacks. *)
PagesAreSold(r) ==
    /\ gw[r] # "none" => reg[r].kind = "online"
    /\ \A kind \in {"success", "failed"} : <<r, kind>> \in sent => gw[r] # "none"

RegsOK == \A r \in Regs : UnusedIsEmpty(r) /\ TicketsExist(r) /\ PagesAreSold(r)

(* What a request x that waits knows of its registration r and member m. *)
Knows(x, r, m) ==
    /\ x.at \in {"enrol", "assign", "void", "delete", "attend", "mark"} => m \in Members
    /\ x.at \in {"issue", "link", "prepare", "open", "notified", "recorded", "claim",
                 "void", "delete", "admit", "mark"} => r \in Regs
    /\ r # None => reg[r].state # "none"
    /\ x.at = "attend" /\ r # None => reg[r].member = m
    /\ x.at = "mark" => reg[r].member = m /\ attendance[m] # None
    /\ x.at \in {"issue", "link"} => reg[r].kind # "online"
    /\ x.at \in {"link", "void"} => ticket[r].state # "none"
    /\ x.at \in {"prepare", "open", "notified", "recorded", "claim"} => reg[r].kind = "online"
    /\ x.at = "prepare" => txn[r] = "none"
    /\ x.at \in {"prepare", "open"} => gw[r] = "none"
    /\ x.at \in {"notified", "recorded"} => gw[r] # "none" /\ x.kind \in {"success", "failed"}
    /\ x.at = "notified" /\ Terminal(x.seen) => Terminal(txn[r])
    /\ x.at = "recorded" => Terminal(txn[r])
    /\ x.at = "claim" => gw[r] = "charged"

Sound(x) == Knows(x, x.reg, x.member)

RunsOK == \A w \in Workers : Sound(run[w])

Opens(w) == run[w].at \in {"prepare", "open"}

(* A payment page is opened by one request, the one that stored the row. *)
OneOpener ==
    \A v, w \in Workers : Opens(v) /\ Opens(w) /\ run[v].reg = run[w].reg => v = w

TicketInv ==
    /\ Typed
    /\ OneEach
    /\ RegsOK
    /\ RunsOK
    /\ OneOpener
    /\ TicketWasCharged
    /\ AdmissionsAgree

-----------------------------------------------------------------------------
(* What steps do to each other *)

(* Rows move forward: what is there stays, whose it is and how it was      *)
(* bought is settled, and so are a charge and an attendance.               *)
Forward ==
    /\ \A r \in Regs :
          /\ reg[r].state # "none" =>
                /\ reg'[r].state # "none"
                /\ reg'[r].member = reg[r].member
                /\ reg'[r].kind = reg[r].kind
          /\ ticket[r].state # "none" => ticket'[r].state # "none"
          /\ Terminal(txn[r]) => Terminal(txn'[r])
          /\ gw[r] # "none" => gw'[r] # "none"
          /\ gw[r] = "charged" => gw'[r] = "charged"
    /\ \A m \in Members : attendance[m] # None => attendance'[m] = attendance[m]

(* Who opens the page of a registration is alone with its payment. *)
LeavesAlone(x) ==
    x.at \in {"prepare", "open"} => gw'[x.reg] = gw[x.reg] /\ txn'[x.reg] = txn[x.reg]

(* What a request knows stays true while rows move forward. *)
LEMMA SoundStays ==
    ASSUME Typed, Forward, NEW x \in Run, Sound(x), LeavesAlone(x)
    PROVE  Sound(x)'
<1>1. x.reg \in Regs \cup {None} /\ x.member \in Members \cup {None}
  BY DEF Run
<1>2. QED
  BY <1>1, TicketAssumption DEF Forward, Sound, Knows, LeavesAlone

Moves(w, x) == run' = [run EXCEPT ![w] = x]

(* One request goes on; the others know what they knew. *)
LEMMA RunsStay ==
    ASSUME TicketInv, Forward, NEW w \in Workers, NEW x \in Run, Moves(w, x), Sound(x)',
           \A v \in Workers : v # w => LeavesAlone(run[v]),
           x.at \in {"prepare", "open"} =>
              \A v \in Workers : v # w /\ Opens(v) => run[v].reg # x.reg
    PROVE  run' \in [Workers -> Run] /\ RunsOK' /\ OneOpener'
<1>1. /\ run' \in [Workers -> Run] /\ run'[w] = x
      /\ \A v \in Workers : v # w => run'[v] = run[v]
  BY DEF Moves, TicketInv, Typed
<1>2. ASSUME NEW v \in Workers PROVE Sound(run[v])'
  <2>1. CASE v = w
    BY <1>1, <2>1 DEF Sound
  <2>2. CASE v # w
    <3> DEFINE y == run[v]
    <3>1. y \in Run /\ Sound(y) /\ LeavesAlone(y)
      BY <2>2 DEF TicketInv, Typed, RunsOK
    <3>2. run'[v] = y
      BY <1>1, <2>2
    <3>3. QED
      BY <3>1, <3>2, SoundStays DEF TicketInv
  <2>3. QED
    BY <2>1, <2>2
<1>3. OneOpener'
  BY <1>1 DEF TicketInv, OneOpener, Opens
<1>4. QED
  BY <1>1, <1>2, <1>3 DEF RunsOK

(* A request that writes no row but its own place disturbs nothing. *)
LEMMA QuietHolds ==
    ASSUME TicketInv, NEW w \in Workers, NEW x \in Run, Moves(w, x), Sound(x),
           x.at \notin {"prepare", "open"}, UNCHANGED <<reg, ticket, txn, gw, attendance>>,
           sent' \subseteq sent, deaths' \in 0 .. MaxDeaths
    PROVE  TicketInv'
<1>1. Forward
  BY DEF Forward
<1>2. Sound(x)'
  BY DEF Sound, Knows
<1>3. \A v \in Workers : LeavesAlone(run[v])
  BY DEF LeavesAlone
<1>4. run' \in [Workers -> Run] /\ RunsOK' /\ OneOpener'
  BY <1>1, <1>2, <1>3, RunsStay
<1>5. Typed'
  BY <1>4 DEF TicketInv, Typed
<1>6. RegsOK'
  BY DEF TicketInv, RegsOK, UnusedIsEmpty, TicketsExist, PagesAreSold
<1>7. OneEach' /\ TicketWasCharged' /\ AdmissionsAgree'
  BY DEF TicketInv, OneEach, Registered, Present, TicketWasCharged, AdmissionsAgree
<1>8. QED
  BY <1>4, <1>5, <1>6, <1>7 DEF TicketInv

(* A place to wait at, with what was read. *)
LEMMA Places ==
    ASSUME TicketInv, NEW at \in Steps, NEW r \in Regs \cup {None}, NEW m \in Members \cup {None},
           NEW kind \in Kinds, NEW seen \in Statuses
    PROVE  [at |-> at, reg |-> r, member |-> m, kind |-> kind, seen |-> seen] \in Run
BY DEF Run

LEMMA IdleHolds == Idle \in Run /\ Sound(Idle)
BY DEF Idle, Run, Steps, Kinds, Statuses, Sound, Knows

(* A request that ends and writes nothing. *)
LEMMA DoneHolds ==
    ASSUME TicketInv, NEW w \in Workers, Done(w), UNCHANGED <<reg, ticket, txn, gw, attendance>>,
           sent' \subseteq sent, deaths' \in 0 .. MaxDeaths
    PROVE  TicketInv'
<1>1. Moves(w, Idle) /\ Idle.at \notin {"prepare", "open"}
  BY DEF Done, Moves, Idle
<1>2. QED
  BY <1>1, IdleHolds, QuietHolds

-----------------------------------------------------------------------------
(* Requests that only read *)

(* The place of w after its step, for the steps that write no row. *)
LEMMA StartHolds ==
    ASSUME TicketInv, NEW w \in Workers, Start(w)
    PROVE  TicketInv'
<1> USE DEF TicketInv
<1>1. ASSUME NEW m \in Members, NEW kind \in {"online", "free"}, Register(w, m, kind)
      PROVE  TicketInv'
  <2> DEFINE x == [at |-> "enrol", reg |-> None, member |-> m, kind |-> kind, seen |-> "none"]
  <2>1. x \in Run
    BY Places DEF Steps, Kinds, Statuses
  <2>2. Sound(x)
    BY DEF Sound, Knows
  <2>3. Moves(w, x)
    BY <1>1 DEF Register, Moves
  <2>4. QED
    BY <1>1, <2>1, <2>2, <2>3, QuietHolds DEF Register, Typed
<1>2. ASSUME NEW m \in Members, Assign(w, m) PROVE TicketInv'
  <2> DEFINE x == [at |-> "assign", reg |-> None, member |-> m, kind |-> "staff", seen |-> "none"]
  <2>1. x \in Run
    BY Places DEF Steps, Kinds, Statuses
  <2>2. Sound(x)
    BY DEF Sound, Knows
  <2>3. Moves(w, x)
    BY <1>2 DEF Assign, Moves
  <2>4. QED
    BY <1>2, <2>1, <2>2, <2>3, QuietHolds DEF Assign, Typed
<1>3. ASSUME NEW m \in Members, Cancel(w, m) PROVE TicketInv'
  <2>1. PICK r \in RegOf(m) :
           run' = [run EXCEPT ![w] =
                     [at |-> IF reg[r].linked THEN "void" ELSE "delete", reg |-> r,
                      member |-> m, kind |-> "none", seen |-> "none"]]
    BY <1>3 DEF Cancel
  <2> DEFINE x == [at |-> IF reg[r].linked THEN "void" ELSE "delete", reg |-> r,
                   member |-> m, kind |-> "none", seen |-> "none"]
  <2>2. r \in Regs /\ reg[r].state # "none"
    BY DEF RegOf, Registered, Present
  <2>3. x \in Run
    BY <2>2, Places DEF Steps, Kinds, Statuses
  <2>4. Sound(x)
    BY <2>2, TicketAssumption DEF Sound, Knows, RegsOK, TicketsExist
  <2>5. Moves(w, x)
    BY <2>1 DEF Moves
  <2>6. QED
    BY <1>3, <2>3, <2>4, <2>5, QuietHolds DEF Cancel, Typed
<1>4. ASSUME NEW m \in Members, CheckIn(w, m) PROVE TicketInv'
  <2>1. PICK r \in IF RegOf(m) = {} THEN {None} ELSE RegOf(m) :
           run' = [run EXCEPT ![w] = [at |-> "attend", reg |-> r, member |-> m,
                                      kind |-> "none", seen |-> "none"]]
    BY <1>4 DEF CheckIn
  <2> DEFINE x == [at |-> "attend", reg |-> r, member |-> m, kind |-> "none", seen |-> "none"]
  <2>2. r \in Regs \cup {None} /\ (r # None => reg[r].state # "none" /\ reg[r].member = m)
    BY DEF RegOf, Registered, Present
  <2>3. x \in Run
    BY <2>2, Places DEF Steps, Kinds, Statuses
  <2>4. Sound(x)
    BY <2>2 DEF Sound, Knows
  <2>5. Moves(w, x)
    BY <2>1 DEF Moves
  <2>6. QED
    BY <1>4, <2>3, <2>4, <2>5, QuietHolds DEF CheckIn, Typed
<1>5. ASSUME NEW r \in Regs, NEW kind \in {"success", "failed"}, HandleWebhook(w, r, kind)
      PROVE  TicketInv'
  <2> DEFINE x == [at |-> "notified", reg |-> r, member |-> reg[r].member,
                   kind |-> kind, seen |-> txn[r]]
  <2>1. gw[r] # "none" /\ reg[r].kind = "online" /\ reg[r].state # "none"
    BY <1>5 DEF HandleWebhook, RegsOK, PagesAreSold, UnusedIsEmpty
  <2>2. reg[r].member \in Members \cup {None} /\ txn[r] \in Statuses
    BY DEF Typed, Reg
  <2>3. x \in Run
    BY <2>2, Places DEF Steps, Kinds
  <2>4. Sound(x)
    BY <2>1 DEF Sound, Knows
  <2>5. Moves(w, x)
    BY <1>5 DEF HandleWebhook, Moves
  <2>6. QED
    BY <1>5, <2>3, <2>4, <2>5, QuietHolds DEF HandleWebhook, Typed
<1>6. ASSUME NEW r \in Regs, ConfirmCharged(w, r) PROVE TicketInv'
  <2> DEFINE x == [at |-> "claim", reg |-> r, member |-> reg[r].member,
                   kind |-> "success", seen |-> "none"]
  <2>1. gw[r] = "charged" /\ reg[r].kind = "online" /\ reg[r].state # "none"
    BY <1>6 DEF ConfirmCharged, Verified, RegsOK, PagesAreSold, UnusedIsEmpty
  <2>2. reg[r].member \in Members \cup {None}
    BY DEF Typed, Reg
  <2>3. x \in Run
    BY <2>2, Places DEF Steps, Kinds, Statuses
  <2>4. Sound(x)
    BY <2>1 DEF Sound, Knows
  <2>5. Moves(w, x)
    BY <1>6 DEF ConfirmCharged, Moves
  <2>6. QED
    BY <1>6, <2>3, <2>4, <2>5, QuietHolds DEF ConfirmCharged, Typed
<1>7. ASSUME NEW r \in Regs, Scan(w, r) PROVE TicketInv'
  <2> DEFINE x == [at |-> "admit", reg |-> r, member |-> reg[r].member,
                   kind |-> "none", seen |-> "none"]
  <2>1. reg[r].state # "none"
    BY <1>7 DEF Scan, Usable, RegsOK, UnusedIsEmpty, NoTicket
  <2>2. reg[r].member \in Members \cup {None}
    BY DEF Typed, Reg
  <2>3. x \in Run
    BY <2>2, Places DEF Steps, Kinds, Statuses
  <2>4. Sound(x)
    BY <2>1 DEF Sound, Knows
  <2>5. Moves(w, x)
    BY <1>7 DEF Scan, Moves
  <2>6. QED
    BY <1>7, <2>3, <2>4, <2>5, QuietHolds DEF Scan, Typed
<1>8. QED
  BY <1>1, <1>2, <1>3, <1>4, <1>5, <1>6, <1>7 DEF Start

-----------------------------------------------------------------------------
(* Requests that write *)

(* Where y goes on to, with what it keeps. *)
Goes(y, at, r) == [at |-> at, reg |-> r, member |-> y.member, kind |-> y.kind, seen |-> "none"]

LEMMA GoesOnHolds ==
    ASSUME TicketInv, NEW w \in Workers, NEW y \in Run, run[w] = y, NEW at \in Steps,
           NEW r \in Regs \cup {None}
    PROVE  /\ Goes(y, at, r) \in Run
           /\ Goes(y, at, r).at = at /\ Goes(y, at, r).reg = r
           /\ Goes(y, at, r).member = y.member /\ Goes(y, at, r).kind = y.kind
           /\ GoesTo(w, at, r) => Moves(w, Goes(y, at, r))
<1>1. y.member \in Members \cup {None} /\ y.kind \in Kinds
  BY DEF Run
<1>2. Goes(y, at, r) \in Run
  BY <1>1 DEF Goes, Run, Statuses
<1>3. QED
  BY <1>2 DEF Goes, GoesTo, Moves

(* The invariant but for what a step does to the requests. *)
RowsOK ==
    /\ reg \in [Regs -> Reg]
    /\ ticket \in [Regs -> Ticket]
    /\ txn \in [Regs -> Statuses]
    /\ gw \in [Regs -> {"none", "open", "charged", "wrong"}]
    /\ sent \subseteq Regs \X {"success", "failed"}
    /\ attendance \in [Members -> Regs \cup {"hand", None}]
    /\ deaths \in 0 .. MaxDeaths
    /\ OneEach
    /\ RegsOK
    /\ TicketWasCharged
    /\ AdmissionsAgree

LEMMA PartsHold == TicketInv <=> RowsOK /\ run \in [Workers -> Run] /\ RunsOK /\ OneOpener
BY DEF TicketInv, Typed, RowsOK

(* A write to a row another request is not about to open a page for. *)
LEMMA OthersLeftAlone ==
    ASSUME TicketInv, NEW w \in Workers, NEW r \in Regs,
           gw[r] # "none" \/ (Opens(w) /\ run[w].reg = r) \/ reg[r].state = "none",
           \A q \in Regs : q # r => gw'[q] = gw[q] /\ txn'[q] = txn[q]
    PROVE  \A v \in Workers : v # w => LeavesAlone(run[v])
<1> SUFFICES ASSUME NEW v \in Workers, v # w, run[v].at \in {"prepare", "open"}
             PROVE  gw'[run[v].reg] = gw[run[v].reg] /\ txn'[run[v].reg] = txn[run[v].reg]
  BY DEF LeavesAlone
<1>1. run[v] \in Run /\ Sound(run[v])
  BY DEF TicketInv, Typed, RunsOK
<1>2. run[v].reg \in Regs /\ gw[run[v].reg] = "none" /\ reg[run[v].reg].state # "none"
  BY <1>1, TicketAssumption DEF Sound, Knows
<1>3. run[v].reg # r
  BY <1>2 DEF TicketInv, OneOpener, Opens
<1>4. QED
  BY <1>2, <1>3

(* A registration is stored under a name that was not used, for a member   *)
(* without one.                                                            *)
LEMMA StoresHolds ==
    ASSUME TicketInv, NEW r \in Regs, reg[r].state = "none", NEW m \in Members, KeyFree(m),
           NEW row \in Reg, row.state \in {"pending", "paid"}, row.member = m,
           reg' = [reg EXCEPT ![r] = row],
           NEW t \in Ticket, ticket' = [ticket EXCEPT ![r] = t], ~t.used,
           row.linked => t.state # "none",
           row.kind = "online" => row.state = "pending" /\ t.state = "none",
           attendance' = attendance \/ attendance' = [attendance EXCEPT ![m] = "hand"],
           row.checked => attendance' = [attendance EXCEPT ![m] = "hand"],
           attendance' # attendance => attendance[m] = None,
           UNCHANGED <<txn, gw, sent, deaths>>
    PROVE  RowsOK' /\ Forward
<1>1. /\ reg' \in [Regs -> Reg] /\ reg'[r] = row
      /\ \A q \in Regs : q # r => reg'[q] = reg[q]
  BY DEF TicketInv, Typed
<1>2. /\ ticket' \in [Regs -> Ticket] /\ ticket'[r] = t
      /\ \A q \in Regs : q # r => ticket'[q] = ticket[q]
  BY DEF TicketInv, Typed
<1>3. /\ attendance' \in [Members -> Regs \cup {"hand", None}]
      /\ \A n \in Members : attendance[n] # None => attendance'[n] = attendance[n]
      /\ row.checked => attendance'[m] = "hand"
  BY DEF TicketInv, Typed
<1>4. ticket[r].state = "none" /\ gw[r] = "none" /\ txn[r] = "none" /\ ~reg[r].linked
  BY DEF TicketInv, RegsOK, UnusedIsEmpty, NoTicket, NoReg
<1>5. Forward
  BY <1>1, <1>2, <1>3, <1>4 DEF Forward
<1>6. OneEach'
  BY <1>1 DEF TicketInv, OneEach, Registered, Present, KeyFree, RegOf
<1>7. RegsOK'
  <2>1. ASSUME NEW q \in Regs PROVE (UnusedIsEmpty(q) /\ TicketsExist(q) /\ PagesAreSold(q))'
    <3>1. CASE q = r
      BY <1>1, <1>2, <1>4, <3>1
         DEF TicketInv, RegsOK, UnusedIsEmpty, TicketsExist, PagesAreSold
    <3>2. CASE q # r
      BY <1>1, <1>2, <3>2
         DEF TicketInv, RegsOK, UnusedIsEmpty, TicketsExist, PagesAreSold
    <3>3. QED
      BY <3>1, <3>2
  <2>2. QED
    BY <2>1 DEF RegsOK
<1>8. TicketWasCharged'
  BY <1>1, <1>2 DEF TicketInv, TicketWasCharged
<1>9. AdmissionsAgree'
  <2>1. ASSUME NEW q \in Regs
        PROVE  /\ ticket'[q].used => attendance'[reg'[q].member] = q
               /\ reg'[q].checked => attendance'[reg'[q].member] # None
    <3>1. CASE q = r
      BY <1>1, <1>2, <1>3, <3>1, TicketAssumption
    <3>2. CASE q # r
      <4>1. /\ reg'[q] = reg[q] /\ ticket'[q] = ticket[q]
            /\ ticket[q].used \/ reg[q].checked => reg[q].member \in Members
        BY <1>1, <1>2, <3>2 DEF TicketInv, RegsOK, UnusedIsEmpty, NoTicket, NoReg
      <4>2. QED
        BY <1>3, <4>1, TicketAssumption DEF TicketInv, AdmissionsAgree
    <3>3. QED
      BY <3>1, <3>2
  <2>2. QED
    BY <2>1 DEF AdmissionsAgree
<1>10. QED
  BY <1>1, <1>2, <1>3, <1>5, <1>6, <1>7, <1>8, <1>9 DEF TicketInv, Typed, RowsOK

(* A registration that is there, its ticket, its payment or the attendance *)
(* of its member is written.                                               *)
Writes(r, row, t) ==
    /\ reg[r].state # "none" /\ row.state # "none"
    /\ row.member = reg[r].member /\ row.kind = reg[r].kind
    /\ row.state \in {"pending", "paid"} => Present(r)
    /\ reg' = [reg EXCEPT ![r] = row]
    /\ ticket' = [ticket EXCEPT ![r] = t]
    /\ ticket[r].state # "none" => t.state # "none"
    /\ row.linked \/ t.used \/ (row.state = "paid" /\ row.kind = "online") => t.state # "none"
    /\ row.kind = "online" /\ t.state # "none" => gw[r] = "charged"
    /\ txn' \in [Regs -> Statuses]
    /\ \A q \in Regs : q # r => txn'[q] = txn[q]
    /\ Terminal(txn[r]) => Terminal(txn'[r])
    /\ attendance' \in [Members -> Regs \cup {"hand", None}]
    /\ \A n \in Members : attendance[n] # None => attendance'[n] = attendance[n]
    /\ t.used => attendance'[row.member] = r
    /\ row.checked => attendance'[row.member] # None
    /\ sent' \subseteq sent
    /\ UNCHANGED <<gw, deaths>>

LEMMA UpdatesHold ==
    ASSUME TicketInv, NEW r \in Regs, NEW row \in Reg, NEW t \in Ticket, Writes(r, row, t)
    PROVE  RowsOK' /\ Forward
<1> USE DEF Writes
<1>1. /\ reg' \in [Regs -> Reg] /\ reg'[r] = row
      /\ \A q \in Regs : q # r => reg'[q] = reg[q]
  BY DEF TicketInv, Typed
<1>2. /\ ticket' \in [Regs -> Ticket] /\ ticket'[r] = t
      /\ \A q \in Regs : q # r => ticket'[q] = ticket[q]
  BY DEF TicketInv, Typed
<1>3. reg[r].member \in Members
  BY DEF TicketInv, RegsOK, UnusedIsEmpty
<1>4. Forward
  BY <1>1, <1>2 DEF Forward
<1>5. OneEach'
  BY <1>1 DEF TicketInv, OneEach, Registered, Present
<1>6. RegsOK'
  <2>1. ASSUME NEW q \in Regs PROVE (UnusedIsEmpty(q) /\ TicketsExist(q) /\ PagesAreSold(q))'
    <3>1. CASE q = r
      BY <1>1, <1>2, <1>3, <3>1
         DEF TicketInv, RegsOK, UnusedIsEmpty, TicketsExist, PagesAreSold
    <3>2. CASE q # r
      BY <1>1, <1>2, <3>2
         DEF TicketInv, RegsOK, UnusedIsEmpty, TicketsExist, PagesAreSold
    <3>3. QED
      BY <3>1, <3>2
  <2>2. QED
    BY <2>1 DEF RegsOK
<1>7. TicketWasCharged'
  BY <1>1, <1>2 DEF TicketInv, TicketWasCharged
<1>8. AdmissionsAgree'
  <2>1. ASSUME NEW q \in Regs
        PROVE  /\ ticket'[q].used => attendance'[reg'[q].member] = q
               /\ reg'[q].checked => attendance'[reg'[q].member] # None
    <3>1. CASE q = r
      BY <1>1, <1>2, <3>1
    <3>2. CASE q # r
      <4>1. /\ reg'[q] = reg[q] /\ ticket'[q] = ticket[q]
            /\ ticket[q].used \/ reg[q].checked => reg[q].member \in Members
        BY <1>1, <1>2, <3>2 DEF TicketInv, RegsOK, UnusedIsEmpty, NoTicket, NoReg
      <4>2. QED
        BY <4>1, TicketAssumption DEF TicketInv, AdmissionsAgree
    <3>3. QED
      BY <3>1, <3>2
  <2>2. QED
    BY <2>1 DEF AdmissionsAgree
<1>9. QED
  BY <1>1, <1>2, <1>4, <1>5, <1>6, <1>7, <1>8 DEF TicketInv, Typed, RowsOK

(* The whole step of a request: its rows, its place, the others.  *)
LEMMA StepHolds ==
    ASSUME TicketInv, RowsOK', Forward, NEW w \in Workers, NEW x \in Run, Moves(w, x), Sound(x)',
           x.at \notin {"prepare", "open"},
           \A v \in Workers : v # w => LeavesAlone(run[v])
    PROVE  TicketInv'
<1>1. run' \in [Workers -> Run] /\ RunsOK' /\ OneOpener'
  BY RunsStay
<1>2. QED
  BY <1>1 DEF TicketInv, Typed, RowsOK

(* The same where the request ends, and where no request takes part. *)
LEMMA EndHolds ==
    ASSUME TicketInv, RowsOK', Forward, NEW w \in Workers, Done(w),
           \A v \in Workers : v # w => LeavesAlone(run[v])
    PROVE  TicketInv'
<1>1. Moves(w, Idle) /\ Idle.at \notin {"prepare", "open"} /\ Sound(Idle)'
  BY DEF Done, Moves, Idle, Sound, Knows
<1>2. QED
  BY <1>1, IdleHolds, StepHolds

LEMMA NobodyHolds ==
    ASSUME TicketInv, RowsOK', Forward, UNCHANGED run,
           \A v \in Workers : LeavesAlone(run[v])
    PROVE  TicketInv'
<1>1. ASSUME NEW v \in Workers PROVE Sound(run[v])'
  <2> DEFINE y == run[v]
  <2>1. y \in Run /\ Sound(y) /\ LeavesAlone(y)
    BY DEF TicketInv, Typed, RunsOK
  <2>2. run'[v] = y
    OBVIOUS
  <2>3. QED
    BY <2>1, <2>2, SoundStays DEF TicketInv
<1>2. OneOpener'
  BY DEF TicketInv, OneOpener, Opens
<1>3. QED
  BY <1>1, <1>2 DEF TicketInv, Typed, RowsOK, RunsOK

(* Registration and payment: what each step of a request writes. *)
LEMMA EnrolHolds ==
    ASSUME TicketInv, NEW w \in Workers, NEW r \in Regs, Enrol(w, r)
    PROVE  TicketInv'
<1>1. PICK y \in Run : y = run[w]
  BY DEF TicketInv, Typed
<1>2. y.at = "enrol" /\ y.member \in Members /\ Sound(y)
  BY <1>1 DEF Enrol, At, TicketInv, RunsOK, Sound, Knows
<1> DEFINE row == NewReg(y.member, y.kind)
           at == IF y.kind = "online" THEN "prepare" ELSE "issue"
           x == Goes(y, at, r)
<1>3. /\ row \in Reg /\ row.member = y.member /\ row.kind = y.kind
      /\ row.state = (IF y.kind = "online" THEN "pending" ELSE "paid")
      /\ ~row.linked /\ ~row.checked
  BY <1>2 DEF NewReg, Reg, Run
<1>4. ticket[r] = NoTicket /\ gw[r] = "none" /\ txn[r] = "none" /\ reg[r].state = "none"
  BY DEF Enrol, TicketInv, RegsOK, UnusedIsEmpty
<1>5. ticket' = [ticket EXCEPT ![r] = NoTicket] /\ NoTicket \in Ticket
  BY <1>4 DEF Enrol, TicketInv, Typed, NoTicket, Ticket
<1>6. RowsOK' /\ Forward
  <2>1. reg' = [reg EXCEPT ![r] = row] /\ KeyFree(y.member)
    BY <1>1 DEF Enrol
  <2>2. ~NoTicket.used /\ NoTicket.state = "none"
    BY DEF NoTicket
  <2> HIDE DEF row
  <2>3. QED
    BY <1>2, <1>3, <1>4, <1>5, <2>1, <2>2, StoresHolds DEF Enrol
<1>7. x \in Run /\ Moves(w, x) /\ x.at = at /\ x.reg = r
  BY <1>1, GoesOnHolds DEF Enrol, Steps
<1>8. reg'[r].state # "none" /\ reg'[r].kind = y.kind /\ txn'[r] = "none" /\ gw'[r] = "none"
  BY <1>1, <1>4 DEF Enrol, NewReg, TicketInv, Typed
<1>9. Sound(x)'
  BY <1>7, <1>8 DEF Sound, Knows
<1>10. \A v \in Workers : LeavesAlone(run[v])
  BY DEF Enrol, LeavesAlone
<1>11. ASSUME NEW v \in Workers, Opens(v) PROVE run[v].reg # r
  BY <1>4, <1>11, TicketAssumption DEF Opens, TicketInv, RunsOK, Sound, Knows
<1> HIDE DEF x
<1>12. run' \in [Workers -> Run] /\ RunsOK' /\ OneOpener'
  BY <1>6, <1>7, <1>9, <1>10, <1>11, RunsStay
<1>13. QED
  BY <1>6, <1>12 DEF TicketInv, Typed, RowsOK

LEMMA AssignedHolds ==
    ASSUME TicketInv, NEW w \in Workers, NEW r \in Regs, Assigned(w, r)
    PROVE  TicketInv'
<1>1. run[w].member \in Members
  BY DEF Assigned, At, TicketInv, RunsOK, Sound, Knows
<1> DEFINE m == run[w].member
           row == [state |-> "paid", member |-> m, kind |-> "staff", linked |-> TRUE, checked |-> FALSE]
           t == [state |-> "paid", used |-> FALSE]
<1>2. row \in Reg /\ t \in Ticket
  BY <1>1 DEF Reg, Ticket, Kinds
<1>3. RowsOK' /\ Forward
  BY <1>1, <1>2, StoresHolds DEF Assigned
<1>4. \A v \in Workers : LeavesAlone(run[v])
  BY DEF Assigned, LeavesAlone
<1>5. QED
  BY <1>3, <1>4, EndHolds DEF Assigned

LEMMA IssueHolds ==
    ASSUME TicketInv, NEW w \in Workers, Issue(w)
    PROVE  TicketInv'
<1>1. PICK y \in Run : y = run[w]
  BY DEF TicketInv, Typed
<1> DEFINE r == y.reg
           t == [state |-> "paid", used |-> FALSE]
           x == Goes(y, "link", r)
<1>2. r \in Regs /\ reg[r].state # "none" /\ reg[r].kind # "online"
  BY <1>1, TicketAssumption DEF Issue, At, TicketInv, RunsOK, Sound, Knows
<1>3. t \in Ticket /\ reg[r] \in Reg /\ reg' = [reg EXCEPT ![r] = reg[r]]
  BY <1>2 DEF Issue, Ticket, TicketInv, Typed
<1>4. ticket' = [ticket EXCEPT ![r] = t] /\ t.state = "paid" /\ ~t.used
  BY <1>1 DEF Issue
<1> HIDE DEF t
<1>5. reg[r].checked => attendance[reg[r].member] # None
  BY <1>2 DEF TicketInv, AdmissionsAgree
<1>6. RowsOK' /\ Forward
  <2>1. /\ txn \in [Regs -> Statuses] /\ attendance \in [Members -> Regs \cup {"hand", None}]
        /\ UNCHANGED <<txn, gw, sent, attendance, deaths>>
    BY DEF Issue, TicketInv, Typed
  <2>2. reg[r].state \in {"pending", "paid"} => Present(r)
    BY DEF Present
  <2>3. Writes(r, reg[r], t)
    BY <1>2, <1>3, <1>4, <1>5, <2>1, <2>2 DEF Writes
  <2>4. QED
    BY <1>2, <1>3, <2>3, UpdatesHold
<1>7. x \in Run /\ Moves(w, x) /\ x.at = "link" /\ x.reg = r
  BY <1>1, <1>2, GoesOnHolds DEF Issue, Steps
<1>8. ticket'[r].state # "none" /\ reg' = reg
  BY <1>2, <1>4 DEF Issue, TicketInv, Typed
<1>9. Sound(x)'
  BY <1>2, <1>7, <1>8 DEF Sound, Knows
<1>10. \A v \in Workers : LeavesAlone(run[v])
  BY DEF Issue, LeavesAlone
<1> HIDE DEF x
<1>11. QED
  BY <1>6, <1>7, <1>9, <1>10, StepHolds

(* A link, and a check-in, written to a row. *)
LEMMA RowsWritten ==
    ASSUME NEW row \in Reg
    PROVE  /\ [row EXCEPT !.linked = TRUE] =
                 [state |-> row.state, member |-> row.member, kind |-> row.kind,
                  linked |-> TRUE, checked |-> row.checked]
           /\ [row EXCEPT !.checked = TRUE] =
                 [state |-> row.state, member |-> row.member, kind |-> row.kind,
                  linked |-> row.linked, checked |-> TRUE]
<1>1. \A any \in Reg :
         any = [state |-> any.state, member |-> any.member, kind |-> any.kind,
                linked |-> any.linked, checked |-> any.checked]
  BY DEF Reg
<1> DEFINE linked == [row EXCEPT !.linked = TRUE]
           checked == [row EXCEPT !.checked = TRUE]
<1>2. /\ linked \in Reg /\ linked.linked = TRUE /\ linked.checked = row.checked
      /\ linked.state = row.state /\ linked.member = row.member /\ linked.kind = row.kind
  BY DEF Reg
<1>3. /\ checked \in Reg /\ checked.checked = TRUE /\ checked.linked = row.linked
      /\ checked.state = row.state /\ checked.member = row.member /\ checked.kind = row.kind
  BY DEF Reg
<1> HIDE DEF linked, checked
<1>4. linked = [state |-> row.state, member |-> row.member, kind |-> row.kind,
                linked |-> TRUE, checked |-> row.checked]
  BY <1>1, <1>2
<1>5. checked = [state |-> row.state, member |-> row.member, kind |-> row.kind,
                 linked |-> row.linked, checked |-> TRUE]
  BY <1>1, <1>3
<1>6. QED
  BY <1>4, <1>5 DEF linked, checked

(* The same for a ticket. *)
LEMMA TicketsWritten ==
    ASSUME NEW t \in Ticket
    PROVE  /\ [t EXCEPT !.state = "cancelled"] = [state |-> "cancelled", used |-> t.used]
           /\ [t EXCEPT !.used = TRUE] = [state |-> t.state, used |-> TRUE]
<1>1. \A any \in Ticket : any = [state |-> any.state, used |-> any.used]
  BY DEF Ticket
<1> DEFINE void == [t EXCEPT !.state = "cancelled"]
           used == [t EXCEPT !.used = TRUE]
<1>2. void \in Ticket /\ void.state = "cancelled" /\ void.used = t.used
  BY DEF Ticket
<1>3. used \in Ticket /\ used.state = t.state /\ used.used = TRUE
  BY DEF Ticket
<1> HIDE DEF void, used
<1>4. void = [state |-> "cancelled", used |-> t.used]
  BY <1>1, <1>2
<1>5. used = [state |-> t.state, used |-> TRUE]
  BY <1>1, <1>3
<1>6. QED
  BY <1>4, <1>5 DEF void, used

LEMMA LinkHolds ==
    ASSUME TicketInv, NEW w \in Workers, Link(w)
    PROVE  TicketInv'
<1>1. PICK y \in Run : y = run[w]
  BY DEF TicketInv, Typed
<1> DEFINE r == y.reg
<1>2. r \in Regs /\ reg[r].state # "none" /\ ticket[r].state # "none"
  BY <1>1, TicketAssumption DEF Link, At, TicketInv, RunsOK, Sound, Knows
<1>3. CASE Present(r)
  <2> DEFINE row == [state |-> reg[r].state, member |-> reg[r].member, kind |-> reg[r].kind,
                     linked |-> TRUE, checked |-> reg[r].checked]
  <2>1. row \in Reg /\ reg[r] \in Reg
    BY <1>2 DEF TicketInv, Typed, Reg
  <2>2. reg' = [reg EXCEPT ![r] = row]
    BY <1>1, <1>3, <2>1, RowsWritten DEF Link
  <2>3. ticket' = [ticket EXCEPT ![r] = ticket[r]] /\ ticket[r] \in Ticket
    BY <1>2 DEF Link, TicketInv, Typed
  <2>4. /\ ticket[r].used => attendance[reg[r].member] = r
        /\ reg[r].checked => attendance[reg[r].member] # None
        /\ reg[r].kind = "online" => gw[r] = "charged"
    BY <1>2 DEF TicketInv, AdmissionsAgree, TicketWasCharged
  <2>5. /\ row.state = reg[r].state /\ row.member = reg[r].member
        /\ row.kind = reg[r].kind /\ row.linked /\ row.checked = reg[r].checked
    OBVIOUS
  <2> HIDE DEF row
  <2>6. RowsOK' /\ Forward
    <3>1. /\ txn \in [Regs -> Statuses] /\ attendance \in [Members -> Regs \cup {"hand", None}]
          /\ UNCHANGED <<txn, gw, sent, attendance, deaths>>
      BY DEF Link, TicketInv, Typed
    <3>2. Writes(r, row, ticket[r])
      BY <1>2, <1>3, <2>1, <2>2, <2>3, <2>4, <2>5, <3>1 DEF Writes
    <3>3. QED
      BY <1>2, <2>1, <2>3, <3>2, UpdatesHold
  <2>7. \A v \in Workers : LeavesAlone(run[v])
    BY DEF Link, LeavesAlone
  <2>8. QED
    BY <2>6, <2>7, EndHolds DEF Link
<1>4. CASE ~Present(r)
  BY <1>1, <1>4, DoneHolds DEF Link, TicketInv, Typed
<1>5. QED
  BY <1>3, <1>4

(* The payment of a registration is written, at the gateway or here. *)
Pays(r) ==
    /\ reg[r].state # "none"
    /\ txn' \in [Regs -> Statuses]
    /\ gw' \in [Regs -> {"none", "open", "charged", "wrong"}]
    /\ \A q \in Regs : q # r => txn'[q] = txn[q] /\ gw'[q] = gw[q]
    /\ Terminal(txn[r]) => Terminal(txn'[r])
    /\ gw[r] # "none" => gw'[r] # "none"
    /\ gw[r] = "charged" => gw'[r] = "charged"
    /\ gw'[r] # "none" => reg[r].kind = "online"
    /\ \/ sent' \subseteq sent
       \/ gw[r] # "none" /\ \E kind \in {"success", "failed"} : sent' = sent \cup {<<r, kind>>}
    /\ UNCHANGED <<reg, ticket, attendance, deaths>>

LEMMA PaymentHolds ==
    ASSUME TicketInv, NEW r \in Regs, Pays(r)
    PROVE  RowsOK' /\ Forward
<1> USE DEF Pays
<1>1. Forward
  BY DEF Forward
<1>2. sent' \subseteq Regs \X {"success", "failed"}
  BY DEF TicketInv, Typed
<1>3. RegsOK'
  <2>1. ASSUME NEW q \in Regs PROVE (UnusedIsEmpty(q) /\ TicketsExist(q))'
    BY DEF TicketInv, RegsOK, UnusedIsEmpty, TicketsExist
  <2>2. ASSUME NEW q \in Regs PROVE PagesAreSold(q)'
    <3>1. gw'[q] # "none" => reg'[q].kind = "online"
      BY DEF TicketInv, RegsOK, PagesAreSold
    <3>2. ASSUME NEW kind \in {"success", "failed"}, <<q, kind>> \in sent' PROVE gw'[q] # "none"
      <4>1. CASE <<q, kind>> \in sent
        BY <4>1 DEF TicketInv, RegsOK, PagesAreSold
      <4>2. CASE <<q, kind>> \notin sent
        <5>1. q = r /\ gw[r] # "none"
          BY <3>2, <4>2
        <5>2. QED
          BY <5>1
      <4>3. QED
        BY <4>1, <4>2
    <3>3. QED
      BY <3>1, <3>2 DEF PagesAreSold
  <2>3. QED
    BY <2>1, <2>2 DEF RegsOK
<1>4. OneEach' /\ AdmissionsAgree'
  BY DEF TicketInv, OneEach, Registered, Present, AdmissionsAgree
<1>5. TicketWasCharged'
  BY DEF TicketInv, TicketWasCharged
<1>6. QED
  BY <1>1, <1>2, <1>3, <1>4, <1>5 DEF TicketInv, Typed, RowsOK

LEMMA PrepareHolds ==
    ASSUME TicketInv, NEW w \in Workers, Prepare(w)
    PROVE  TicketInv'
<1>1. PICK y \in Run : y = run[w]
  BY DEF TicketInv, Typed
<1> DEFINE r == y.reg
           x == Goes(y, "open", r)
<1>2. /\ r \in Regs /\ reg[r].state # "none" /\ reg[r].kind = "online"
      /\ gw[r] = "none" /\ txn[r] = "none"
  BY <1>1, TicketAssumption DEF Prepare, At, TicketInv, RunsOK, Sound, Knows
<1>3. txn' = [txn EXCEPT ![r] = "pending"] /\ UNCHANGED <<reg, ticket, gw, sent, attendance, deaths>>
  BY <1>1 DEF Prepare
<1>4. Pays(r)
  BY <1>2, <1>3 DEF Pays, Terminal, Statuses, TicketInv, Typed
<1>5. RowsOK' /\ Forward
  BY <1>2, <1>4, PaymentHolds
<1>6. Opens(w) /\ run[w].reg = r
  BY <1>1 DEF Prepare, At, Opens
<1>7. \A v \in Workers : v # w => LeavesAlone(run[v])
  BY <1>2, <1>4, <1>6, OthersLeftAlone DEF Pays
<1>8. CASE Present(r)
  <2>1. x \in Run /\ Moves(w, x) /\ x.at = "open" /\ x.reg = r
    BY <1>1, <1>2, <1>8, GoesOnHolds DEF Prepare, Steps
  <2>2. Sound(x)'
    BY <1>2, <1>3, <2>1 DEF Sound, Knows
  <2>3. \A v \in Workers : v # w /\ Opens(v) => run[v].reg # x.reg
    BY <1>6, <2>1 DEF TicketInv, OneOpener
  <2> HIDE DEF x
  <2>4. run' \in [Workers -> Run] /\ RunsOK' /\ OneOpener'
    BY <1>5, <1>7, <2>1, <2>2, <2>3, RunsStay
  <2>5. QED
    BY <1>5, <2>4 DEF TicketInv, Typed, RowsOK
<1>9. CASE ~Present(r)
  BY <1>1, <1>5, <1>7, <1>9, EndHolds DEF Prepare
<1>10. QED
  BY <1>8, <1>9

LEMMA OpenPageHolds ==
    ASSUME TicketInv, NEW w \in Workers, OpenPage(w)
    PROVE  TicketInv'
<1>1. PICK y \in Run : y = run[w]
  BY DEF TicketInv, Typed
<1> DEFINE r == y.reg
<1>2. /\ r \in Regs /\ reg[r].state # "none" /\ reg[r].kind = "online" /\ gw[r] = "none"
  BY <1>1, TicketAssumption DEF OpenPage, At, TicketInv, RunsOK, Sound, Knows
<1>3. Pays(r)
  <2>1. gw' = gw \/ gw' = [gw EXCEPT ![r] = "open"]
    BY <1>1 DEF OpenPage
  <2>2. UNCHANGED <<reg, ticket, txn, sent, attendance, deaths>>
    BY DEF OpenPage
  <2>3. QED
    BY <1>2, <2>1, <2>2 DEF Pays, TicketInv, Typed
<1>4. RowsOK' /\ Forward
  BY <1>2, <1>3, PaymentHolds
<1>5. Opens(w) /\ run[w].reg = r
  BY <1>1 DEF OpenPage, At, Opens
<1>6. \A v \in Workers : v # w => LeavesAlone(run[v])
  BY <1>2, <1>3, <1>5, OthersLeftAlone DEF Pays
<1>7. QED
  BY <1>4, <1>6, EndHolds DEF OpenPage

LEMMA RecordEventHolds ==
    ASSUME TicketInv, NEW w \in Workers, RecordEvent(w)
    PROVE  TicketInv'
<1>1. PICK y \in Run : y = run[w]
  BY DEF TicketInv, Typed
<1> DEFINE r == y.reg
           x == Goes(y, "recorded", r)
<1>2. /\ r \in Regs /\ reg[r].state # "none" /\ reg[r].kind = "online" /\ gw[r] # "none"
      /\ y.kind \in {"success", "failed"} /\ (Terminal(y.seen) => Terminal(txn[r]))
  BY <1>1, TicketAssumption DEF RecordEvent, At, TicketInv, RunsOK, Sound, Knows
<1>3. /\ txn' = IF Terminal(y.seen) THEN txn ELSE [txn EXCEPT ![r] = y.kind]
      /\ UNCHANGED <<reg, ticket, gw, sent, attendance, deaths>>
  BY <1>1 DEF RecordEvent
<1>4. txn' \in [Regs -> Statuses] /\ Terminal(txn'[r]) /\ \A q \in Regs : q # r => txn'[q] = txn[q]
  BY <1>2, <1>3 DEF Terminal, Statuses, TicketInv, Typed
<1>5. Pays(r)
  BY <1>2, <1>3, <1>4 DEF Pays, TicketInv, Typed
<1>6. RowsOK' /\ Forward
  BY <1>2, <1>5, PaymentHolds
<1>7. \A v \in Workers : v # w => LeavesAlone(run[v])
  BY <1>2, <1>5, OthersLeftAlone DEF Pays
<1>8. x \in Run /\ Moves(w, x) /\ x.at = "recorded" /\ x.reg = r /\ x.kind = y.kind
  BY <1>1, <1>2, GoesOnHolds DEF RecordEvent, Steps
<1>9. Sound(x)'
  BY <1>2, <1>3, <1>4, <1>8 DEF Sound, Knows
<1> HIDE DEF x
<1>10. QED
  BY <1>6, <1>7, <1>8, <1>9, StepHolds

LEMMA ConfirmBookedHolds ==
    ASSUME TicketInv, NEW w \in Workers, ConfirmBooked(w)
    PROVE  TicketInv'
<1>1. PICK y \in Run : y = run[w]
  BY DEF TicketInv, Typed
<1> DEFINE r == y.reg
           x == Goes(y, "claim", r)
<1>2. /\ r \in Regs /\ reg[r].state # "none" /\ reg[r].kind = "online"
  BY <1>1, TicketAssumption DEF ConfirmBooked, At, TicketInv, RunsOK, Sound, Knows
<1>3. UNCHANGED <<reg, ticket, txn, gw, attendance, deaths>> /\ deaths' \in 0 .. MaxDeaths
  BY DEF ConfirmBooked, TicketInv, Typed
<1>4. CASE txn[r] = "success" /\ AwaitsTicket(r)
  <2>1. GoesTo(w, "claim", r) /\ gw[r] = "charged" /\ sent' = sent
    BY <1>1, <1>4 DEF ConfirmBooked, Verified
  <2>2. x \in Run /\ Moves(w, x) /\ x.at = "claim" /\ x.reg = r
    BY <1>1, <1>2, <2>1, GoesOnHolds DEF Steps
  <2>3. Sound(x)
    BY <1>2, <2>1, <2>2 DEF Sound, Knows
  <2> HIDE DEF x
  <2>4. QED
    BY <1>3, <2>1, <2>2, <2>3, QuietHolds
<1>5. CASE ~(txn[r] = "success" /\ AwaitsTicket(r))
  <2>1. Done(w) /\ sent' \subseteq sent
    BY <1>1, <1>5 DEF ConfirmBooked, Answered
  <2>2. QED
    BY <1>3, <2>1, DoneHolds
<1>6. QED
  BY <1>4, <1>5

(* The claim makes a ticket of a charge. *)
LEMMA SettleHolds ==
    ASSUME TicketInv, NEW w \in Workers, Settle(w)
    PROVE  TicketInv'
<1>1. PICK y \in Run : y = run[w]
  BY DEF TicketInv, Typed
<1> DEFINE r == y.reg
           row == [state |-> "paid", member |-> reg[r].member, kind |-> reg[r].kind,
                   linked |-> TRUE, checked |-> reg[r].checked]
           t == [state |-> "paid", used |-> FALSE]
<1>2. r \in Regs /\ reg[r].state = "pending" /\ gw[r] = "charged"
  BY <1>1, TicketAssumption DEF Settle, At, TicketInv, RunsOK, Sound, Knows
<1>3. row \in Reg /\ t \in Ticket
  BY <1>2 DEF Reg, Ticket, TicketInv, Typed
<1>4. /\ reg' = [reg EXCEPT ![r] = row] /\ ticket' = [ticket EXCEPT ![r] = t]
      /\ txn' = [txn EXCEPT ![r] = "success"]
      /\ sent' \subseteq sent /\ UNCHANGED <<gw, attendance, deaths>>
  BY <1>1 DEF Settle, Answered
<1>5. /\ txn' \in [Regs -> Statuses] /\ Terminal(txn'[r])
      /\ \A q \in Regs : q # r => txn'[q] = txn[q]
  BY <1>2, <1>4 DEF Terminal, Statuses, TicketInv, Typed
<1>6. reg[r].checked => attendance[reg[r].member] # None
  BY <1>2 DEF TicketInv, AdmissionsAgree
<1>7. Writes(r, row, t)
  BY <1>2, <1>4, <1>5, <1>6 DEF Writes, Present, TicketInv, Typed
<1>8. RowsOK' /\ Forward
  BY <1>2, <1>3, <1>7, UpdatesHold
<1>9. \A v \in Workers : v # w => LeavesAlone(run[v])
  BY <1>2, <1>4, <1>5, OthersLeftAlone
<1>10. QED
  BY <1>8, <1>9, EndHolds DEF Settle

-----------------------------------------------------------------------------
(* Cancellation and admission *)

LEMMA VoidTicketHolds ==
    ASSUME TicketInv, NEW w \in Workers, VoidTicket(w)
    PROVE  TicketInv'
<1>1. PICK y \in Run : y = run[w]
  BY DEF TicketInv, Typed
<1> DEFINE r == y.reg
           t == [state |-> "cancelled", used |-> ticket[r].used]
           x == Goes(y, "delete", r)
<1>2. r \in Regs /\ reg[r].state # "none" /\ ticket[r].state # "none" /\ y.member \in Members
  BY <1>1, TicketAssumption DEF VoidTicket, At, TicketInv, RunsOK, Sound, Knows
<1>3. t \in Ticket /\ ticket[r] \in Ticket /\ reg[r] \in Reg /\ reg = [reg EXCEPT ![r] = reg[r]]
  BY <1>2 DEF Ticket, TicketInv, Typed
<1>4. [ticket[r] EXCEPT !.state = "cancelled"] = t
  BY <1>3, TicketsWritten
<1>5. ticket' = [ticket EXCEPT ![r] = t] /\ UNCHANGED <<reg, txn, gw, sent, attendance, deaths>>
  BY <1>1, <1>4 DEF VoidTicket
<1>6. /\ ticket[r].used => attendance[reg[r].member] = r
      /\ reg[r].checked => attendance[reg[r].member] # None
      /\ reg[r].kind = "online" => gw[r] = "charged"
  BY <1>2 DEF TicketInv, AdmissionsAgree, TicketWasCharged
<1>7. t.state = "cancelled" /\ t.used = ticket[r].used
  OBVIOUS
<1> HIDE DEF t
<1>8. Writes(r, reg[r], t)
  BY <1>2, <1>3, <1>5, <1>6, <1>7 DEF Writes, Present, TicketInv, Typed
<1>9. RowsOK' /\ Forward
  BY <1>2, <1>3, <1>8, UpdatesHold
<1>10. x \in Run /\ Moves(w, x) /\ x.at = "delete" /\ x.reg = r /\ x.member = y.member
  BY <1>1, <1>2, GoesOnHolds DEF VoidTicket, Steps
<1>11. Sound(x)'
  BY <1>2, <1>5, <1>10 DEF Sound, Knows
<1>12. \A v \in Workers : LeavesAlone(run[v])
  BY <1>5 DEF LeavesAlone
<1> HIDE DEF x
<1>13. QED
  BY <1>9, <1>10, <1>11, <1>12, StepHolds

(* A deleted row keeps what it held, and frees the key of its member. *)
LEMMA DeleteRegHolds ==
    ASSUME TicketInv, NEW w \in Workers, DeleteReg(w)
    PROVE  TicketInv'
<1> DEFINE gone == RegOf(run[w].member)
<1>1. UNCHANGED <<ticket, txn, gw, sent, attendance, deaths>>
  BY DEF DeleteReg
<1>2. ASSUME NEW r \in Regs
      PROVE  /\ reg'[r] \in Reg /\ reg'[r].member = reg[r].member /\ reg'[r].kind = reg[r].kind
             /\ reg'[r].linked = reg[r].linked /\ reg'[r].checked = reg[r].checked
             /\ reg'[r].state = (IF r \in gone THEN "gone" ELSE reg[r].state)
             /\ r \notin gone => reg'[r] = reg[r]
             /\ r \in gone => reg[r].state \in {"pending", "paid"}
  <2>1. reg[r] \in Reg
    BY DEF TicketInv, Typed
  <2>2. r \in gone => reg[r].state \in {"pending", "paid"}
    BY DEF RegOf, Registered, Present
  <2> HIDE DEF gone
  <2>3. reg'[r] = IF r \in gone
                  THEN [state |-> "gone", member |-> reg[r].member, kind |-> reg[r].kind,
                        linked |-> reg[r].linked, checked |-> reg[r].checked]
                  ELSE reg[r]
    BY DEF DeleteReg, gone
  <2>4. QED
    BY <2>1, <2>2, <2>3 DEF Reg
<1> HIDE DEF gone
<1>3. reg' \in [Regs -> Reg]
  <2>1. reg' = [r \in Regs |-> reg'[r]]
    BY DEF DeleteReg
  <2>2. QED
    BY <1>2, <2>1
<1>4. Forward
  BY <1>1, <1>2 DEF Forward
<1>5. OneEach'
  BY <1>2 DEF TicketInv, OneEach, Registered, Present
<1>6. RegsOK'
  <2>1. ASSUME NEW r \in Regs PROVE (UnusedIsEmpty(r) /\ TicketsExist(r) /\ PagesAreSold(r))'
    BY <1>1, <1>2 DEF TicketInv, RegsOK, UnusedIsEmpty, TicketsExist, PagesAreSold
  <2>2. QED
    BY <2>1 DEF RegsOK
<1>7. TicketWasCharged' /\ AdmissionsAgree'
  BY <1>1, <1>2 DEF TicketInv, TicketWasCharged, AdmissionsAgree
<1>8. RowsOK'
  BY <1>1, <1>3, <1>5, <1>6, <1>7 DEF TicketInv, Typed, RowsOK
<1>9. \A v \in Workers : LeavesAlone(run[v])
  BY <1>1 DEF LeavesAlone
<1>10. QED
  BY <1>4, <1>8, <1>9, EndHolds DEF DeleteReg

(* One claim writes the ticket, the attendance and the registration. *)
LEMMA AdmitHolds ==
    ASSUME TicketInv, NEW w \in Workers, Admit(w)
    PROVE  TicketInv'
<1>1. PICK y \in Run : y = run[w]
  BY DEF TicketInv, Typed
<1> DEFINE r == y.reg
<1>2. r \in Regs
  BY <1>1 DEF Admit, At, TicketInv, RunsOK, Sound, Knows
<1>3. CASE Claims(r) /\ Attends(r)
  <2> DEFINE row == [state |-> reg[r].state, member |-> reg[r].member, kind |-> reg[r].kind,
                     linked |-> reg[r].linked, checked |-> TRUE]
             t == [state |-> "paid", used |-> TRUE]
  <2>1. /\ ticket[r].state = "paid" /\ attendance[reg[r].member] = None /\ Present(r)
        /\ reg[r] \in Reg /\ ticket[r] \in Ticket /\ reg[r].member \in Members
        /\ reg[r].state # "none"
    BY <1>2, <1>3 DEF Claims, Usable, Attends, Present, TicketInv, Typed, RegsOK, UnusedIsEmpty
  <2>2. row \in Reg /\ t \in Ticket /\ [ticket[r] EXCEPT !.used = TRUE] = t
    BY <2>1, TicketsWritten DEF Reg, Ticket
  <2>3. /\ reg' = [reg EXCEPT ![r] = row]
        /\ ticket' = [ticket EXCEPT ![r] = t]
        /\ attendance' = [attendance EXCEPT ![reg[r].member] = r]
        /\ UNCHANGED <<txn, gw, sent, deaths>>
    BY <1>1, <1>3, <2>1, <2>2, RowsWritten DEF Admit
  <2>4. /\ row.state = reg[r].state /\ row.member = reg[r].member /\ row.kind = reg[r].kind
        /\ row.linked = reg[r].linked /\ row.checked /\ t.state = "paid" /\ t.used
    OBVIOUS
  <2> HIDE DEF row, t
  <2>5. /\ attendance' \in [Members -> Regs \cup {"hand", None}]
        /\ attendance'[reg[r].member] = r /\ r # None
        /\ \A n \in Members : attendance[n] # None => attendance'[n] = attendance[n]
    BY <1>2, <2>1, <2>3, TicketAssumption DEF TicketInv, Typed
  <2>6. reg[r].kind = "online" => gw[r] = "charged"
    BY <1>2, <2>1 DEF TicketInv, TicketWasCharged
  <2>7. Writes(r, row, t)
    BY <1>2, <2>1, <2>3, <2>4, <2>5, <2>6 DEF Writes, TicketInv, Typed
  <2>8. RowsOK' /\ Forward
    BY <1>2, <2>2, <2>7, UpdatesHold
  <2>9. \A v \in Workers : LeavesAlone(run[v])
    BY <2>3 DEF LeavesAlone
  <2>10. QED
    BY <2>8, <2>9, EndHolds DEF Admit
<1>4. CASE ~(Claims(r) /\ Attends(r))
  BY <1>1, <1>4, DoneHolds DEF Admit, TicketInv, Typed
<1>5. QED
  BY <1>3, <1>4

(* By hand: an attendance row without a ticket. *)
Enters(m) ==
    /\ attendance[m] = None
    /\ attendance' = [attendance EXCEPT ![m] = "hand"]

LEMMA EntersHolds ==
    ASSUME TicketInv, NEW m \in Members, Enters(m)
    PROVE  /\ attendance' \in [Members -> Regs \cup {"hand", None}]
           /\ attendance'[m] = "hand" /\ "hand" # None
           /\ \A n \in Members : attendance[n] # None => attendance'[n] = attendance[n]
BY TicketAssumption DEF Enters, TicketInv, Typed

LEMMA AttendHolds ==
    ASSUME TicketInv, NEW w \in Workers, Attend(w)
    PROVE  TicketInv'
<1>1. PICK y \in Run : y = run[w]
  BY DEF TicketInv, Typed
<1> DEFINE r == y.reg
           m == y.member
           x == Goes(y, "mark", r)
<1>2. /\ m \in Members /\ r \in Regs \cup {None}
      /\ r # None => reg[r].state # "none" /\ reg[r].member = m
  BY <1>1 DEF Attend, At, TicketInv, RunsOK, Sound, Knows, Run
<1>3. UNCHANGED <<reg, ticket, txn, gw, sent, deaths>>
  BY DEF Attend
<1>4. CASE attendance[m] = None
  <2>1. Enters(m)
    BY <1>1, <1>4 DEF Attend, Enters
  <2>2. /\ attendance' \in [Members -> Regs \cup {"hand", None}]
        /\ attendance'[m] = "hand" /\ "hand" # None
        /\ \A n \in Members : attendance[n] # None => attendance'[n] = attendance[n]
    BY <1>2, <2>1, EntersHolds
  <2>3. Forward
    BY <1>3, <2>2 DEF Forward
  <2>4. AdmissionsAgree'
    <3>1. ASSUME NEW q \in Regs
          PROVE  /\ ticket'[q].used => attendance'[reg'[q].member] = q
                 /\ reg'[q].checked => attendance'[reg'[q].member] # None
      <4>1. ticket[q].used \/ reg[q].checked => reg[q].member \in Members
        BY DEF TicketInv, RegsOK, UnusedIsEmpty, NoTicket, NoReg
      <4>2. QED
        BY <1>3, <2>2, <4>1, TicketAssumption DEF TicketInv, AdmissionsAgree
    <3>2. QED
      BY <3>1 DEF AdmissionsAgree
  <2>5. RegsOK' /\ OneEach' /\ TicketWasCharged'
    BY <1>3 DEF TicketInv, RegsOK, UnusedIsEmpty, TicketsExist, PagesAreSold, OneEach,
         Registered, Present, TicketWasCharged
  <2>6. RowsOK'
    BY <1>3, <2>2, <2>4, <2>5 DEF TicketInv, Typed, RowsOK
  <2>7. \A v \in Workers : LeavesAlone(run[v])
    BY <1>3 DEF LeavesAlone
  <2>8. CASE r = None
    BY <1>1, <1>4, <2>3, <2>6, <2>7, <2>8, EndHolds DEF Attend
  <2>9. CASE r # None
    <3>1. x \in Run /\ Moves(w, x) /\ x.at = "mark" /\ x.reg = r /\ x.member = m
      BY <1>1, <1>2, <1>4, <2>9, GoesOnHolds DEF Attend, Steps
    <3>2. Sound(x)'
      BY <1>2, <1>3, <2>2, <2>9, <3>1 DEF Sound, Knows
    <3> HIDE DEF x
    <3>3. QED
      BY <2>3, <2>6, <2>7, <3>1, <3>2, StepHolds
  <2>10. QED
    BY <2>8, <2>9
<1>5. CASE attendance[m] # None
  BY <1>1, <1>5, DoneHolds DEF Attend, TicketInv, Typed
<1>6. QED
  BY <1>4, <1>5

(* A check-in of a registration whose member is inside. *)
LEMMA ChecksHold ==
    ASSUME TicketInv, NEW r \in Regs, Present(r), reg' = [reg EXCEPT ![r].checked = TRUE],
           attendance' \in [Members -> Regs \cup {"hand", None}],
           \A n \in Members : attendance[n] # None => attendance'[n] = attendance[n],
           attendance'[reg[r].member] # None, UNCHANGED <<ticket, txn, gw, sent, deaths>>
    PROVE  RowsOK' /\ Forward
<1> DEFINE row == [state |-> reg[r].state, member |-> reg[r].member, kind |-> reg[r].kind,
                   linked |-> reg[r].linked, checked |-> TRUE]
<1>1. /\ reg[r] \in Reg /\ reg[r].state # "none" /\ reg[r].member \in Members
      /\ ticket[r] \in Ticket /\ ticket' = [ticket EXCEPT ![r] = ticket[r]]
      /\ txn \in [Regs -> Statuses]
  BY DEF Present, TicketInv, Typed, RegsOK, UnusedIsEmpty
<1>2. row \in Reg
  BY <1>1 DEF Reg
<1>3. reg' = [reg EXCEPT ![r] = row]
  BY <1>1, RowsWritten
<1>4. /\ ticket[r].used => attendance'[reg[r].member] = r
      /\ reg[r].kind = "online" /\ ticket[r].state # "none" => gw[r] = "charged"
      /\ reg[r].linked => ticket[r].state # "none"
      /\ reg[r].state = "paid" /\ reg[r].kind = "online" => ticket[r].state # "none"
      /\ ticket[r].used => ticket[r].state # "none"
  BY <1>1, TicketAssumption DEF TicketInv, AdmissionsAgree, TicketWasCharged, RegsOK, TicketsExist
<1>5. /\ row.state = reg[r].state /\ row.member = reg[r].member /\ row.kind = reg[r].kind
      /\ row.linked = reg[r].linked
  OBVIOUS
<1> HIDE DEF row
<1>6. Writes(r, row, ticket[r])
  BY <1>1, <1>2, <1>3, <1>4, <1>5 DEF Writes
<1>7. QED
  BY <1>1, <1>2, <1>6, UpdatesHold

LEMMA MarkHolds ==
    ASSUME TicketInv, NEW w \in Workers, Mark(w)
    PROVE  TicketInv'
<1>1. PICK y \in Run : y = run[w]
  BY DEF TicketInv, Typed
<1> DEFINE r == y.reg
<1>2. r \in Regs /\ attendance[reg[r].member] # None
  BY <1>1 DEF Mark, At, TicketInv, RunsOK, Sound, Knows
<1>3. UNCHANGED <<ticket, txn, gw, sent, attendance, deaths>>
  BY DEF Mark
<1>4. CASE Present(r)
  <2>1. attendance' = attendance /\ reg' = [reg EXCEPT ![r].checked = TRUE]
    BY <1>1, <1>4 DEF Mark
  <2>2. attendance \in [Members -> Regs \cup {"hand", None}]
    BY DEF TicketInv, Typed
  <2>3. RowsOK' /\ Forward
    BY <1>2, <1>3, <1>4, <2>1, <2>2, ChecksHold
  <2>4. \A v \in Workers : LeavesAlone(run[v])
    BY <1>3 DEF LeavesAlone
  <2>5. QED
    BY <2>3, <2>4, EndHolds DEF Mark
<1>5. CASE ~Present(r)
  BY <1>1, <1>5, DoneHolds DEF Mark, TicketInv, Typed
<1>6. QED
  BY <1>4, <1>5

LEMMA WalkInHolds ==
    ASSUME TicketInv, NEW m \in Members, NEW r \in Regs, WalkIn(m, r)
    PROVE  TicketInv'
<1>1. /\ attendance' \in [Members -> Regs \cup {"hand", None}]
      /\ attendance'[m] = "hand" /\ "hand" # None
      /\ \A n \in Members : attendance[n] # None => attendance'[n] = attendance[n]
  BY EntersHolds DEF WalkIn, Enters
<1>2. UNCHANGED <<ticket, txn, gw, sent, run, deaths>>
  BY DEF WalkIn
<1>3. RowsOK' /\ Forward
  <2>1. CASE r \in RegOf(m) /\ reg' = [reg EXCEPT ![r].checked = TRUE]
    <3>1. Present(r) /\ reg[r].member = m
      BY <2>1 DEF RegOf, Registered
    <3>2. QED
      BY <1>1, <1>2, <2>1, <3>1, ChecksHold
  <2> DEFINE row == [state |-> "paid", member |-> m, kind |-> "staff", linked |-> FALSE, checked |-> TRUE]
  <2>2. CASE KeyFree(m) /\ reg[r].state = "none" /\ reg' = [reg EXCEPT ![r] = row]
    <3>1. row \in Reg
      BY DEF Reg, Kinds
    <3>2. ticket' = [ticket EXCEPT ![r] = NoTicket] /\ NoTicket \in Ticket /\ ~NoTicket.used
      BY <1>2, <2>2 DEF TicketInv, Typed, RegsOK, UnusedIsEmpty, NoTicket, Ticket
    <3>3. attendance[m] = None /\ attendance' = [attendance EXCEPT ![m] = "hand"]
      BY DEF WalkIn
    <3>4. /\ row.state = "paid" /\ row.member = m /\ row.kind = "staff"
          /\ ~row.linked
      OBVIOUS
    <3> HIDE DEF row
    <3>5. QED
      BY <1>2, <2>2, <3>1, <3>2, <3>3, <3>4, StoresHolds
  <2>3. QED
    BY <2>1, <2>2 DEF WalkIn
<1>4. \A v \in Workers : LeavesAlone(run[v])
  BY <1>2 DEF LeavesAlone
<1>5. QED
  BY <1>2, <1>3, <1>4, NobodyHolds

-----------------------------------------------------------------------------
(* The steps together *)

LEMMA GatewayHolds ==
    ASSUME TicketInv, NEW r \in Regs,
           PayerDeclined(r) \/ PayerPays(r) \/ PayerPaysOther(r) \/ VerifyPayment(r)
    PROVE  TicketInv'
<1>1. gw[r] # "none" /\ reg[r].state # "none" /\ reg[r].kind = "online"
  BY DEF PayerDeclined, PayerPays, PayerPaysOther, VerifyPayment, Verified, TicketInv, RegsOK,
       UnusedIsEmpty, PagesAreSold
<1>2. Pays(r) /\ UNCHANGED run
  <2>1. ASSUME PayerDeclined(r) PROVE Pays(r) /\ UNCHANGED run
    BY <1>1, <2>1 DEF PayerDeclined, Pays, TicketInv, Typed
  <2>2. ASSUME PayerPays(r) PROVE Pays(r) /\ UNCHANGED run
    BY <1>1, <2>2 DEF PayerPays, Pays, TicketInv, Typed
  <2>3. ASSUME PayerPaysOther(r) PROVE Pays(r) /\ UNCHANGED run
    BY <1>1, <2>3 DEF PayerPaysOther, Pays, TicketInv, Typed
  <2>4. ASSUME VerifyPayment(r) PROVE Pays(r) /\ UNCHANGED run
    BY <1>1, <2>4 DEF VerifyPayment, Pays, Terminal, Statuses, TicketInv, Typed
  <2>5. QED
    BY <2>1, <2>2, <2>3, <2>4
<1>3. RowsOK' /\ Forward
  BY <1>2, PaymentHolds
<1>4. \A v \in Workers : LeavesAlone(run[v])
  <2> SUFFICES ASSUME NEW v \in Workers, run[v].at \in {"prepare", "open"}
               PROVE  gw'[run[v].reg] = gw[run[v].reg] /\ txn'[run[v].reg] = txn[run[v].reg]
    BY DEF LeavesAlone
  <2>1. run[v].reg \in Regs /\ gw[run[v].reg] = "none"
    BY DEF TicketInv, RunsOK, Sound, Knows
  <2>2. QED
    BY <1>1, <1>2, <2>1 DEF Pays
<1>5. QED
  BY <1>2, <1>3, <1>4, NobodyHolds

LEMMA EndsHold ==
    ASSUME TicketInv, NEW w \in Workers, EnrolFails(w) \/ SettleLost(w) \/ Dies(w)
    PROVE  TicketInv'
<1>1. UNCHANGED <<reg, ticket, txn, gw, attendance>> /\ Done(w)
  BY DEF EnrolFails, SettleLost, Dies
<1>2. sent' \subseteq sent
  BY DEF EnrolFails, SettleLost, Dies, Answered
<1>3. deaths' \in 0 .. MaxDeaths
  BY TicketAssumption DEF EnrolFails, SettleLost, Dies, TicketInv, Typed
<1>4. QED
  BY <1>1, <1>2, <1>3, DoneHolds

LEMMA TicketInitHolds == Init => TicketInv
<1> SUFFICES ASSUME Init PROVE TicketInv
  OBVIOUS
<1>1. NoReg \in Reg /\ NoTicket \in Ticket /\ Idle \in Run
  BY DEF NoReg, Reg, Kinds, NoTicket, Ticket, Idle, Run, Steps, Statuses
<1>2. Typed
  BY <1>1, TicketAssumption DEF Init, Typed, Statuses
<1>3. \A w \in Workers : run[w] = Idle
  BY DEF Init
<1>4. RunsOK /\ OneOpener
  BY <1>3, IdleHolds DEF RunsOK, OneOpener, Opens, Idle
<1>5. \A r \in Regs : reg[r] = NoReg /\ ticket[r] = NoTicket /\ txn[r] = "none" /\ gw[r] = "none"
  BY DEF Init
<1>6. OneEach /\ RegsOK /\ TicketWasCharged /\ AdmissionsAgree
  BY <1>5 DEF Init, OneEach, Registered, Present, RegsOK, UnusedIsEmpty, TicketsExist, PagesAreSold,
       TicketWasCharged, AdmissionsAgree, NoReg, NoTicket
<1>7. QED
  BY <1>2, <1>4, <1>6 DEF TicketInv

LEMMA StutterHolds == TicketInv /\ UNCHANGED vars => TicketInv'
<1> SUFFICES ASSUME TicketInv, UNCHANGED vars PROVE TicketInv'
  OBVIOUS
<1>1. UNCHANGED <<reg, ticket, txn, gw, sent, attendance, run, deaths>>
  BY DEF vars
<1>2. Forward /\ \A v \in Workers : LeavesAlone(run[v])
  BY <1>1 DEF Forward, LeavesAlone
<1>3. RegsOK' /\ OneEach' /\ TicketWasCharged' /\ AdmissionsAgree'
  BY <1>1 DEF TicketInv, RegsOK, UnusedIsEmpty, TicketsExist, PagesAreSold, OneEach,
       Registered, Present, TicketWasCharged, AdmissionsAgree
<1>4. RowsOK'
  BY <1>1, <1>3 DEF TicketInv, Typed, RowsOK
<1>5. QED
  BY <1>1, <1>2, <1>4, NobodyHolds

LEMMA TicketStepHolds == TicketInv /\ [Next]_vars => TicketInv'
<1> SUFFICES ASSUME TicketInv, [Next]_vars PROVE TicketInv'
  OBVIOUS
<1>1. ASSUME NEW w \in Workers, Continue(w) PROVE TicketInv'
  BY <1>1, EnrolHolds, AssignedHolds, IssueHolds, LinkHolds, PrepareHolds, OpenPageHolds,
     RecordEventHolds, ConfirmBookedHolds, SettleHolds, VoidTicketHolds, DeleteRegHolds, AdmitHolds,
     AttendHolds, MarkHolds, EndsHold DEF Continue
<1>2. ASSUME NEW w \in Workers, Start(w) \/ Dies(w) PROVE TicketInv'
  BY <1>2, StartHolds, EndsHold
<1>3. ASSUME NEW r \in Regs,
             PayerDeclined(r) \/ PayerPays(r) \/ PayerPaysOther(r) \/ VerifyPayment(r)
      PROVE  TicketInv'
  BY <1>3, GatewayHolds
<1>4. ASSUME NEW m \in Members, NEW r \in Regs, WalkIn(m, r) PROVE TicketInv'
  BY <1>4, WalkInHolds
<1>5. QED
  BY <1>1, <1>2, <1>3, <1>4, StutterHolds DEF Next

(* The inductive invariant of registrations, tickets and admissions.  *)
THEOREM TicketCorrect == Spec => []TicketInv
BY TicketInitHolds, TicketStepHolds, PTL DEF Spec

(* Every variable has its type, and no member has two registrations, which *)
(* the unique key of registerForEvent promises.                            *)
THEOREM TypeCorrect == Spec => []TypeOK
<1>1. ASSUME TicketInv PROVE TypeOK
  <2>1. ASSUME NEW m \in Members PROVE Cardinality(RegOf(m)) <= 1
    <3>1. CASE RegOf(m) = {}
      BY <3>1, FS_EmptySet
    <3>2. CASE RegOf(m) # {}
      <4>1. PICK r \in RegOf(m) : TRUE
        BY <3>2
      <4>2. RegOf(m) = {r}
        BY <1>1, <4>1 DEF TicketInv, OneEach, RegOf
      <4>3. QED
        BY <4>2, FS_Singleton
    <3>3. QED
      BY <3>1, <3>2
  <2>2. QED
    BY <1>1, <2>1 DEF TicketInv, Typed, TypeOK, Reg, Ticket, Run
<1>2. QED
  BY <1>1, TicketCorrect, PTL

(* confirmTicketPayment: no ticket is sold without the gateway's word for  *)
(* the right charge, whoever settles it and whatever other callbacks say.  *)
THEOREM TicketWasChargedHolds == Spec => []TicketWasCharged
<1>1. TicketInv => TicketWasCharged
  BY DEF TicketInv
<1>2. QED
  BY <1>1, TicketCorrect, PTL

(* validateTicket and the roster: a used ticket is the one its member came *)
(* in with, and who is checked in is inside.                               *)
THEOREM AdmissionsAgreeHolds == Spec => []AdmissionsAgree
<1>1. TicketInv => AdmissionsAgree
  BY DEF TicketInv
<1>2. QED
  BY <1>1, TicketCorrect, PTL

(* The admission of a ticket that was paid and a registration that is      *)
(* there, however long ago the request looked at them.                     *)
THEOREM CancelledStaysOutHolds == Spec => CancelledStaysOut
<1> DEFINE Out == \A r \in Regs :
                     ticket'[r].used /\ ~ticket[r].used => ticket[r].state = "paid" /\ Present(r)
<1>1. ASSUME TicketInv, [Next]_vars PROVE Out
  <2>0. ticket \in [Regs -> Ticket]
    BY <1>1 DEF TicketInv, Typed
  <2>1. ASSUME NEW w \in Workers, Admit(w) PROVE Out
    BY <2>0, <2>1 DEF Admit, Claims, Usable, Attends
  <2>2. ASSUME NEW w \in Workers, Issue(w) \/ Settle(w) PROVE Out
    BY <2>0, <2>2 DEF Issue, Settle
  <2>3. ASSUME NEW w \in Workers, NEW r \in Regs, Assigned(w, r) PROVE Out
    BY <2>0, <2>3 DEF Assigned
  <2>4. ASSUME NEW w \in Workers, VoidTicket(w) PROVE Out
    <3>1. ASSUME NEW r \in Regs PROVE ticket'[r] \in {ticket[r], [ticket[r] EXCEPT !.state = "cancelled"]}
      BY <2>0, <2>4 DEF VoidTicket
    <3>2. ASSUME NEW r \in Regs PROVE ticket'[r].used = ticket[r].used
      <4>1. ticket[r] \in Ticket
        BY <2>0
      <4>2. [ticket[r] EXCEPT !.state = "cancelled"].used = ticket[r].used
        BY <4>1, TicketsWritten
      <4>3. QED
        BY <3>1, <4>2
    <3>3. QED
      BY <3>2
  <2>5. CASE ticket' = ticket
    BY <2>5
  <2>6. QED
    BY <1>1, <2>1, <2>2, <2>3, <2>4, <2>5
       DEF Next, Start, Continue, Register, Assign, Cancel, CheckIn, HandleWebhook, ConfirmCharged,
         Scan, Enrol, EnrolFails, Link, Prepare, OpenPage, RecordEvent, ConfirmBooked, SettleLost,
         DeleteReg, Attend, Mark, Dies, PayerDeclined, PayerPays, PayerPaysOther, VerifyPayment,
         WalkIn, vars
<1>2. TicketInv /\ [Next]_vars => [Out]_vars
  BY <1>1
<1>3. QED
  BY <1>2, TicketCorrect, PTL DEF Spec, CancelledStaysOut

(* The gateway is told that it need not repeat a charge only when the      *)
(* charge has its ticket, nobody waits for one, or a declined try stands   *)
(* in its way: the callback at integrations/payments/webhook.              *)
THEOREM AnsweredHasTicketHolds == Spec => AnsweredHasTicket
<1> DEFINE Kept == \A r \in Regs :
                      <<r, "success">> \in sent /\ <<r, "success">> \notin sent' =>
                         ticket'[r].state # "none" \/ ~Present(r) \/ txn[r] = "failed"
<1>1. ASSUME TicketInv, [Next]_vars PROVE Kept
  <2>1. ASSUME NEW w \in Workers, sent' \in {sent, sent \ {<<run[w].reg, run[w].kind>>}},
               NEW r \in Regs, <<r, "success">> \in sent, <<r, "success">> \notin sent'
        PROVE  run[w].reg = r
    <3>1. <<r, "success">> = <<run[w].reg, run[w].kind>>
      BY <2>1
    <3>2. QED
      BY <3>1
  <2>2. ASSUME NEW w \in Workers, Settle(w) PROVE Kept
    <3>1. run[w].reg \in Regs => ticket'[run[w].reg].state = "paid"
      BY <1>1, <2>2 DEF Settle, TicketInv, Typed
    <3>2. QED
      BY <2>1, <2>2, <3>1 DEF Settle, Answered
  <2>3. ASSUME NEW w \in Workers, SettleLost(w) PROVE Kept
    <3> DEFINE r == run[w].reg
    <3>1. CASE Present(r)
      <4>1. r \in Regs /\ reg[r].kind = "online"
        BY <1>1, <2>3 DEF SettleLost, At, TicketInv, RunsOK, Sound, Knows
      <4>2. reg[r].state = "paid"
        BY <2>3, <3>1 DEF SettleLost, Present
      <4>3. ticket'[r].state # "none"
        BY <1>1, <2>3, <4>1, <4>2 DEF SettleLost, TicketInv, RegsOK, TicketsExist
      <4>4. QED
        BY <2>1, <2>3, <3>1, <4>3 DEF SettleLost, Answered
    <3>2. CASE ~Present(r)
      BY <2>3, <3>2 DEF SettleLost
    <3>3. QED
      BY <3>1, <3>2
  <2>4. ASSUME NEW w \in Workers, ConfirmBooked(w) PROVE Kept
    <3> DEFINE r == run[w].reg
    <3>1. /\ r \in Regs /\ reg[r].kind = "online" /\ txn[r] \in {"success", "failed"}
      BY <1>1, <2>4 DEF ConfirmBooked, At, TicketInv, RunsOK, Sound, Knows, Terminal
    <3>2. CASE Present(r) /\ ~(txn[r] = "success" /\ AwaitsTicket(r))
      <4>1. reg[r].state = "paid" \/ txn[r] = "failed"
        BY <3>1, <3>2 DEF Present, AwaitsTicket
      <4>2. ticket'[r].state # "none" \/ txn[r] = "failed"
        BY <1>1, <2>4, <3>1, <4>1 DEF ConfirmBooked, TicketInv, RegsOK, TicketsExist
      <4>3. QED
        BY <2>1, <2>4, <3>2, <4>2 DEF ConfirmBooked, Answered
    <3>3. CASE ~(Present(r) /\ ~(txn[r] = "success" /\ AwaitsTicket(r)))
      BY <2>4, <3>3 DEF ConfirmBooked
    <3>4. QED
      BY <3>2, <3>3
  <2>5. CASE sent \subseteq sent'
    BY <2>5
  <2>6. QED
    BY <1>1, <2>2, <2>3, <2>4, <2>5
       DEF Next, Start, Continue, Register, Assign, Cancel, CheckIn, HandleWebhook, ConfirmCharged,
         Scan, Enrol, EnrolFails, Assigned, Issue, Link, Prepare, OpenPage, RecordEvent, VoidTicket,
         DeleteReg, Admit, Attend, Mark, Dies, PayerDeclined, PayerPays, PayerPaysOther,
         VerifyPayment, WalkIn, vars
<1>2. TicketInv /\ [Next]_vars => [Kept]_vars
  BY <1>1
<1>3. QED
  BY <1>2, TicketCorrect, PTL DEF Spec, AnsweredHasTicket
=============================================================================
