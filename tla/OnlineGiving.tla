------------------------------ MODULE OnlineGiving ------------------------------
(***************************************************************************)
(* A church's giving: categories, gifts paid on the gateway's page, gifts  *)
(* in cash, charges of recurring gifts, and the numbers of their receipts  *)
(* (src/giving/giving.service).                                            *)
(*                                                                         *)
(* A gift is confirmed by the payer's browser (verifyPayment) and by the   *)
(* gateway's webhook, in any order, repeated, and at once; neither runs in *)
(* a transaction.  A receipt's number is a count plus one.                 *)
(*                                                                         *)
(* Names of categories do not change here: their prefixes are taken to     *)
(* differ, and none is named "Recurring".  Refund events are refused by    *)
(* handleWebhook and left out.  Which schedules are charged, and when, is  *)
(* RecurringGiving.                                                        *)
(***************************************************************************)
EXTENDS Integers, FiniteSets, Requests

CONSTANTS
    Gifts,       \* transactions, each used once
    Funds,       \* giving categories
    LastGivingYear \* bound on the years that pass

ASSUME GivingAssumption ==
    /\ IsFiniteSet(Gifts) /\ None \notin Funds
    /\ LastGivingYear \in Nat

VARIABLES
    fund,       \* categories that are active
    gift,       \* transactions
    page,       \* the gateway: "none", "open", "paid" or "short"
    event,      \* the gateway's events about a gift, each delivered again and again
    givingYear,
    contested   \* history: receipts that were Disputed

givingVars == <<fund, gift, page, event, givingYear, contested, req>>

(* A receipt is the series its number is of (that of its fund, or None for *)
(* "Recurring"), the year in its number, and the number.  0: no receipt.   *)
NoGift == [state |-> "none", cash |-> FALSE, fund |-> None, created |-> 0,
           series |-> None, year |-> 0, number |-> 0]

GivingInit ==
    /\ fund = {}
    /\ gift = [g \in Gifts |-> NoGift]
    /\ page = [g \in Gifts |-> "none"]
    /\ event = [g \in Gifts |-> {}]
    /\ givingYear = 0
    /\ contested = {}
    /\ ReqInit

-----------------------------------------------------------------------------
(* createCategory, updateCategory and deleteCategory; an archived category *)
(* is only hidden from lists.                                              *)
ToggleFund(f) ==
    /\ fund' = IF f \in fund THEN fund \ {f} ELSE fund \cup {f}
    /\ UNCHANGED <<gift, page, event, givingYear, req>>

(* What is counted for a fund and year: the recurring ones' too, although  *)
(* their numbers are of another series.                                    *)
Receipts(f, y) == {g \in Gifts : gift[g].fund = f /\ gift[g].created = y /\ gift[g].number # 0}

(* Slip: gifts that have no receipt are counted too. *)
SlipNextNumber(f) ==
    Cardinality({g \in Gifts : gift[g].fund = f /\ gift[g].created = givingYear}) + 1

(* Receipts of what was created this year, whatever year they were given.  *)
(* None counts a category that is not there.                               *)
NextNumber(f) == Cardinality(Receipts(f, givingYear)) + 1

-----------------------------------------------------------------------------
(* The gateway *)

InitializePayment(p, g, f) ==
    /\ f \in fund
    /\ gift[g].state = "none"
    /\ Begins(p, "open", g, None)
    /\ gift' = [gift EXCEPT ![g] = [NoGift EXCEPT !.state = "pending", !.fund = f,
                                                  !.created = givingYear]]
    /\ UNCHANGED <<fund, page, event, givingYear>>

(* Without the answer nobody knows the address of the page. *)
GatewayOpens(p) ==
    /\ At(p, "open")
    /\ \/ page' = [page EXCEPT ![req[p].row] = "open"] /\ Ends(p)
       \/ UNCHANGED page /\ GoesTo(p, "notOpen")
    /\ UNCHANGED <<fund, gift, event, givingYear>>

MarkFailed(p) ==
    /\ At(p, "notOpen")
    /\ gift' = [gift EXCEPT ![req[p].row].state = "failed"]
    /\ Ends(p)
    /\ UNCHANGED <<fund, page, event, givingYear>>

(* The gateway may take another amount or currency than it was asked for.  *)
Pay(g) ==
    /\ page[g] = "open"
    /\ \E taken \in {"paid", "short"} : page' = [page EXCEPT ![g] = taken]
    /\ event' = [event EXCEPT ![g] = @ \cup {"success"}]
    /\ UNCHANGED <<fund, gift, givingYear, req>>

(* The card is declined; the payer may try another. *)
Decline(g) ==
    /\ page[g] = "open"
    /\ event' = [event EXCEPT ![g] = @ \cup {"failed"}]
    /\ UNCHANGED <<fund, gift, page, givingYear, req>>

-----------------------------------------------------------------------------
(* Confirmation *)

VerifyPayment(p, g) ==
    /\ gift[g].state \in {"pending", "failed"}
    /\ Begins(p, "verify", g, None)
    /\ UNCHANGED <<fund, gift, page, event, givingYear>>

(* A row that is settled already is left alone. *)
HandleWebhook(p, g, e) ==
    /\ e \in event[g]
    /\ gift[g].state = "pending"
    /\ Begins(p, IF e = "success" THEN "verify" ELSE "fail", g, None)
    /\ UNCHANGED <<fund, gift, page, event, givingYear>>

(* Slip: the amount is not compared. *)
SlipConfirmed(g) == page[g] \in {"paid", "short"}

Confirmed(g) == page[g] = "paid"

(* Slip: what is not paid yet is written off. *)
SlipUnconfirmed(g) == [gift EXCEPT ![g].state = "failed"]

Unconfirmed(g) == gift

(* The gateway is asked, then the receipts are counted.  What is paid      *)
(* stays paid, so the two may be one step.                                 *)
AskGateway(p) ==
    LET g == req[p].row IN
    /\ At(p, "verify")
    /\ IF Confirmed(g)
         THEN /\ req' = [req EXCEPT ![p] = [at |-> "confirm", row |-> g,
                           seen |-> [year |-> givingYear, number |-> NextNumber(gift[g].fund)]]]
              /\ UNCHANGED gift
         ELSE Ends(p) /\ gift' = Unconfirmed(g)
    /\ UNCHANGED <<fund, page, event, givingYear>>

(* The row is not read again. *)
Confirm(p) ==
    LET g == req[p].row IN
    /\ At(p, "confirm")
    /\ gift' = [gift EXCEPT ![g] = [gift[g] EXCEPT !.state = "success", !.series = gift[g].fund,
                  !.year = req[p].seen.year, !.number = req[p].seen.number]]
    /\ Ends(p)
    /\ UNCHANGED <<fund, page, event, givingYear>>

WriteFailed(p) ==
    /\ At(p, "fail")
    /\ gift' = [gift EXCEPT ![req[p].row].state = "failed"]
    /\ Ends(p)
    /\ UNCHANGED <<fund, page, event, givingYear>>

-----------------------------------------------------------------------------
(* Cash *)

RecordCash(p, f) ==
    /\ f \in fund
    /\ Begins(p, "cash", f, [year |-> givingYear, number |-> NextNumber(f)])
    /\ UNCHANGED <<fund, gift, page, event, givingYear>>

InsertCash(p, g) ==
    /\ At(p, "cash")
    /\ gift[g].state = "none"
    /\ gift' = [gift EXCEPT ![g] =
          [state |-> "success", cash |-> TRUE, fund |-> req[p].row, created |-> givingYear,
           series |-> req[p].row, year |-> req[p].seen.year, number |-> req[p].seen.number]]
    /\ Ends(p)
    /\ UNCHANGED <<fund, page, event, givingYear>>

-----------------------------------------------------------------------------
(* Recurring charges *)

(* The card has been charged. *)
ChargeRecurring(p, f) ==
    /\ Begins(p, "charge", f, [year |-> givingYear, number |-> NextNumber(None)])
    /\ UNCHANGED <<fund, gift, page, event, givingYear>>

(* A charge that was refused gets a receipt number too; the gateway may    *)
(* still take it later.                                                    *)
InsertRecurring(p, g) ==
    /\ At(p, "charge")
    /\ gift[g].state = "none"
    /\ \E taken \in BOOLEAN :
          /\ gift' = [gift EXCEPT ![g] =
                [state |-> IF taken THEN "success" ELSE "failed", cash |-> FALSE,
                 fund |-> req[p].row, created |-> givingYear,
                 series |-> None, year |-> req[p].seen.year, number |-> req[p].seen.number]]
          /\ page' = [page EXCEPT ![g] = IF taken THEN "paid" ELSE "open"]
          /\ event' = [event EXCEPT ![g] = @ \cup {IF taken THEN "success" ELSE "failed"}]
    /\ Ends(p)
    /\ UNCHANGED <<fund, givingYear>>

-----------------------------------------------------------------------------
NewGivingYear ==
    /\ givingYear < LastGivingYear
    /\ givingYear' = givingYear + 1
    /\ UNCHANGED <<fund, gift, page, event, req>>

GivingDies(p) == Dies(p) /\ UNCHANGED <<fund, gift, page, event, givingYear>>

(* The receipt that a request has drawn and is about to write.             *)
Drawing == {p \in Procs : req[p].at \in {"confirm", "cash"}}

Drawn(p) ==
    <<IF At(p, "cash") THEN req[p].row ELSE gift[req[p].row].fund,
      req[p].seen.year, req[p].seen.number>>

(* Another request has drawn it too; or it is for a gift by which the      *)
(* count will not grow: one that has its receipt, or one of another year.  *)
Disputed(p) ==
    \/ \E q \in Drawing \ {p} : Drawn(q) = Drawn(p)
    \/ At(p, "confirm") /\ gift[req[p].row].number # 0
    \/ At(p, "confirm") /\ gift[req[p].row].created # req[p].seen.year
    \/ At(p, "cash") /\ req[p].seen.year # givingYear

Disputes == {Drawn(p) : p \in {q \in Drawing : Disputed(q)}}

GivingStep ==
    \/ \E f \in Funds : ToggleFund(f)
    \/ \E g \in Gifts : Pay(g) \/ Decline(g)
    \/ \E p \in Procs :
          \/ GatewayOpens(p) \/ MarkFailed(p) \/ AskGateway(p) \/ Confirm(p)
          \/ WriteFailed(p) \/ GivingDies(p)
          \/ \E f \in Funds : RecordCash(p, f) \/ ChargeRecurring(p, f)
          \/ \E g \in Gifts :
                \/ VerifyPayment(p, g) \/ InsertCash(p, g) \/ InsertRecurring(p, g)
                \/ \E f \in Funds : InitializePayment(p, g, f)
                \/ \E e \in {"success", "failed"} : HandleWebhook(p, g, e)
    \/ NewGivingYear

GivingNext == GivingStep /\ contested' = contested \cup Disputes'

GivingSpec == GivingInit /\ [][GivingNext]_givingVars

-----------------------------------------------------------------------------
GivingTypeOK ==
    /\ fund \subseteq Funds
    /\ \A g \in Gifts :
          /\ gift[g].state \in {"none", "pending", "success", "failed"}
          /\ gift[g].fund \in Funds \cup {None} /\ gift[g].series \in {None, gift[g].fund}
          /\ gift[g].number \in 0..(Cardinality(Gifts) + 1)
    /\ page \in [Gifts -> {"none", "open", "paid", "short"}]
    /\ event \in [Gifts -> SUBSET {"success", "failed"}]
    /\ givingYear \in 0..LastGivingYear

Receipt(g) == <<gift[g].series, gift[g].year, gift[g].number>>

(* Whatever events come, in whatever order and however often, a gift is    *)
(* confirmed and gets a receipt of its fund, and a recurring charge is     *)
(* booked as a success, only when the gateway took the amount              *)
(* (verifyPayment, handleWebhook, processRecurringCharge).                 *)
ReceiptsArePaid ==
    \A g \in Gifts :
        gift[g].number # 0 /\ ~gift[g].cash /\ (gift[g].series # None \/ gift[g].state = "success")
            => page[g] = "paid"

(* A gift the gateway took is given up only when the gateway had reported  *)
(* a declined card for it: neither a payer who asks too early, nor a       *)
(* second confirmation, nor a crash writes it off.                         *)
PaidIsNotWrittenOff ==
    \A g \in Gifts : gift[g].state = "failed" /\ page[g] = "paid" => "failed" \in event[g]

(* A number of a fund's own series is given once and is no larger than the *)
(* count of the fund's receipts, unless it was contested: drawn by two     *)
(* requests at once, or for a gift that did not add to the count.  A       *)
(* repeat has no other cause, and numbers are left out only for recurring  *)
(* charges and for repeats: requests that die, events that come late and   *)
(* gifts that are not paid leave the count as it is                        *)
(* (generateReceiptNumber).                                                *)
RepeatsAreContested ==
    \A g \in Gifts : gift[g].series # None /\ Receipt(g) \notin contested =>
        /\ \A h \in Gifts \ {g} : Receipt(h) # Receipt(g)
        /\ gift[g].number \in 1..Cardinality(Receipts(gift[g].fund, gift[g].year))

(* What is in the books, its receipts and what the gateway took agree      *)
(* (verifyPayment, handleWebhook, generateReceiptNumber).                  *)
GiftsAgree == ReceiptsArePaid /\ PaidIsNotWrittenOff /\ RepeatsAreContested
=============================================================================
