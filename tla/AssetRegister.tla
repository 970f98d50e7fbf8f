----------------------------- MODULE AssetRegister -----------------------------
(***************************************************************************)
(* Assets, their categories, loans and yearly depreciation:                *)
(* src/assets/assets.service.ts.  No handler runs in a transaction: each   *)
(* reads, awaits, and writes one row after the other.                      *)
(*                                                                         *)
(* Maintenance records and scan logs are notes nothing else reads, and are *)
(* left out.  Amounts are whole numbers.                                   *)
(***************************************************************************)
EXTENDS Integers, FiniteSets, Requests

CONSTANTS
    Categories,
    Assets,
    Loans,     \* loans, each used once
    Statuses,  \* the statuses an editor may choose
    Terms,     \* purchase price, salvage value, life and method of depreciation
    LastYear   \* bound on the years that pass

ASSUME AssetAssumption ==
    /\ LastYear \in Nat
    /\ \A t \in Terms : t \in [price : Nat, salvage : Nat, life : Nat, straight : BOOLEAN]
    /\ None \notin Categories \cup Terms /\ IsFiniteSet(Procs)

VARIABLES
    category, \* "none", "live" or "archived"
    asset,    \* assets
    loan,     \* asset_loans: the asset, and whether it is still out
    ledger,   \* asset_depreciation: the entries of an asset
    year

assetVars == <<category, asset, loan, ledger, year, req>>

NoAsset == [state |-> "none", status |-> "active", qr |-> FALSE, category |-> None,
            terms |-> None, value |-> 0]
NoLoan == [state |-> "none", asset |-> None]

AssetInit ==
    /\ category = [c \in Categories |-> "none"]
    /\ asset = [a \in Assets |-> NoAsset]
    /\ loan = [l \in Loans |-> NoLoan]
    /\ ledger = [a \in Assets |-> {}]
    /\ year = 0
    /\ ReqInit

Live(a) == asset[a].state = "live"
OnLoan(a) == {l \in Loans : loan[l] = [state |-> "out", asset |-> a]}

-----------------------------------------------------------------------------
(* Categories *)

CreateCategory(c) ==
    /\ category[c] = "none"
    /\ category' = [category EXCEPT ![c] = "live"]
    /\ UNCHANGED <<asset, loan, ledger, year, req>>

ArchiveCategory(c) ==
    /\ category[c] = "live"
    /\ category' = [category EXCEPT ![c] = "archived"]
    /\ UNCHANGED <<asset, loan, ledger, year, req>>

RestoreCategory(c) ==
    /\ category[c] = "archived"
    /\ category' = [category EXCEPT ![c] = "live"]
    /\ UNCHANGED <<asset, loan, ledger, year, req>>

(* The assets of the category are counted, archived ones too. *)
DeleteCategory(p, c) ==
    /\ category[c] # "none"
    /\ \A a \in Assets : asset[a].category # c
    /\ Begins(p, "drop", c, None)
    /\ UNCHANGED <<category, asset, loan, ledger, year>>

(* An asset that was put into it meanwhile loses its category. *)
DropCategory(p) ==
    LET c == req[p].row IN
    /\ At(p, "drop")
    /\ category' = [category EXCEPT ![c] = "none"]
    /\ asset' = [a \in Assets |-> IF asset[a].category = c
                                    THEN [asset[a] EXCEPT !.category = None]
                                    ELSE asset[a]]
    /\ Ends(p)
    /\ UNCHANGED <<loan, ledger, year>>

-----------------------------------------------------------------------------
(* Assets *)

(* An asset may be put into any category that exists, archived or not. *)
Placeable == {c \in Categories : category[c] # "none"} \cup {None}

(* The foreign key: a category that has gone makes the write fail. *)
CreateAsset(p, a, c, t, s) ==
    /\ asset[a].state = "none"
    /\ c \in Placeable
    /\ Begins(p, "label", a, None)
    /\ asset' = [asset EXCEPT ![a] =
                    [state |-> "live", status |-> s, qr |-> FALSE, category |-> c,
                     terms |-> t, value |-> t.price]]
    /\ UNCHANGED <<category, loan, ledger, year>>

(* The second write of createAsset, and all of generateQrCode. *)
Label(p) ==
    /\ At(p, "label")
    /\ asset' = [asset EXCEPT ![req[p].row].qr = TRUE]
    /\ Ends(p)
    /\ UNCHANGED <<category, loan, ledger, year>>

GenerateQrCode(p, a) ==
    /\ asset[a].state # "none"
    /\ Begins(p, "label", a, None)
    /\ UNCHANGED <<category, asset, loan, ledger, year>>

UpdateAsset(p, a) ==
    /\ Live(a)
    /\ Begins(p, "edit", a, None)
    /\ UNCHANGED <<category, asset, loan, ledger, year>>

(* Whatever is given is written over the row as it is now. *)
EditAsset(p, c, t, s) ==
    LET a == req[p].row IN
    /\ At(p, "edit")
    /\ c \in Placeable
    /\ asset' = [asset EXCEPT ![a].category = c, ![a].terms = t, ![a].status = s]
    /\ Ends(p)
    /\ UNCHANGED <<category, loan, ledger, year>>

(* A deleted asset stays as disposed, loans and all. *)
DeleteAsset(a) ==
    /\ asset[a].state # "none"
    /\ asset' = [asset EXCEPT ![a].status = "disposed", ![a].qr = FALSE]
    /\ UNCHANGED <<category, loan, ledger, year, req>>

ArchiveAsset(a) ==
    /\ Live(a)
    /\ asset' = [asset EXCEPT ![a].state = "archived"]
    /\ UNCHANGED <<category, loan, ledger, year, req>>

RestoreAsset(a) ==
    /\ asset[a].state = "archived"
    /\ asset' = [asset EXCEPT ![a].state = "live"]
    /\ UNCHANGED <<category, loan, ledger, year, req>>

-----------------------------------------------------------------------------
(* Loans *)

(* Slip: the open loan is not looked for. *)
SlipLendable(a) == Live(a)

Lendable(a) == Live(a) /\ OnLoan(a) = {}

CreateLoan(p, a) ==
    /\ Lendable(a)
    /\ Begins(p, "lend", a, None)
    /\ UNCHANGED <<category, asset, loan, ledger, year>>

Lend(p, l) ==
    /\ At(p, "lend")
    /\ loan[l].state = "none"
    /\ loan' = [loan EXCEPT ![l] = [state |-> "out", asset |-> req[p].row]]
    /\ GoesTo(p, "lent")
    /\ UNCHANGED <<category, asset, ledger, year>>

ReturnLoan(p, l) ==
    /\ loan[l].state = "out"
    /\ Live(loan[l].asset)
    /\ Begins(p, "return", loan[l].asset, l)
    /\ UNCHANGED <<category, asset, loan, ledger, year>>

TakeBack(p) ==
    /\ At(p, "return")
    /\ loan' = [loan EXCEPT ![req[p].seen].state = "returned"]
    /\ GoesTo(p, "back")
    /\ UNCHANGED <<category, asset, ledger, year>>

(* The last write of both, whatever the asset's status was. *)
SetStatus(p) ==
    /\ At(p, "lent") \/ At(p, "back")
    /\ asset' = [asset EXCEPT ![req[p].row].status =
                    IF At(p, "lent") THEN "maintenance" ELSE "active"]
    /\ Ends(p)
    /\ UNCHANGED <<category, loan, ledger, year>>

-----------------------------------------------------------------------------
(* Depreciation *)

AtLeast(n, low) == IF n < low THEN low ELSE n

(* (price - salvage) / life, or a quarter of what is left. *)
DepreciationAmount(opening, t) ==
    IF t.straight
    THEN AtLeast((t.price - t.salvage) \div t.life, 0)
    ELSE AtLeast(IF opening \div 4 < opening - t.salvage
                 THEN opening \div 4 ELSE opening - t.salvage, 0)

(* Slip: every year starts from the purchase price. *)
SlipOpening(a) == asset[a].terms.price

Newest(a) == CHOOSE e \in ledger[a] : \A f \in ledger[a] : f.year <= e.year
Opening(a) == IF ledger[a] = {} THEN asset[a].terms.price ELSE Newest(a).closing

(* The asset is read with its newest entry.  History: the year it is read. *)
CreateDepreciation(p, a) ==
    /\ Live(a)
    /\ asset[a].terms.price > 0
    /\ asset[a].terms.life > 0
    /\ Begins(p, "look", a, [terms |-> asset[a].terms, opening |-> Opening(a), since |-> year])
    /\ UNCHANGED <<category, asset, loan, ledger, year>>

Booked(a, y) == \E e \in ledger[a] : e.year = y

(* This year's entry, worked out from what was read. *)
Entry(read) ==
    [year |-> year, opening |-> read.opening, since |-> read.since,
     closing |-> AtLeast(read.opening - DepreciationAmount(read.opening, read.terms),
                         read.terms.salvage)]

LookUp(p) ==
    LET a == req[p].row IN
    /\ At(p, "look")
    /\ IF Booked(a, year)
         THEN Ends(p)
         ELSE req' = [req EXCEPT ![p] = [at |-> "book", row |-> a, seen |-> Entry(req[p].seen)]]
    /\ UNCHANGED <<category, asset, loan, ledger, year>>

(* History: the year is not the one the asset was read in any more.         *)
LineOf(entry) ==
    [year |-> entry.year, opening |-> entry.opening, closing |-> entry.closing,
     late |-> entry.since # year]

(* (asset, year) is a unique key: a second entry fails. *)
Book(p) ==
    LET a == req[p].row IN
    /\ At(p, "book")
    /\ IF Booked(a, req[p].seen.year)
         THEN Ends(p) /\ UNCHANGED ledger
         ELSE GoesTo(p, "value") /\ ledger' = [ledger EXCEPT ![a] = @ \cup {LineOf(req[p].seen)}]
    /\ UNCHANGED <<category, asset, loan, year>>

SetValue(p) ==
    /\ At(p, "value")
    /\ asset' = [asset EXCEPT ![req[p].row].value = req[p].seen.closing]
    /\ Ends(p)
    /\ UNCHANGED <<category, loan, ledger, year>>

(* It may change at any await of a request. *)
NewYear ==
    /\ year < LastYear
    /\ year' = year + 1
    /\ UNCHANGED <<category, asset, loan, ledger, req>>

AssetDies(p) == Dies(p) /\ UNCHANGED <<category, asset, loan, ledger, year>>

AssetNext ==
    \/ \E c \in Categories :
          \/ CreateCategory(c) \/ ArchiveCategory(c) \/ RestoreCategory(c)
          \/ \E p \in Procs : DeleteCategory(p, c)
    \/ \E a \in Assets : DeleteAsset(a) \/ ArchiveAsset(a) \/ RestoreAsset(a)
    \/ \E p \in Procs :
          \/ DropCategory(p) \/ Label(p) \/ TakeBack(p) \/ SetStatus(p)
          \/ LookUp(p) \/ Book(p) \/ SetValue(p) \/ AssetDies(p)
          \/ \E a \in Assets :
                \/ GenerateQrCode(p, a) \/ UpdateAsset(p, a)
                \/ CreateLoan(p, a) \/ CreateDepreciation(p, a)
          \/ \E l \in Loans : Lend(p, l) \/ ReturnLoan(p, l)
          \/ \E c \in Categories \cup {None}, t \in Terms, s \in Statuses :
                EditAsset(p, c, t, s) \/ \E a \in Assets : CreateAsset(p, a, c, t, s)
    \/ NewYear

AssetSpec == AssetInit /\ [][AssetNext]_assetVars

-----------------------------------------------------------------------------
AssetTypeOK ==
    /\ category \in [Categories -> {"none", "live", "archived"}]
    /\ \A a \in Assets :
          /\ asset[a].state \in {"none", "live", "archived"}
          /\ asset[a].status \in Statuses \cup {"active", "maintenance", "disposed"}
          /\ asset[a].category \in Placeable
    /\ loan \in [Loans -> {NoLoan} \cup [state : {"out", "returned"}, asset : Assets]]
    /\ year \in 0..LastYear

(* createLoan looks for an open loan and inserts its own two awaits later  *)
(* without a lock, so two loans of one asset may be open at once; but only *)
(* requests that were in progress together can do that: an asset never has *)
(* more open loans, those about to be inserted included, than there were   *)
(* requests at once.                                                       *)
LoansFollowRaces ==
    \A a \in Assets :
        Cardinality(OnLoan(a)) + Cardinality(Waiting("lend", a)) <= Cardinality(Procs)

(* Every year of an asset's ledger opens with what the last year before it *)
(* closed at, whatever was edited in between, by however many clerks it    *)
(* was booked and whichever of them died half-way, unless the year changed *)
(* while one of the two entries was being made (createDepreciation).       *)
LedgerIsContinuous ==
    \A a \in Assets : \A e, f \in ledger[a] :
        /\ f.year < e.year /\ \A g \in ledger[a] : g.year <= f.year \/ e.year <= g.year
        /\ ~e.late /\ ~f.late
        => e.opening = f.closing

(* Two loans of one asset take requests that overlap, and only a change of *)
(* year during a booking can tear its ledger (createLoan,                  *)
(* createDepreciation).                                                    *)
RegisterAgrees == LoansFollowRaces /\ LedgerIsContinuous
=============================================================================
