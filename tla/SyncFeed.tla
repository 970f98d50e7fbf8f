------------------------------- MODULE SyncFeed -------------------------------
(***************************************************************************)
(* The feed of changes of one church: mobile devices push changes and pull *)
(* those of others, page by page (src/sync/sync.service.ts), while the     *)
(* trigger of src/prisma/migrations/20260816110600_sync_outbox records     *)
(* what the rest of the server writes.                                     *)
(*                                                                         *)
(* A row of the feed is stamped with the start of its transaction and is   *)
(* seen from its commit on.  Of a record only its last change matters: a   *)
(* record is the number of that change, Archived, or Gone.                 *)
(* Scopes, permissions and the fields of a change are left out; a page     *)
(* holds one row.                                                          *)
(***************************************************************************)
EXTENDS Integers, FiniteSets

CONSTANTS
    Records, Devices,
    Writers,    \* transactions that may be open at once
    Mutations,  \* changes that a device pushes, again when the answer is lost
    ServerSide, \* no mutation: the change of another part of the server
    MaxChanges, \* bound on the rows ever recorded
    LastTick    \* bound on time

ASSUME FeedAssumption ==
    /\ ServerSide \notin Mutations /\ IsFiniteSet(Writers)
    /\ MaxChanges \in Nat /\ LastTick \in Nat

VARIABLES
    stored,  \* members and visitors
    feed,    \* sync_queue
    changes, \* rows recorded so far
    open,    \* by writer: its transaction
    device,
    tick,
    skipped, \* history: <<device, record>>, a change was committed behind a cursor
    twisted, \* history: records whose changes were stamped in another order
    purged,  \* history: <<device, record>>, a change was purged before it was pulled
    forgotten, \* history: mutations whose row was purged
    applied, \* history: mutations applied
    twice    \* history: mutations applied a second time

feedVars == <<stored, feed, changes, open, device, tick, skipped, twisted, purged,
              forgotten, applied, twice>>

Gone == 0
Archived == -1

NoChange == [at |-> -1, record |-> ServerSide, action |-> "write", mutation |-> ServerSide]
NoRow == [at |-> -1, id |-> 0]

NewDevice == [cursor |-> NoRow, local |-> [r \in Records |-> Gone], fallback |-> -1,
              page |-> NoRow, doing |-> "nothing"]

FeedInit ==
    /\ stored = [r \in Records |-> Gone]
    /\ feed = {}
    /\ changes = 0
    /\ open = [w \in Writers |-> NoChange]
    /\ device = [d \in Devices |-> NewDevice]
    /\ tick = 0
    /\ skipped = {} /\ twisted = {} /\ purged = {} /\ forgotten = {}
    /\ applied = {} /\ twice = {}

History == <<skipped, twisted, purged, forgotten, applied, twice>>

(* ORDER BY created_at, id.  The ids are random. *)
Before(a, b) == a.at < b.at \/ (a.at = b.at /\ a.id < b.id)
Place(row) == [at |-> row.at, id |-> row.id]
RowsOf(r) == {row \in feed : row.record = r}

(* SyncDevice.last_pull_cursor: an instant, whose rows are pulled again.   *)
KeptCursor(d) == [at |-> device[d].fallback, id |-> 0]

-----------------------------------------------------------------------------
(* Writing *)

(* Bound: a transaction begins while a number is left for it. *)
Spare == changes + Cardinality({w \in Writers : open[w] # NoChange}) < MaxChanges

Begin(w, r, action, m) ==
    /\ open[w] = NoChange /\ Spare
    /\ open' = [open EXCEPT ![w] = [at |-> tick, record |-> r, action |-> action,
                                    mutation |-> m]]
    /\ UNCHANGED <<stored, feed, changes, device, tick, History>>

(* pushChanges up to its transaction: a mutation that is known is          *)
(* acknowledged, one that is older than the last change of its record is   *)
(* refused.  The other parts of the server ask nothing.                    *)
PushChanges(w, r, action, m, clientTime) ==
    /\ \A row \in feed : row.mutation # m
    /\ \A row \in RowsOf(r) :
          (\A other \in RowsOf(r) : other.at <= row.at) => clientTime >= row.at
    /\ Begin(w, r, action, m)

WriteRecord(w, r, action) == Begin(w, r, action, ServerSide)

(* Slip: the mutation is only looked up before. *)
SlipUnknown(m) == TRUE

(* UNIQUE (church_id, mutation_id) *)
Unknown(m) == m = ServerSide \/ \A row \in feed : row.mutation # m

(* applyChange: only what is there is deleted. *)
Applies(change) ==
    /\ change.action = "delete" => stored[change.record] # Gone
    /\ Unknown(change.mutation)

(* A pushed deletion archives a member or a visitor; to archive one online *)
(* gives the device the same tombstone and is left out.                    *)
Outcome(change) ==
    IF change.action = "write" THEN changes + 1
    ELSE IF change.mutation = ServerSide THEN Gone ELSE Archived

Commit(w, id) ==
    LET change == open[w]
        row == [at |-> change.at, id |-> id, record |-> change.record,
                action |-> change.action, mutation |-> change.mutation] IN
    /\ change # NoChange
    /\ \A other \in feed : other.id # id
    /\ Applies(change)
    /\ changes' = changes + 1
    /\ feed' = feed \cup {row}
    /\ stored' = [stored EXCEPT ![change.record] = Outcome(change)]
    /\ open' = [open EXCEPT ![w] = NoChange]
    /\ skipped' = skipped \cup
         {<<d, change.record>> : d \in {e \in Devices : \/ ~Before(device[e].cursor, row)
                                                       \/ ~Before(KeptCursor(e), row)}}
    /\ twisted' = IF \E other \in RowsOf(change.record) : Before(row, other)
                  THEN twisted \cup {change.record} ELSE twisted
    /\ applied' = applied \cup ({change.mutation} \cap Mutations)
    /\ twice' = twice \cup ({change.mutation} \cap applied)
    /\ UNCHANGED <<device, tick, purged, forgotten>>

(* A rule refuses, the mutation is known after all, or the process dies.   *)
Rollback(w) ==
    /\ open[w] # NoChange
    /\ open' = [open EXCEPT ![w] = NoChange]
    /\ UNCHANGED <<stored, feed, changes, device, tick, History>>

-----------------------------------------------------------------------------
(* Reading *)

(* Slip: rows of the cursor's own instant are left behind. *)
SlipAfter(cursor) == {row \in feed : row.at > cursor.at}

After(cursor) == {row \in feed : Before(cursor, row)}

(* pullChanges: the first page, and the low watermark that is kept.        *)
PullPage(d) ==
    LET rows == After(device[d].cursor) IN
    /\ device[d].doing = "nothing"
    /\ \E first \in rows :
          /\ \A row \in rows : row = first \/ Before(first, row)
          /\ device' = [device EXCEPT ![d].doing = "pull", ![d].page = Place(first),
                                      ![d].fallback = first.at - 1]
    /\ UNCHANGED <<stored, feed, changes, open, tick, History>>

(* What is on the device, compared with what is stored. *)
Agree(local, r) == local[r] = IF stored[r] = Archived THEN Gone ELSE stored[r]

(* hydrateChange reads the record as it is now: an archived one is dropped *)
(* by the device, one that is gone is left out of the page, and the row of *)
(* a deletion drops it whatever it is now.                                 *)
Hydrated(d, row) ==
    CASE row.action = "delete" \/ stored[row.record] = Archived -> Gone
      [] row.action # "delete" /\ stored[row.record] = Gone -> device[d].local[row.record]
      [] OTHER -> stored[row.record]

(* The device applies the page and goes on after it. *)
Apply(d, row) ==
    LET local == [device[d].local EXCEPT ![row.record] = Hydrated(d, row)]
        between == {other \in feed : Before(device[d].cursor, other) /\ Before(other, row)} IN
    /\ device' = [device EXCEPT ![d].doing = "nothing", ![d].page = NoRow,
                                ![d].cursor = Place(row), ![d].local = local]
    /\ skipped' = {p \in skipped \cup {<<d, other.record>> : other \in between} :
                     p[1] = d => ~Agree(local, p[2])}

Hydrate(d) ==
    /\ device[d].doing = "pull"
    /\ \E row \in feed : Place(row) = device[d].page /\ Apply(d, row)
    /\ UNCHANGED <<stored, feed, changes, open, tick, twisted, purged, forgotten, applied, twice>>

(* The answer is lost, or the app is closed before it has applied it.      *)
LosePage(d) ==
    /\ device[d].doing # "nothing"
    /\ device' = [device EXCEPT ![d].doing = "nothing", ![d].page = NoRow]
    /\ UNCHANGED <<stored, feed, changes, open, tick, History>>

(* A client without a cursor starts from the one that is kept for it.      *)
LoseCursor(d) ==
    /\ device[d].doing = "nothing"
    /\ device' = [device EXCEPT ![d].cursor = KeptCursor(d)]
    /\ UNCHANGED <<stored, feed, changes, open, tick, History>>

(* bootstrap: the watermark is taken before the collections are read.      *)
Bootstrap(d) ==
    /\ device[d].doing = "nothing"
    /\ device' = [device EXCEPT ![d].doing = "bootstrap", ![d].page = [at |-> tick, id |-> 0]]
    /\ UNCHANGED <<stored, feed, changes, open, tick, History>>

(* What is not archived. *)
Snapshot == [r \in Records |-> IF stored[r] = Archived THEN Gone ELSE stored[r]]

ReadCollections(d) ==
    /\ device[d].doing = "bootstrap"
    /\ device' = [device EXCEPT ![d].doing = "nothing", ![d].page = NoRow,
                                ![d].cursor = device[d].page, ![d].local = Snapshot]
    /\ skipped' = {p \in skipped : p[1] # d}
    /\ purged' = {p \in purged : p[1] # d}
    /\ UNCHANGED <<stored, feed, changes, open, tick, twisted, forgotten, applied, twice>>

(* cleanupExpiredChanges: ninety days, which no request outlives.          *)
CleanupExpiredChanges ==
    LET old == {row \in feed : row.at + 1 < tick} IN
    /\ old # {}
    /\ \A d \in Devices : device[d].doing = "nothing"
    /\ \A w \in Writers : open[w] = NoChange
    /\ feed' = feed \ old
    /\ purged' = purged \cup {<<p[1], p[2].record>> :
                   p \in {q \in Devices \X old : Before(device[q[1]].cursor, q[2])}}
    /\ forgotten' = forgotten \cup {row.mutation : row \in old}
    /\ UNCHANGED <<stored, changes, open, device, tick, skipped, twisted, applied, twice>>

Tick ==
    /\ tick < LastTick
    /\ tick' = tick + 1
    /\ UNCHANGED <<stored, feed, changes, open, device, History>>

FeedNext ==
    \/ Tick \/ CleanupExpiredChanges
    \/ \E d \in Devices :
          PullPage(d) \/ Hydrate(d) \/ LosePage(d) \/ LoseCursor(d) \/ Bootstrap(d)
          \/ ReadCollections(d)
    \/ \E w \in Writers :
          \/ Rollback(w)
          \/ \E id \in 1..MaxChanges : Commit(w, id)
          \/ \E r \in Records, action \in {"write", "delete"} :
                \/ WriteRecord(w, r, action)
                \/ \E m \in Mutations, clientTime \in 0..tick :
                      PushChanges(w, r, action, m, clientTime)

FeedSpec == FeedInit /\ [][FeedNext]_feedVars

-----------------------------------------------------------------------------
FeedTypeOK ==
    /\ stored \in [Records -> Archived..changes] /\ changes \in 0..MaxChanges
    /\ \A row \in feed : row.at \in 0..tick /\ row.id \in 1..MaxChanges
    /\ tick \in 0..LastTick
    /\ \A d \in Devices :
          /\ device[d].local \in [Records -> 0..changes]
          /\ device[d].cursor.at \in -1..tick

CaughtUp(d) == device[d].doing = "nothing" /\ After(device[d].cursor) = {}

(* A device that has nothing left to pull holds every record as the server *)
(* does - whatever was lost, applied twice, hydrated with a later state or *)
(* read beside a bootstrap - save for changes committed behind its cursor  *)
(* or the one that is kept for it, changes stamped out of their order, and *)
(* those purged before it came (pullChanges, bootstrap).                   *)
DevicesConverge ==
    \A d \in Devices, r \in Records :
        CaughtUp(d) /\ <<d, r>> \notin skipped \cup purged /\ r \notin twisted =>
            Agree(device[d].local, r)

(* A mutation that is sent again is applied again only when the feed has   *)
(* forgotten it (pushChanges).                                             *)
MutationsApplyOnce == twice \subseteq forgotten

(* The feed brings devices to what is stored, and what devices push is     *)
(* applied once (pullChanges, pushChanges).                                *)
FeedReaches == DevicesConverge /\ MutationsApplyOnce

(* What the comment of pullChanges says of a client that tracks its own    *)
(* cursor: no change is skipped.  A row stamped before the cursor and      *)
(* committed after it is.                                                  *)
NothingIsSkipped ==
    \A d \in Devices, r \in Records :
        CaughtUp(d) /\ <<d, r>> \notin purged => Agree(device[d].local, r)
=============================================================================
