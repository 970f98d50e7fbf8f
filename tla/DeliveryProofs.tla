--------------------------- MODULE DeliveryProofs ---------------------------
(***************************************************************************)
(* What is sent, and what is paid: broadcasts, outbound webhooks, gifts    *)
(* and recurring charges, proved for any recipients, deliveries, gifts,    *)
(* schedules, requests and bounds.                                         *)
(*                                                                         *)
(* Broadcasts.  Once the broadcast is cancelled and no request is left     *)
(* that would overwrite it, none can come to be: a run of the job that     *)
(* begins stops at its check of the status.  Whoever may still send a      *)
(* recipient a message - a run, or the job while it waits for one - is     *)
(* counted beside the messages that were sent.  A job is handed from one   *)
(* to the next; it is doubled, or handed on after a message without its    *)
(* note, only by a mishap.                                                 *)
(*                                                                         *)
(* Webhooks.  The posts of a delivery are counted in the same way: those   *)
(* the endpoint accepted, and whoever may still post it, are one more than *)
(* the accidents.  Without an accident one run holds the job from its      *)
(* beginning to its end, so what it accepted and what the row shows agree. *)
(*                                                                         *)
(* Gifts.  A page is opened by one request, what is paid stays paid, and a *)
(* receipt of a fund is given only for what is paid.  What is counted      *)
(* stays counted, so a number that was drawn is at most the one that       *)
(* follows, and a receipt is never above the count; another with its       *)
(* number was drawn before it was counted, while the first was held.       *)
(*                                                                         *)
(* Recurring charges.  Every job that may still charge too early, and      *)
(* every schedule that fell due again too soon, is paid for by a fault;    *)
(* a charge in its time pays for itself.                                   *)
(***************************************************************************)
EXTENDS AccessProofs, MCServices

-----------------------------------------------------------------------------
(* Broadcasts: a cancellation *)

CancelledInv == DOMAIN req = Procs /\ (settled => Settled)

(* Every step leaves one request where the action puts it, and the others  *)
(* where they were.                                                        *)
LEMMA DomainHolds == DOMAIN req = Procs /\ BroadcastStep => DOMAIN req' = Procs
BY DEF BroadcastStep, FallDue, StallSendJob, UpdateBroadcast, Handle, CancelBroadcast, NoteFails,
       SendThrows, BroadcastDies, EnqueueFails, CreateBroadcast, InsertRecipients, AddSendJob,
       MarkStarted, MarkCancelled, TakeSendJob, ReadStatus, MarkSending, ListRecipients,
       EnqueueMessage, Note, MarkSent, Begins, GoesTo, Ends, Dies

(* What a step does that is taken when a cancellation is settled.          *)
Stands == broadcast' = "cancelled" /\ message' = message /\ Settled'

LEMMA StandsHolds ==
    ASSUME DOMAIN req = Procs, Settled, BroadcastStep
    PROVE  Stands
<1> DEFINE Quiet(p) == req'[p].at \notin Overwriting /\ \A q \in Procs : q # p => req'[q] = req[q]
<1>0. broadcast = "cancelled" /\ \A p \in Procs : req[p].at \notin Overwriting
  BY DEF Settled
<1>1. ASSUME NEW p \in Procs, Quiet(p), broadcast' = "cancelled", message' = message PROVE Stands
  BY <1>0, <1>1 DEF Stands, Settled
<1>2. ASSUME NEW p \in Procs, Ends(p) PROVE Quiet(p)
  BY <1>2 DEF Ends, NoRequest, Overwriting
<1>3. CASE FallDue \/ StallSendJob
  BY <1>0, <1>3 DEF FallDue, StallSendJob, Stands, Settled
<1>4. ASSUME NEW audience \in Audiences, UpdateBroadcast(audience) PROVE Stands
  BY <1>0, <1>4 DEF UpdateBroadcast
<1>5. ASSUME NEW p \in Procs, Handle(p) PROVE Stands
  <2>1. CASE MarkCancelled(p)
    BY <1>1, <1>2, <2>1 DEF MarkCancelled
  <2>2. CASE TakeSendJob(p)
    <3>1. Quiet(p)
      BY <2>2 DEF TakeSendJob, Begins, Overwriting
    <3>2. QED
      BY <1>0, <1>1, <2>2, <3>1 DEF TakeSendJob
  <2>3. CASE ReadStatus(p)
    BY <1>0, <1>1, <1>2, <2>3 DEF ReadStatus, Stopped
  <2>4. QED
    BY <1>0, <1>5, <2>1, <2>2, <2>3
       DEF Handle, InsertRecipients, AddSendJob, MarkStarted, MarkSending, ListRecipients,
           EnqueueMessage, Note, MarkSent, At, Overwriting
<1>6. ASSUME NEW p \in Procs, CancelBroadcast(p) PROVE Stands
  BY <1>0, <1>6 DEF CancelBroadcast
<1>7. ASSUME NEW p \in Procs, NoteFails(p) PROVE Stands
  BY <1>0, <1>7 DEF NoteFails, At, Overwriting
<1>8. ASSUME NEW p \in Procs, SendThrows(p) PROVE Stands
  BY <1>0, <1>1, <1>2, <1>8 DEF SendThrows
<1>9. ASSUME NEW p \in Procs, BroadcastDies(p) PROVE Stands
  BY <1>0, <1>1, <1>2, <1>9 DEF BroadcastDies, Dies
<1>10. ASSUME NEW p \in Procs, NEW r \in Recipients, EnqueueFails(p, r) PROVE Stands
  BY <1>0, <1>10 DEF EnqueueFails, At, Overwriting
<1>11. ASSUME NEW p \in Procs, NEW audience \in Audiences, NEW later \in BOOLEAN,
              CreateBroadcast(p, audience, later)
       PROVE  Stands
  BY <1>0, <1>11 DEF CreateBroadcast
<1>12. QED
  BY <1>3, <1>4, <1>5, <1>6, <1>7, <1>8, <1>9, <1>10, <1>11 DEF BroadcastStep

LEMMA CancelledInit == BroadcastInit => CancelledInv
BY DEF BroadcastInit, ReqInit, CancelledInv

LEMMA CancelledStep ==
    CancelledInv /\ [BroadcastNext]_broadcastVars =>
        /\ CancelledInv'
        /\ [settled => broadcast' = "cancelled" /\ message' = message]_broadcastVars
<1> SUFFICES ASSUME CancelledInv, [BroadcastNext]_broadcastVars
             PROVE  /\ CancelledInv'
                    /\ [settled => broadcast' = "cancelled" /\ message' = message]_broadcastVars
  OBVIOUS
<1>1. CASE BroadcastNext
  BY <1>1, DomainHolds, StandsHolds DEF BroadcastNext, CancelledInv, Stands
<1>2. CASE UNCHANGED broadcastVars
  BY <1>2 DEF broadcastVars, broadcastState, CancelledInv, Settled
<1>3. QED
  BY <1>1, <1>2

(* A cancellation that nothing could overwrite any more is final, and no   *)
(* message is queued after it, whatever tries of the job are to come:      *)
(* cancel, processBroadcast.                                               *)
THEOREM CancelStandsHolds == BroadcastSpec => CancelStands
<1>1. QED
  BY CancelledInit, CancelledStep, PTL DEF BroadcastSpec, CancelStands

-----------------------------------------------------------------------------
(* The audience *)

Creating(p) == req[p].at \in {"recipients", "add"}
Serving(p) == req[p].at \in {"each", "note", "fail"}
Pending(r) == recipient[r] = "pending"

BroadcastTyped ==
    /\ DOMAIN req = Procs
    /\ DOMAIN recipient = Recipients
    /\ message \in [Recipients -> Nat]
    /\ mishaps \in Nat

(* Before the job is added there is no run and no message. *)
CreationIsFirst ==
    /\ \A p, q \in Procs : Creating(p) /\ Creating(q) => p = q
    /\ \A p \in Procs : Creating(p) => broadcast \notin {"none", "sent"}
    /\ \A p \in Procs : At(p, "add") => broadcast # "scheduled"
    /\ broadcast \in {"none", "scheduled"} \/ (\E p \in Procs : Creating(p)) =>
          /\ sendJob.state = "none"
          /\ \A q \in Procs : ~Sending(q)
          /\ \A r \in Recipients : message[r] = 0

(* A run has everybody who is still pending on its list. *)
PendingAreListed ==
    \A p \in Procs, r \in Recipients : Serving(p) /\ Pending(r) =>
        r \in req[p].seen \/ (~At(p, "each") /\ r = req[p].row)

(* Who may send r a message: runs that have it listed or will list it, and *)
(* None for the job that waits for a run.                                  *)
MaySend(p, r) ==
    \/ req[p].at \in {"status", "mark", "list"} /\ Pending(r)
    \/ Serving(p) /\ r \in req[p].seen
Senders(r) ==
    {p \in Procs : MaySend(p, r)} \cup {q \in {None} : sendJob.state = "waiting" /\ Pending(r)}

SendersFollowMishaps ==
    \A r \in Recipients :
        IsFiniteSet(Senders(r)) /\ message[r] + Cardinality(Senders(r)) <= 1 + mishaps

AudienceInv ==
    /\ BroadcastTyped
    /\ CreationIsFirst
    /\ PendingAreListed
    /\ SendersFollowMishaps
    /\ SentLeavesNobodyOut

(* Counting *)
LEMMA Replaced ==
    ASSUME NEW S, IsFiniteSet(S), NEW T, NEW x \in S, NEW y, T \subseteq (S \ {x}) \cup {y}
    PROVE  IsFiniteSet(T) /\ Cardinality(T) \in Nat /\ Cardinality(T) <= Cardinality(S)
<1>1. IsFiniteSet(S \ {x}) /\ Cardinality(S \ {x}) = Cardinality(S) - 1 /\ Cardinality(S) \in Nat
  BY FS_RemoveElement, FS_CardinalityType
<1>2. /\ IsFiniteSet((S \ {x}) \cup {y})
      /\ Cardinality((S \ {x}) \cup {y}) \in {Cardinality(S \ {x}), Cardinality(S \ {x}) + 1}
  BY <1>1, FS_AddElement
<1>3. IsFiniteSet(T) /\ Cardinality(T) <= Cardinality((S \ {x}) \cup {y})
  BY <1>2, FS_Subset
<1>4. QED
  BY <1>1, <1>2, <1>3, FS_CardinalityType

LEMMA Removed ==
    ASSUME NEW S, IsFiniteSet(S), NEW T, NEW x \in S, T \subseteq S \ {x}
    PROVE  IsFiniteSet(T) /\ Cardinality(T) \in Nat /\ Cardinality(T) <= Cardinality(S) - 1
<1>1. IsFiniteSet(S \ {x}) /\ Cardinality(S \ {x}) = Cardinality(S) - 1 /\ Cardinality(S) \in Nat
  BY FS_RemoveElement, FS_CardinalityType
<1>2. IsFiniteSet(T) /\ Cardinality(T) <= Cardinality(S \ {x})
  BY <1>1, FS_Subset
<1>3. QED
  BY <1>1, <1>2, FS_CardinalityType

LEMMA Added ==
    ASSUME NEW S, IsFiniteSet(S), NEW T, NEW y, T \subseteq S \cup {y}
    PROVE  IsFiniteSet(T) /\ Cardinality(T) \in Nat /\ Cardinality(T) <= Cardinality(S) + 1
<1>1. Cardinality(S) \in Nat /\ IsFiniteSet(S \cup {y})
        /\ Cardinality(S \cup {y}) \in {Cardinality(S), Cardinality(S) + 1}
  BY FS_AddElement, FS_CardinalityType
<1>2. IsFiniteSet(T) /\ Cardinality(T) <= Cardinality(S \cup {y})
  BY <1>1, FS_Subset
<1>3. QED
  BY <1>1, <1>2, FS_CardinalityType

LEMMA Kept ==
    ASSUME NEW S, IsFiniteSet(S), NEW T, T \subseteq S
    PROVE  IsFiniteSet(T) /\ Cardinality(T) \in Nat /\ Cardinality(T) <= Cardinality(S)
BY FS_Subset, FS_CardinalityType

LEMMA AtMostOne ==
    ASSUME NEW T, NEW y, T \subseteq {y}
    PROVE  IsFiniteSet(T) /\ Cardinality(T) \in Nat /\ Cardinality(T) <= 1
<1>1. IsFiniteSet({y}) /\ Cardinality({y}) = 1
  BY FS_Singleton
<1>2. QED
  BY <1>1, FS_Subset, FS_CardinalityType

(* What a step must leave of the senders of one recipient. *)
Counted(r) == IsFiniteSet(Senders(r)') /\ message'[r] + Cardinality(Senders(r)') <= 1 + mishaps'

(* Nothing becomes of it for this recipient. *)
LEMMA Untouched ==
    ASSUME BroadcastTyped, SendersFollowMishaps, NEW r \in Recipients,
           message'[r] = message[r], mishaps' \in Nat, mishaps' >= mishaps,
           Senders(r)' \subseteq Senders(r)
    PROVE  Counted(r)
<1>1. IsFiniteSet(Senders(r)) /\ message[r] + Cardinality(Senders(r)) <= 1 + mishaps
  BY DEF SendersFollowMishaps
<1>2. IsFiniteSet(Senders(r)') /\ Cardinality(Senders(r)') \in Nat
        /\ Cardinality(Senders(r)') <= Cardinality(Senders(r))
  BY <1>1, Kept
<1>3. message[r] \in Nat /\ mishaps \in Nat /\ Cardinality(Senders(r)) \in Nat
  BY <1>1, FS_CardinalityType DEF BroadcastTyped
<1>4. QED
  BY <1>1, <1>2, <1>3 DEF Counted

(* A step that sends nothing, makes nobody pending and starts no sender. *)
LEMMA SendersKept ==
    ASSUME BroadcastTyped, SendersFollowMishaps, message' = message, mishaps' = mishaps,
           \A r \in Recipients : Senders(r)' \subseteq Senders(r)
    PROVE  SendersFollowMishaps'
<1>1. \A r \in Recipients : Counted(r)
  BY Untouched DEF BroadcastTyped
<1>2. QED
  BY <1>1 DEF SendersFollowMishaps, Counted

LEMMA AudienceInit == BroadcastInit => AudienceInv
<1> SUFFICES ASSUME BroadcastInit PROVE AudienceInv
  OBVIOUS
<1> USE DEF BroadcastInit, ReqInit, NoRequest, NoJob
<1>1. BroadcastTyped
  BY BroadcastAssumption DEF BroadcastTyped
<1>2. CreationIsFirst /\ PendingAreListed /\ SentLeavesNobodyOut
  BY DEF CreationIsFirst, PendingAreListed, SentLeavesNobodyOut, Creating, Sending, Serving, Pending, At
<1>3. ASSUME NEW r \in Recipients PROVE Senders(r) = {}
  BY DEF Senders, MaySend, Serving, Pending
<1>4. SendersFollowMishaps
  BY <1>3, FS_EmptySet DEF SendersFollowMishaps
<1>5. QED
  BY <1>1, <1>2, <1>4 DEF AudienceInv

(* The parts of the invariant that say nothing of numbers. *)
Shape == BroadcastTyped /\ CreationIsFirst /\ PendingAreListed /\ SentLeavesNobodyOut

LEMMA RequestsKeepShape ==
    ASSUME Shape, NEW p \in Procs,
           \/ InsertRecipients(p) \/ AddSendJob(p) \/ MarkStarted(p)
           \/ CancelBroadcast(p) \/ MarkCancelled(p) \/ FallDue
           \/ \E audience \in Audiences : UpdateBroadcast(audience)
           \/ \E audience \in Audiences, later \in BOOLEAN : CreateBroadcast(p, audience, later)
    PROVE  Shape'
<1> USE DEF Shape, BroadcastTyped, CreationIsFirst, PendingAreListed, SentLeavesNobodyOut, Creating, Sending,
            Serving, Pending, At, Idle, Begins, GoesTo, Ends, NoRequest
<1>1. CASE InsertRecipients(p)
  BY <1>1 DEF InsertRecipients
<1>2. CASE AddSendJob(p)
  BY <1>2 DEF AddSendJob
<1>3. CASE MarkStarted(p)
  BY <1>3 DEF MarkStarted
<1>4. CASE CancelBroadcast(p)
  BY <1>4 DEF CancelBroadcast
<1>5. CASE MarkCancelled(p)
  BY <1>5 DEF MarkCancelled
<1>6. CASE FallDue
  BY <1>6 DEF FallDue
<1>7. CASE \E audience \in Audiences : UpdateBroadcast(audience)
  BY <1>7 DEF UpdateBroadcast
<1>8. CASE \E audience \in Audiences, later \in BOOLEAN : CreateBroadcast(p, audience, later)
  BY <1>8 DEF CreateBroadcast
<1>9. QED
  BY <1>1, <1>2, <1>3, <1>4, <1>5, <1>6, <1>7, <1>8

LEMMA RunsKeepShape ==
    ASSUME Shape, NEW p \in Procs,
           \/ TakeSendJob(p) \/ ReadStatus(p) \/ MarkSending(p) \/ ListRecipients(p)
           \/ \E r \in Recipients : EnqueueMessage(p, r) \/ EnqueueFails(p, r)
           \/ Note(p) \/ NoteFails(p) \/ MarkSent(p)
           \/ SendThrows(p) \/ StallSendJob \/ BroadcastDies(p)
    PROVE  Shape'
<1> USE DEF Shape, BroadcastTyped, CreationIsFirst, PendingAreListed, SentLeavesNobodyOut, Creating, Sending,
            Serving, Pending, At, Idle, Begins, GoesTo, Ends, NoRequest, SettleJob
<1>1. CASE TakeSendJob(p)
  BY <1>1 DEF TakeSendJob
<1>2. CASE ReadStatus(p)
  BY <1>2 DEF ReadStatus, Stopped
<1>3. CASE MarkSending(p)
  BY <1>3 DEF MarkSending
<1>4. CASE ListRecipients(p)
  BY <1>4 DEF ListRecipients, ToServe
<1>5. ASSUME NEW r \in Recipients, EnqueueMessage(p, r) PROVE Shape'
  BY <1>5 DEF EnqueueMessage
<1>6. ASSUME NEW r \in Recipients, EnqueueFails(p, r) PROVE Shape'
  BY <1>6 DEF EnqueueFails
<1>7. CASE Note(p)
  BY <1>7 DEF Note
<1>8. CASE NoteFails(p)
  BY <1>8 DEF NoteFails
<1>9. CASE MarkSent(p)
  BY <1>9 DEF MarkSent, Served
<1>10. CASE SendThrows(p)
  BY <1>10 DEF SendThrows
<1>11. CASE StallSendJob
  BY <1>11 DEF StallSendJob
<1>12. CASE BroadcastDies(p)
  BY <1>12 DEF BroadcastDies, Dies
<1>13. QED
  BY <1>1, <1>2, <1>3, <1>4, <1>5, <1>6, <1>7, <1>8, <1>9, <1>10, <1>11, <1>12

(* Requests send nothing; only AddSendJob starts a sender, the first.      *)
LEMMA RequestsFollowMishaps ==
    ASSUME Shape, SendersFollowMishaps, NEW p \in Procs,
           \/ InsertRecipients(p) \/ AddSendJob(p) \/ MarkStarted(p)
           \/ CancelBroadcast(p) \/ MarkCancelled(p) \/ FallDue
           \/ \E audience \in Audiences : UpdateBroadcast(audience)
           \/ \E audience \in Audiences, later \in BOOLEAN : CreateBroadcast(p, audience, later)
    PROVE  SendersFollowMishaps'
<1> USE DEF Shape, BroadcastTyped, CreationIsFirst, Creating, Sending, Serving, Pending, At, Idle,
            Begins, GoesTo, Ends, NoRequest, Senders, MaySend
<1>1. CASE InsertRecipients(p)
  BY <1>1, SendersKept DEF InsertRecipients
<1>2. CASE AddSendJob(p)
  <2>1. ASSUME NEW r \in Recipients
        PROVE  IsFiniteSet(Senders(r)') /\ message'[r] + Cardinality(Senders(r)') <= 1 + mishaps'
    <3>1. message'[r] = 0 /\ mishaps' \in Nat /\ Senders(r)' \subseteq {None}
      BY <1>2 DEF AddSendJob
    <3> HIDE DEF Shape, BroadcastTyped, CreationIsFirst, Senders
    <3>2. IsFiniteSet(Senders(r)') /\ Cardinality(Senders(r)') \in Nat
            /\ Cardinality(Senders(r)') <= 1
      BY <3>1, AtMostOne
    <3>3. QED
      BY <3>1, <3>2
  <2>2. QED
    BY <2>1 DEF SendersFollowMishaps
<1>3. CASE MarkStarted(p)
  BY <1>3, SendersKept DEF MarkStarted
<1>4. CASE CancelBroadcast(p)
  BY <1>4, SendersKept DEF CancelBroadcast
<1>5. CASE MarkCancelled(p)
  BY <1>5, SendersKept DEF MarkCancelled
<1>6. CASE FallDue
  BY <1>6, SendersKept DEF FallDue
<1>7. CASE \E audience \in Audiences : UpdateBroadcast(audience)
  BY <1>7, SendersKept DEF UpdateBroadcast
<1>8. CASE \E audience \in Audiences, later \in BOOLEAN : CreateBroadcast(p, audience, later)
  BY <1>8, SendersKept DEF CreateBroadcast
<1>9. QED
  BY <1>1, <1>2, <1>3, <1>4, <1>5, <1>6, <1>7, <1>8

(* A sender takes the place of another: the job and its run. *)
LEMMA HandedOn ==
    ASSUME BroadcastTyped, SendersFollowMishaps, NEW r \in Recipients, NEW x \in Senders(r), NEW y,
           message' = message, mishaps' \in Nat, mishaps' >= mishaps,
           Senders(r)' \subseteq (Senders(r) \ {x}) \cup {y}
    PROVE  Counted(r)
<1>1. IsFiniteSet(Senders(r)) /\ message[r] + Cardinality(Senders(r)) <= 1 + mishaps
  BY DEF SendersFollowMishaps
<1>2. IsFiniteSet(Senders(r)') /\ Cardinality(Senders(r)') \in Nat
        /\ Cardinality(Senders(r)') <= Cardinality(Senders(r))
  BY <1>1, Replaced
<1>3. message[r] \in Nat /\ mishaps \in Nat /\ Cardinality(Senders(r)) \in Nat
  BY <1>1, FS_CardinalityType DEF BroadcastTyped
<1>4. QED
  BY <1>1, <1>2, <1>3 DEF Counted

(* A message is queued: its sender is none any more. *)
LEMMA Spent ==
    ASSUME BroadcastTyped, SendersFollowMishaps, NEW r \in Recipients, NEW x \in Senders(r),
           message'[r] = message[r] + 1, mishaps' = mishaps,
           Senders(r)' \subseteq Senders(r) \ {x}
    PROVE  Counted(r)
<1>1. IsFiniteSet(Senders(r)) /\ message[r] + Cardinality(Senders(r)) <= 1 + mishaps
  BY DEF SendersFollowMishaps
<1>2. IsFiniteSet(Senders(r)') /\ Cardinality(Senders(r)') \in Nat
        /\ Cardinality(Senders(r)') <= Cardinality(Senders(r)) - 1
  BY <1>1, Removed
<1>3. message[r] \in Nat /\ mishaps \in Nat /\ Cardinality(Senders(r)) \in Nat
  BY <1>1, FS_CardinalityType DEF BroadcastTyped
<1>4. QED
  BY <1>1, <1>2, <1>3 DEF Counted

(* A mishap adds the job to the senders. *)
LEMMA Doubled ==
    ASSUME BroadcastTyped, SendersFollowMishaps, NEW r \in Recipients, NEW y,
           message' = message, mishaps' = mishaps + 1,
           Senders(r)' \subseteq Senders(r) \cup {y}
    PROVE  Counted(r)
<1>1. IsFiniteSet(Senders(r)) /\ message[r] + Cardinality(Senders(r)) <= 1 + mishaps
  BY DEF SendersFollowMishaps
<1>2. IsFiniteSet(Senders(r)') /\ Cardinality(Senders(r)') \in Nat
        /\ Cardinality(Senders(r)') <= Cardinality(Senders(r)) + 1
  BY <1>1, Added
<1>3. message[r] \in Nat /\ mishaps \in Nat /\ Cardinality(Senders(r)) \in Nat
  BY <1>1, FS_CardinalityType DEF BroadcastTyped
<1>4. QED
  BY <1>1, <1>2, <1>3 DEF Counted

LEMMA RunsFollowMishaps ==
    ASSUME Shape, SendersFollowMishaps, NEW p \in Procs, NEW r \in Recipients,
           \/ TakeSendJob(p) \/ ReadStatus(p) \/ MarkSending(p) \/ ListRecipients(p)
           \/ \E q \in Recipients : EnqueueMessage(p, q) \/ EnqueueFails(p, q)
           \/ Note(p) \/ NoteFails(p) \/ MarkSent(p)
           \/ SendThrows(p) \/ StallSendJob \/ BroadcastDies(p)
    PROVE  Counted(r)
<1>0. BroadcastTyped /\ PendingAreListed /\ mishaps \in Nat
  BY DEF Shape, BroadcastTyped
<1> DEFINE SentLess == Senders(r)' \subseteq Senders(r)
<1> USE DEF BroadcastTyped, Sending, Serving, Pending, At, Idle, Begins, GoesTo, Ends, NoRequest, SettleJob
<1>1. CASE TakeSendJob(p)
  <2>1. CASE Pending(r)
    <3>1. None \in Senders(r) /\ Senders(r)' \subseteq (Senders(r) \ {None}) \cup {p}
      BY <1>0, <1>1, <2>1, BroadcastAssumption DEF TakeSendJob, Senders, MaySend
    <3>2. message' = message /\ mishaps' = mishaps
      BY <1>1 DEF TakeSendJob
    <3>3. QED
      BY <1>0, <3>1, <3>2, HandedOn
  <2>2. CASE ~Pending(r)
    <3>1. SentLess /\ message' = message /\ mishaps' = mishaps
      BY <1>0, <1>1, <2>2, BroadcastAssumption DEF TakeSendJob, Senders, MaySend
    <3>2. QED
      BY <1>0, <3>1, Untouched
  <2>3. QED
    BY <2>1, <2>2
<1>2. CASE ReadStatus(p)
  <2>1. SentLess /\ message' = message /\ mishaps' = mishaps
    BY <1>0, <1>2 DEF ReadStatus, Senders, MaySend
  <2>2. QED
    BY <1>0, <2>1, Untouched
<1>3. CASE MarkSending(p)
  <2>1. SentLess /\ message' = message /\ mishaps' = mishaps
    BY <1>0, <1>3 DEF MarkSending, Senders, MaySend
  <2>2. QED
    BY <1>0, <2>1, Untouched
<1>4. CASE ListRecipients(p)
  <2>1. SentLess /\ message' = message /\ mishaps' = mishaps
    BY <1>0, <1>4 DEF ListRecipients, ToServe, Senders, MaySend
  <2>2. QED
    BY <1>0, <2>1, Untouched
<1>5. ASSUME NEW q \in Recipients, EnqueueMessage(p, q) PROVE Counted(r)
  <2>1. CASE q = r
    <3>1. p \in Senders(r) /\ Senders(r)' \subseteq Senders(r) \ {p}
      BY <1>0, <1>5, <2>1, BroadcastAssumption DEF EnqueueMessage, Senders, MaySend
    <3>2. message'[r] = message[r] + 1 /\ mishaps' = mishaps
      BY <1>0, <1>5, <2>1 DEF EnqueueMessage
    <3>3. QED
      BY <1>0, <3>1, <3>2, Spent
  <2>2. CASE q # r
    <3>1. SentLess /\ message'[r] = message[r] /\ mishaps' = mishaps
      BY <1>0, <1>5, <2>2 DEF EnqueueMessage, Senders, MaySend
    <3>2. QED
      BY <1>0, <3>1, Untouched
  <2>3. QED
    BY <2>1, <2>2
<1>6. ASSUME NEW q \in Recipients, EnqueueFails(p, q) PROVE Counted(r)
  <2>1. SentLess /\ message' = message /\ mishaps' = mishaps
    BY <1>0, <1>6 DEF EnqueueFails, Senders, MaySend
  <2>2. QED
    BY <1>0, <2>1, Untouched
<1>7. CASE Note(p)
  <2>1. SentLess /\ message' = message /\ mishaps' = mishaps
    BY <1>0, <1>7 DEF Note, Senders, MaySend
  <2>2. QED
    BY <1>0, <2>1, Untouched
<1>8. CASE NoteFails(p)
  <2>1. SentLess /\ message' = message /\ mishaps' = mishaps
    BY <1>0, <1>8 DEF NoteFails, Senders, MaySend
  <2>2. QED
    BY <1>0, <2>1, Untouched
<1>9. CASE MarkSent(p)
  <2>1. SentLess /\ message' = message /\ mishaps' = mishaps
    BY <1>0, <1>9 DEF MarkSent, Senders, MaySend
  <2>2. QED
    BY <1>0, <2>1, Untouched
<1>10. CASE SendThrows(p)
  <2>1. CASE At(p, "fail")
    <3>1. Senders(r)' \subseteq Senders(r) \cup {None} /\ message' = message /\ mishaps' = mishaps + 1
      BY <1>0, <1>10, <2>1 DEF SendThrows, Senders, MaySend
    <3>2. QED
      BY <1>0, <3>1, Doubled
  <2>2. CASE ~At(p, "fail") /\ Pending(r)
    <3>1. p \in Senders(r)
      BY <1>0, <1>10, <2>2 DEF SendThrows, Senders, MaySend, PendingAreListed
    <3>2. Senders(r)' \subseteq (Senders(r) \ {p}) \cup {None}
      BY <1>0, <1>10, <2>2 DEF SendThrows, Senders, MaySend
    <3>3. message' = message /\ mishaps' = mishaps
      BY <1>10, <2>2 DEF SendThrows
    <3>4. QED
      BY <1>0, <3>1, <3>2, <3>3, HandedOn
  <2>3. CASE ~At(p, "fail") /\ ~Pending(r)
    <3>1. SentLess /\ message' = message /\ mishaps' = mishaps
      BY <1>0, <1>10, <2>3 DEF SendThrows, Senders, MaySend
    <3>2. QED
      BY <1>0, <3>1, Untouched
  <2>4. QED
    BY <2>1, <2>2, <2>3
<1>11. CASE StallSendJob
  <2>1. Senders(r)' \subseteq Senders(r) \cup {None} /\ message' = message /\ mishaps' = mishaps + 1
    BY <1>0, <1>11 DEF StallSendJob, Senders, MaySend
  <2>2. QED
    BY <1>0, <2>1, Doubled
<1>12. CASE BroadcastDies(p)
  <2>1. SentLess /\ message' = message /\ mishaps' = mishaps
    BY <1>0, <1>12 DEF BroadcastDies, Dies, Senders, MaySend
  <2>2. QED
    BY <1>0, <2>1, Untouched
<1>13. QED
  BY <1>1, <1>2, <1>3, <1>4, <1>5, <1>6, <1>7, <1>8, <1>9, <1>10, <1>11, <1>12

LEMMA AudienceStep ==
    AudienceInv /\ [BroadcastNext]_broadcastVars => AudienceInv'
<1> SUFFICES ASSUME AudienceInv, [BroadcastNext]_broadcastVars PROVE AudienceInv'
  OBVIOUS
<1>0. Shape /\ SendersFollowMishaps
  BY DEF AudienceInv, Shape
<1>1. ASSUME NEW p \in Procs,
             \/ InsertRecipients(p) \/ AddSendJob(p) \/ MarkStarted(p)
             \/ CancelBroadcast(p) \/ MarkCancelled(p) \/ FallDue
             \/ \E audience \in Audiences : UpdateBroadcast(audience)
             \/ \E audience \in Audiences, later \in BOOLEAN : CreateBroadcast(p, audience, later)
      PROVE  AudienceInv'
  BY <1>0, <1>1, RequestsKeepShape, RequestsFollowMishaps DEF AudienceInv, Shape
<1>2. ASSUME NEW p \in Procs,
             \/ TakeSendJob(p) \/ ReadStatus(p) \/ MarkSending(p) \/ ListRecipients(p)
             \/ \E r \in Recipients : EnqueueMessage(p, r) \/ EnqueueFails(p, r)
             \/ Note(p) \/ NoteFails(p) \/ MarkSent(p)
             \/ SendThrows(p) \/ StallSendJob \/ BroadcastDies(p)
      PROVE  AudienceInv'
  <2>1. Shape'
    BY <1>0, <1>2, RunsKeepShape
  <2>2. ASSUME NEW r \in Recipients PROVE Counted(r)
    BY <1>0, <1>2, RunsFollowMishaps
  <2>3. SendersFollowMishaps'
    BY <2>2 DEF SendersFollowMishaps, Counted
  <2>4. QED
    BY <2>1, <2>3 DEF AudienceInv, Shape
<1>3. CASE BroadcastStep
  BY <1>1, <1>2, <1>3, BroadcastAssumption DEF BroadcastStep, Handle
<1>4. CASE UNCHANGED broadcastVars
  BY <1>0, <1>4 DEF broadcastVars, broadcastState, AudienceInv, BroadcastTyped, CreationIsFirst, PendingAreListed,
     SendersFollowMishaps, SentLeavesNobodyOut, Senders, MaySend, Creating, Sending, Serving, Pending, At
<1>5. QED
  BY <1>3, <1>4 DEF BroadcastNext

LEMMA AudienceInvSuffices == AudienceInv => AudienceIsServed
<1> SUFFICES ASSUME AudienceInv, NEW r \in Recipients PROVE message[r] <= 1 + mishaps
  BY DEF AudienceInv, AudienceIsServed, MessagesFollowMishaps
<1>1. IsFiniteSet(Senders(r)) /\ message[r] + Cardinality(Senders(r)) <= 1 + mishaps
        /\ message[r] \in Nat /\ mishaps \in Nat
  BY DEF AudienceInv, SendersFollowMishaps, BroadcastTyped
<1>2. Cardinality(Senders(r)) \in Nat
  BY <1>1, FS_CardinalityType
<1>3. QED
  BY <1>1, <1>2

(* However often the job is tried, doubled or left by a dead run, nobody   *)
(* gets a message beyond one and the mishaps, and a broadcast that counts  *)
(* as sent has left nobody pending: create, processBroadcast.              *)
THEOREM AudienceIsServedHolds == BroadcastSpec => []AudienceIsServed
<1>1. QED
  BY AudienceInit, AudienceStep, AudienceInvSuffices, PTL DEF BroadcastSpec

-----------------------------------------------------------------------------
(* The types of a broadcast *)

(* A job that waits has a try left.                                        *)
BroadcastFits ==
    /\ broadcast \in {"none", "draft", "scheduled", "sending", "sent", "cancelled"}
    /\ recipient \in [Recipients -> {"none", "pending", "sent", "failed"}]
    /\ sendJob.state \in {"none", "waiting", "active", "done", "failed"}
    /\ sendJob.tries \in 0..Attempts
    /\ sendJob.state = "waiting" => sendJob.tries < Attempts
    /\ due \in BOOLEAN /\ mishaps \in 0..MaxMishaps /\ settled \in BOOLEAN
LEMMA BroadcastInvSuffices == AudienceInv /\ BroadcastFits => BroadcastTypeOK
BY DEF AudienceInv, BroadcastTyped, BroadcastFits, BroadcastTypeOK

LEMMA BroadcastFitsAtFirst == BroadcastInit => BroadcastFits
<1> SUFFICES ASSUME BroadcastInit PROVE BroadcastFits
  OBVIOUS
<1>1. sendJob.state = "none" /\ sendJob.tries = 0
  BY DEF BroadcastInit, NoJob
<1>2. /\ broadcast = "none" /\ mishaps = 0
      /\ recipient \in [Recipients -> {"none", "pending", "sent", "failed"}]
  BY DEF BroadcastInit
<1>3. due \in BOOLEAN /\ settled \in BOOLEAN
  BY Zenon DEF BroadcastInit
<1>4. /\ sendJob.tries \in 0..Attempts /\ sendJob.tries < Attempts
      /\ mishaps \in 0..MaxMishaps
  BY <1>1, <1>2, BroadcastAssumption
<1>5. QED
  BY <1>1, <1>2, <1>3, <1>4 DEF BroadcastFits

(* The job as a run or a stall leaves it. *)
LEMMA JobFits ==
    ASSUME BroadcastFits
    PROVE  /\ \A p \in Procs, state \in {"done", Retried} : SettleJob(p, state) =>
                 /\ sendJob'.state \in {"none", "waiting", "active", "done", "failed"}
                 /\ sendJob'.tries \in 0..Attempts
                 /\ sendJob'.state = "waiting" => sendJob'.tries < Attempts
           /\ Retried \in {"waiting", "failed"} /\ (Retried = "waiting" => sendJob.tries < Attempts)
BY DEF SettleJob, Retried, BroadcastFits

LEMMA BroadcastFitsNext ==
    BroadcastFits /\ [BroadcastNext]_broadcastVars => BroadcastFits'
<1> SUFFICES ASSUME BroadcastFits, [BroadcastNext]_broadcastVars PROVE BroadcastFits'
  OBVIOUS
<1>1. CASE UNCHANGED broadcastVars
  BY <1>1 DEF broadcastVars, broadcastState, BroadcastFits
<1>2. settled' \in BOOLEAN
  BY DEF BroadcastNext, broadcastVars, BroadcastFits
<1>3. CASE FallDue \/ StallSendJob
  <2>1. CASE FallDue
    BY <1>2, <2>1 DEF FallDue, BroadcastFits
  <2>2. CASE StallSendJob
    <3>1. sendJob'.state = Retried /\ sendJob'.tries = sendJob.tries
      BY <2>2 DEF StallSendJob
    <3>2. mishaps' \in 0..MaxMishaps /\ UNCHANGED <<broadcast, recipient, due>>
      BY <2>2, BroadcastAssumption DEF StallSendJob, BroadcastFits
    <3>3. QED
      BY <1>2, <3>1, <3>2, JobFits DEF BroadcastFits
  <2>3. QED
    BY <1>3, <2>1, <2>2
<1>4. ASSUME NEW audience \in Audiences,
             \/ UpdateBroadcast(audience)
             \/ \E p \in Procs, later \in BOOLEAN : CreateBroadcast(p, audience, later)
      PROVE  BroadcastFits'
  BY <1>2, <1>4 DEF UpdateBroadcast, CreateBroadcast, BroadcastFits
<1>5. ASSUME NEW p \in Procs,
             \/ MarkStarted(p) \/ MarkCancelled(p) \/ MarkSending(p) \/ ListRecipients(p)
             \/ CancelBroadcast(p) \/ NoteFails(p) \/ BroadcastDies(p)
             \/ \E r \in Recipients : EnqueueMessage(p, r) \/ EnqueueFails(p, r)
      PROVE  BroadcastFits'
  BY <1>2, <1>5 DEF MarkStarted, MarkCancelled, MarkSending, ListRecipients, CancelBroadcast,
     NoteFails, BroadcastDies, EnqueueMessage, EnqueueFails, BroadcastFits
<1>6. ASSUME NEW p \in Procs, InsertRecipients(p) \/ Note(p) PROVE BroadcastFits'
  <2>1. recipient' \in [Recipients -> {"none", "pending", "sent", "failed"}]
    BY <1>6 DEF InsertRecipients, Note, BroadcastFits
  <2>2. QED
    BY <1>2, <1>6, <2>1 DEF InsertRecipients, Note, BroadcastFits
<1>7. ASSUME NEW p \in Procs, AddSendJob(p) \/ TakeSendJob(p) PROVE BroadcastFits'
  <2>1. /\ sendJob'.state \in {"waiting", "active"} /\ sendJob'.tries \in 0..Attempts
        /\ sendJob'.state = "waiting" => sendJob'.tries < Attempts
    BY <1>7, BroadcastAssumption DEF AddSendJob, TakeSendJob, NoJob, BroadcastFits
  <2>2. QED
    BY <1>2, <1>7, <2>1 DEF AddSendJob, TakeSendJob, BroadcastFits
<1>8. ASSUME NEW p \in Procs, ReadStatus(p) \/ MarkSent(p) \/ SendThrows(p) PROVE BroadcastFits'
  <2>1. /\ sendJob'.state \in {"none", "waiting", "active", "done", "failed"}
        /\ sendJob'.tries \in 0..Attempts
        /\ sendJob'.state = "waiting" => sendJob'.tries < Attempts
    <3>1. sendJob' = sendJob \/ \E state \in {"done", Retried} : SettleJob(p, state)
      BY <1>8 DEF ReadStatus, MarkSent, SendThrows
    <3>2. CASE sendJob' = sendJob
      BY <3>2 DEF BroadcastFits
    <3>3. QED
      BY <3>1, <3>2, JobFits
  <2>2. broadcast' \in {broadcast, "sent"} /\ due' = due /\ recipient' = recipient
          /\ mishaps' \in 0..MaxMishaps
    BY <1>8, BroadcastAssumption DEF ReadStatus, MarkSent, SendThrows, BroadcastFits
  <2>3. QED
    BY <1>2, <2>1, <2>2 DEF BroadcastFits
<1>9. QED
  BY <1>1, <1>3, <1>4, <1>5, <1>6, <1>7, <1>8 DEF BroadcastNext, BroadcastStep, Handle

-----------------------------------------------------------------------------
(* Outbound webhooks *)

Row == [status : {"none", "pending", "success", "failed"}, attempts : Nat]
PostJob == [state : {"none", "waiting", "active", "done", "failed"}, tries : 0..Tries,
            by : Procs \cup {None}]
Tally == [posts : Nat, accepted : Nat]

Making == {"create", "queue"}
Running == {"read", "refuse", "count", "post"}
About(p, d) == req[p].at # "idle" /\ req[p].row = d
Runs(d) == {p \in Procs : req[p].at \in Running /\ req[p].row = d}
Posters(d) == {p \in Procs : req[p].at = "post" /\ req[p].row = d}

WebhookRequests ==
    /\ DOMAIN req = Procs
    /\ \A p \in Procs : req[p].at # "idle" =>
          req[p].at \in Making \cup Running \cup {"success", "failed"} /\ req[p].row \in Deliveries

WebhookTyped ==
    /\ subscription \in [active : BOOLEAN, archived : BOOLEAN]
    /\ allowed \in BOOLEAN
    /\ delivery \in [Deliveries -> Row]
    /\ postJob \in [Deliveries -> PostJob]
    /\ endpoint \in [Deliveries -> Tally]
    /\ accidents \in 0..MaxAccidents
    /\ WebhookRequests

(* A delivery is made before anything is posted. *)
MadeFirst(d) ==
    /\ delivery[d].status = "none" =>
          /\ postJob[d].state = "none" /\ endpoint[d].accepted = 0
          /\ \A p \in Procs : About(p, d) => At(p, "create")
    /\ \A p \in Procs : req[p].at \in Making /\ req[p].row = d =>
          /\ postJob[d].state = "none" /\ endpoint[d].accepted = 0
          /\ \A q \in Procs : q # p => ~About(q, d)

JobIsHeld(d) ==
    /\ postJob[d].state = "waiting" => postJob[d].tries < Tries
    /\ postJob[d].state # "active" => postJob[d].by = None
    /\ postJob[d].state = "none" => postJob[d].tries = 0

AttemptsAreCounted(d) ==
    /\ endpoint[d].accepted <= endpoint[d].posts
    /\ endpoint[d].posts + Cardinality(Posters(d)) <= delivery[d].attempts

Waits(d) == IF postJob[d].state = "waiting" THEN 1 ELSE 0

(* Whoever may still post it, the job while it waits among them, is        *)
(* counted beside the posts that were accepted.                            *)
PostsFollowAccidents(d) ==
    endpoint[d].accepted + Cardinality(Runs(d)) + Waits(d) <= 1 + accidents

(* Without an accident the run holds the job from its beginning to its     *)
(* end, and a failure is noted before the next run begins.                 *)
NothingIsLost(d) ==
    accidents = 0 =>
        /\ endpoint[d].accepted = 1 => delivery[d].status = "success" \/ postJob[d].state = "active"
        /\ \A p \in Procs : About(p, d) =>
              /\ req[p].at \in Running \cup {"success"} => postJob[d].state = "active" /\ postJob[d].by = p
              /\ At(p, "success") => endpoint[d].accepted = 1
              /\ At(p, "failed") => endpoint[d].accepted = 0 /\ Runs(d) = {}

DeliveryInv(d) ==
    /\ MadeFirst(d) /\ JobIsHeld(d) /\ AttemptsAreCounted(d)
    /\ PostsFollowAccidents(d) /\ NothingIsLost(d)

WebhookInv == WebhookTyped /\ \A d \in Deliveries : DeliveryInv(d)

LEMMA WebhookInvSuffices == WebhookInv => WebhookTypeOK /\ ShownFollowsAccidents
<1> SUFFICES ASSUME WebhookInv PROVE WebhookTypeOK /\ ShownFollowsAccidents
  OBVIOUS
<1>1. ASSUME NEW d \in Deliveries
      PROVE  /\ delivery[d].status \in {"none", "pending", "success", "failed"}
             /\ endpoint[d].accepted <= endpoint[d].posts
             /\ endpoint[d].posts <= delivery[d].attempts
             /\ postJob[d].tries \in 0..Tries
             /\ endpoint[d].accepted <= 1 + accidents
             /\ accidents = 0 /\ endpoint[d].accepted = 1 =>
                   delivery[d].status = "success" \/ postJob[d].state = "active"
  <2>1. /\ delivery[d] \in Row /\ postJob[d] \in PostJob /\ endpoint[d] \in Tally
        /\ accidents \in Nat /\ DeliveryInv(d)
    BY WebhookAssumption DEF WebhookInv, WebhookTyped
  <2>2. Posters(d) \in SUBSET Procs /\ Runs(d) \in SUBSET Procs
    BY DEF Posters, Runs
  <2>3. Cardinality(Posters(d)) \in Nat /\ Cardinality(Runs(d)) \in Nat
    BY <2>2, Fewer, WebhookAssumption
  <2>4. QED
    BY <2>1, <2>3 DEF DeliveryInv, AttemptsAreCounted, PostsFollowAccidents, NothingIsLost, Waits,
       Row, PostJob, Tally
<1>2. QED
  BY <1>1 DEF WebhookInv, WebhookTyped, WebhookTypeOK, ShownFollowsAccidents

-----------------------------------------------------------------------------
(* The shape of steps *)

(* The requests but p are as they were, and so is every delivery but d,    *)
(* which p is about before and after if it is about any.                   *)
Works(p, d) ==
    /\ DOMAIN req' = Procs /\ \A q \in Procs : q # p => req'[q] = req[q]
    /\ Idle(p) \/ req[p].row = d
    /\ Idle(p)' \/ req'[p].row = d
    /\ Idle(p)' \/ req'[p].at \in Making \cup Running \cup {"success", "failed"}
    /\ \A e \in Deliveries : e # d =>
          delivery'[e] = delivery[e] /\ postJob'[e] = postJob[e] /\ endpoint'[e] = endpoint[e]
    /\ accidents' \in {accidents, accidents + 1} /\ accidents' <= MaxAccidents
    /\ UNCHANGED <<subscription, allowed>>
    /\ delivery' \in [Deliveries -> Row] /\ postJob' \in [Deliveries -> PostJob]
    /\ endpoint' \in [Deliveries -> Tally]

LEMMA RunsAreFinite ==
    ASSUME NEW d
    PROVE  /\ IsFiniteSet(Runs(d)) /\ Cardinality(Runs(d)) \in Nat
           /\ IsFiniteSet(Posters(d)) /\ Cardinality(Posters(d)) \in Nat
<1>1. Posters(d) \in SUBSET Procs /\ Runs(d) \in SUBSET Procs
  BY DEF Posters, Runs
<1>2. QED
  BY <1>1, Fewer, WebhookAssumption

LEMMA FieldsAre ==
    ASSUME WebhookTyped, NEW d \in Deliveries
    PROVE  /\ delivery[d] \in Row /\ postJob[d] \in PostJob /\ endpoint[d] \in Tally
           /\ endpoint[d].accepted \in Nat /\ endpoint[d].posts \in Nat /\ delivery[d].attempts \in Nat
           /\ postJob[d].tries \in 0..Tries /\ accidents \in Nat
BY WebhookAssumption DEF WebhookTyped, Row, PostJob, Tally

LEMMA WorksHolds ==
    ASSUME WebhookInv, NEW p \in Procs, NEW d \in Deliveries, Works(p, d), DeliveryInv(d)'
    PROVE  WebhookInv'
<1>1. accidents \in Nat /\ accidents' \in Nat /\ accidents <= accidents'
  BY WebhookAssumption DEF WebhookInv, WebhookTyped, Works
<1>2. WebhookTyped'
  BY <1>1 DEF WebhookInv, WebhookTyped, WebhookRequests, Works, Idle
<1>3. ASSUME NEW e \in Deliveries, e # d PROVE DeliveryInv(e)'
  <2>1. /\ \A q \in Procs : (About(q, e)' <=> About(q, e)) /\ (About(q, e) => req'[q] = req[q])
        /\ delivery'[e] = delivery[e] /\ postJob'[e] = postJob[e] /\ endpoint'[e] = endpoint[e]
    BY <1>3 DEF Works, About, Idle
  <2>2. /\ Runs(e)' = {q \in Procs : About(q, e)' /\ req'[q].at \in Running}
        /\ Runs(e) = {q \in Procs : About(q, e) /\ req[q].at \in Running}
        /\ Posters(e)' = {q \in Procs : About(q, e)' /\ req'[q].at = "post"}
        /\ Posters(e) = {q \in Procs : About(q, e) /\ req[q].at = "post"}
    BY DEF Runs, Posters, About, Running
  <2>3. Runs(e)' = Runs(e) /\ Posters(e)' = Posters(e)
    BY <2>1, <2>2
  <2>4. DeliveryInv(e)
    BY DEF WebhookInv
  <2>5. MadeFirst(e)'
    BY <2>1, <2>4 DEF DeliveryInv, MadeFirst, About, At, Making
  <2>6. JobIsHeld(e)' /\ AttemptsAreCounted(e)'
    BY <2>1, <2>3, <2>4 DEF DeliveryInv, JobIsHeld, AttemptsAreCounted
  <2>7. PostsFollowAccidents(e)'
    BY <1>1, <2>1, <2>3, <2>4, RunsAreFinite, FieldsAre
       DEF WebhookInv, DeliveryInv, PostsFollowAccidents, Waits
  <2>8. NothingIsLost(e)'
    BY <1>1, <2>1, <2>3, <2>4 DEF DeliveryInv, NothingIsLost, About, At
  <2>9. QED
    BY <2>5, <2>6, <2>7, <2>8 DEF DeliveryInv
<1>4. QED
  BY <1>2, <1>3 DEF WebhookInv


LEMMA RunsMove ==
    ASSUME WebhookInv, NEW p \in Procs, NEW d \in Deliveries, Works(p, d)
    PROVE  /\ Cardinality(Runs(d)) \in Nat /\ Cardinality(Runs(d)') \in Nat
           /\ Cardinality(Posters(d)) \in Nat /\ Cardinality(Posters(d)') \in Nat
           /\ req'[p].at \notin Running => Cardinality(Runs(d)') <= Cardinality(Runs(d))
           /\ req[p].at \in Running => Cardinality(Runs(d)') <= Cardinality(Runs(d))
           /\ req[p].at \in Running /\ req'[p].at \notin Running =>
                 Cardinality(Runs(d)') + 1 <= Cardinality(Runs(d))
           /\ Cardinality(Runs(d)') <= Cardinality(Runs(d)) + 1
           /\ req'[p].at # "post" => Cardinality(Posters(d)') <= Cardinality(Posters(d))
           /\ req[p].at = "post" /\ req'[p].at # "post" =>
                 Cardinality(Posters(d)') + 1 <= Cardinality(Posters(d))
           /\ Cardinality(Posters(d)') <= Cardinality(Posters(d)) + 1
           /\ req[p].at \in Running => 1 <= Cardinality(Runs(d))
<1>1. IsFiniteSet(Runs(d)) /\ IsFiniteSet(Posters(d))
  BY RunsAreFinite
<1>2. /\ req[p].at \in Running => p \in Runs(d)
      /\ req[p].at = "post" => p \in Posters(d)
      /\ req'[p].at \notin Running => Runs(d)' \in SUBSET (Runs(d) \ {p})
      /\ req'[p].at # "post" => Posters(d)' \in SUBSET (Posters(d) \ {p})
      /\ Runs(d)' \in SUBSET (Runs(d) \cup {p})
      /\ Posters(d)' \in SUBSET (Posters(d) \cup {p})
  BY DEF Works, Runs, Posters, Running, Idle
<1>3. /\ Cardinality(Runs(d)) \in Nat /\ Cardinality(Runs(d)') \in Nat
      /\ Cardinality(Runs(d)') <= Cardinality(Runs(d)) + 1
  BY <1>1, <1>2, OneMore
<1>4. /\ Cardinality(Posters(d)) \in Nat /\ Cardinality(Posters(d)') \in Nat
      /\ Cardinality(Posters(d)') <= Cardinality(Posters(d)) + 1
  BY <1>1, <1>2, OneMore
<1>5. req'[p].at \notin Running => Cardinality(Runs(d)') <= Cardinality(Runs(d))
  <2>1. req'[p].at \notin Running => Runs(d)' \in SUBSET Runs(d)
    BY <1>2
  <2>2. QED
    BY <1>1, <2>1, Fewer
<1>6. req[p].at \in Running => Cardinality(Runs(d)') <= Cardinality(Runs(d))
  <2>1. req[p].at \in Running => Runs(d)' \in SUBSET Runs(d)
    BY <1>2
  <2>2. QED
    BY <1>1, <2>1, Fewer
<1>7. req[p].at \in Running /\ req'[p].at \notin Running =>
          Cardinality(Runs(d)') + 1 <= Cardinality(Runs(d))
  BY <1>1, <1>2, OneLess
<1>8. req'[p].at # "post" => Cardinality(Posters(d)') <= Cardinality(Posters(d))
  <2>1. req'[p].at # "post" => Posters(d)' \in SUBSET Posters(d)
    BY <1>2
  <2>2. QED
    BY <1>1, <2>1, Fewer
<1>9. req[p].at = "post" /\ req'[p].at # "post" =>
          Cardinality(Posters(d)') + 1 <= Cardinality(Posters(d))
  BY <1>1, <1>2, OneLess
<1>10. req[p].at \in Running => 1 <= Cardinality(Runs(d))
  <2>1. {} \in SUBSET (Runs(d) \ {p}) /\ Cardinality({}) = 0
    BY FS_EmptySet
  <2>2. QED
    BY <1>1, <1>2, <2>1, OneLess
<1>11. QED
  BY <1>3, <1>4, <1>5, <1>6, <1>7, <1>8, <1>9, <1>10

LEMMA WebhookMoves ==
    ASSUME WebhookRequests, NEW p \in Procs
    PROVE  /\ \A at, row, seen : Begins(p, at, row, seen) =>
                 /\ DOMAIN req' = Procs /\ \A q \in Procs : q # p => req'[q] = req[q]
                 /\ Idle(p) /\ req'[p].at = at /\ req'[p].row = row
           /\ \A at : GoesTo(p, at) =>
                 /\ DOMAIN req' = Procs /\ \A q \in Procs : q # p => req'[q] = req[q]
                 /\ req'[p].at = at /\ req'[p].row = req[p].row
           /\ Ends(p) =>
                 /\ DOMAIN req' = Procs /\ \A q \in Procs : q # p => req'[q] = req[q]
                 /\ req'[p].at = "idle"
BY DEF WebhookRequests, Begins, GoesTo, Ends, Idle, NoRequest

LEMMA SettlesHolds ==
    ASSUME WebhookTyped, NEW p \in Procs, NEW d \in Deliveries,
           NEW state \in {"done", "waiting", "failed"}, Settles(p, d, state)
    PROVE  /\ postJob' \in [Deliveries -> PostJob]
           /\ \A e \in Deliveries : e # d => postJob'[e] = postJob[e]
           /\ postJob'[d].tries = postJob[d].tries
           /\ postJob[d].by = p => postJob'[d].state = state /\ postJob'[d].by = None
           /\ postJob[d].by # p => postJob'[d] = postJob[d]
<1>1. postJob[d] \in PostJob
  BY DEF WebhookTyped
<1>2. CASE postJob[d].by # p
  BY <1>2 DEF Settles, WebhookTyped
<1>3. CASE postJob[d].by = p
  <2> DEFINE new == [postJob[d] EXCEPT !.state = state, !.by = None]
  <2>1. /\ new \in PostJob /\ new.state = state /\ new.by = None
        /\ new.tries = postJob[d].tries
    BY <1>1 DEF PostJob
  <2>2. postJob' = [postJob EXCEPT ![d] = new]
    BY <1>1, <1>3 DEF Settles, WebhookTyped, PostJob
  <2> HIDE DEF new
  <2>3. QED
    BY <1>3, <2>1, <2>2 DEF WebhookTyped
<1>4. QED
  BY <1>2, <1>3

LEMMA AfterFailureIs ==
    ASSUME NEW d
    PROVE  /\ AfterFailure(d) \in {"waiting", "failed"}
           /\ AfterFailure(d) = "waiting" => postJob[d].tries < Tries
BY DEF AfterFailure

(* No run of a delivery is left where the last one was. *)
LEMMA LastRun ==
    ASSUME NEW p \in Procs, NEW d, p \in Runs(d), Cardinality(Runs(d)) <= 1
    PROVE  Runs(d) \ {p} = {}
<1>1. SUFFICES ASSUME NEW q \in Runs(d) \ {p} PROVE FALSE
  OBVIOUS
<1>2. IsFiniteSet(Runs(d)) /\ {q} \in SUBSET (Runs(d) \ {p})
  BY RunsAreFinite
<1>3. Cardinality({q}) = 1
  BY FS_Singleton
<1>4. QED
  BY <1>2, <1>3, OneLess

-----------------------------------------------------------------------------
(* A delivery is made *)

LEMMA NotifyHolds ==
    ASSUME WebhookInv, NEW p \in Procs, NEW d \in Deliveries, NEW test \in BOOLEAN, Notify(p, d, test)
    PROVE  WebhookInv'
<1>1. /\ DOMAIN req' = Procs /\ \A q \in Procs : q # p => req'[q] = req[q]
      /\ Idle(p) /\ req'[p].at = "create" /\ req'[p].row = d
  BY WebhookMoves DEF Notify, WebhookInv, WebhookTyped
<1>2. Works(p, d)
  BY <1>1 DEF Notify, Works, WebhookInv, WebhookTyped, Making, Idle
<1>3. UNCHANGED <<delivery, postJob, endpoint, accidents>> /\ DeliveryInv(d)
  BY DEF Notify, WebhookInv
<1>4. \A q \in Procs : ~About(q, d) /\ (q # p => ~About(q, d)')
  BY <1>1 DEF Notify, About
<1>5. delivery[d].status = "none"
  BY DEF Notify, NoDelivery
<1>6. MadeFirst(d)'
  BY <1>1, <1>3, <1>4, <1>5 DEF DeliveryInv, MadeFirst, At, About, Making, Idle
<1>7. JobIsHeld(d)'
  BY <1>3 DEF DeliveryInv, JobIsHeld
<1>8. AttemptsAreCounted(d)' /\ PostsFollowAccidents(d)'
  BY <1>1, <1>2, <1>3, RunsMove, FieldsAre
     DEF WebhookInv, DeliveryInv, AttemptsAreCounted, PostsFollowAccidents, Waits, Running
<1>9. NothingIsLost(d)'
  <2>1. Runs(d)' = {}
    BY <1>1, <1>4 DEF Runs, Running, About
  <2>2. QED
    BY <1>1, <1>3, <1>4, <2>1 DEF DeliveryInv, NothingIsLost, At, Running, About
<1>10. QED
  BY <1>2, <1>6, <1>7, <1>8, <1>9, WorksHolds DEF DeliveryInv

LEMMA CreateDeliveryHolds ==
    ASSUME WebhookInv, NEW p \in Procs, CreateDelivery(p)
    PROVE  WebhookInv'
<1>1. PICK d \in Deliveries : d = req[p].row
  BY DEF CreateDelivery, At, WebhookInv, WebhookTyped, WebhookRequests
<1>2. /\ DOMAIN req' = Procs /\ \A q \in Procs : q # p => req'[q] = req[q]
      /\ req[p].at = "create" /\ req'[p].at = "queue" /\ req'[p].row = d
  BY <1>1, WebhookMoves DEF CreateDelivery, WebhookInv, WebhookTyped, At
<1>3. /\ delivery'[d].status = "pending" /\ delivery'[d].attempts = delivery[d].attempts
      /\ delivery' \in [Deliveries -> Row]
      /\ \A e \in Deliveries : e # d => delivery'[e] = delivery[e]
  <2> DEFINE new == [delivery[d] EXCEPT !.status = "pending"]
  <2>1. /\ new \in Row /\ new.status = "pending" /\ new.attempts = delivery[d].attempts
    BY DEF Row, WebhookInv, WebhookTyped
  <2>2. delivery' = [delivery EXCEPT ![d] = new]
    BY <1>1 DEF CreateDelivery
  <2> HIDE DEF new
  <2>3. QED
    BY <2>1, <2>2 DEF WebhookInv, WebhookTyped
<1>4. Works(p, d)
  BY <1>1, <1>2, <1>3 DEF CreateDelivery, Works, WebhookInv, WebhookTyped, Making, Idle
<1>5. UNCHANGED <<postJob, endpoint, accidents>> /\ DeliveryInv(d)
  BY DEF CreateDelivery, WebhookInv
<1>6. MadeFirst(d)'
  BY <1>1, <1>2, <1>3, <1>5 DEF DeliveryInv, MadeFirst, At, About, Making
<1>7. JobIsHeld(d)'
  BY <1>5 DEF DeliveryInv, JobIsHeld
<1>8. AttemptsAreCounted(d)' /\ PostsFollowAccidents(d)'
  BY <1>2, <1>3, <1>4, <1>5, RunsMove, FieldsAre
     DEF WebhookInv, DeliveryInv, AttemptsAreCounted, PostsFollowAccidents, Waits, Running
<1>9. NothingIsLost(d)'
  <2>1. /\ \A q \in Procs : q # p => ~About(q, d)
        /\ endpoint[d].accepted = 0
    BY <1>1, <1>2, <1>5 DEF DeliveryInv, MadeFirst, Making
  <2>2. \A q \in Procs : q # p => ~About(q, d)'
    BY <1>2, <2>1 DEF About
  <2>3. QED
    BY <1>2, <1>5, <2>1, <2>2 DEF NothingIsLost, At, Running, About
<1>10. QED
  BY <1>4, <1>6, <1>7, <1>8, <1>9, WorksHolds DEF DeliveryInv

LEMMA QueueDeliveryHolds ==
    ASSUME WebhookInv, NEW p \in Procs, QueueDelivery(p)
    PROVE  WebhookInv'
<1>1. PICK d \in Deliveries : d = req[p].row
  BY DEF QueueDelivery, At, WebhookInv, WebhookTyped, WebhookRequests
<1>2. /\ DOMAIN req' = Procs /\ \A q \in Procs : q # p => req'[q] = req[q]
      /\ req[p].at = "queue" /\ req'[p].at = "idle"
  BY <1>1, WebhookMoves DEF QueueDelivery, WebhookInv, WebhookTyped, At
<1>3. /\ postJob'[d].state = "waiting" /\ postJob'[d].tries = postJob[d].tries
      /\ postJob'[d].by = postJob[d].by
      /\ postJob' \in [Deliveries -> PostJob]
      /\ \A e \in Deliveries : e # d => postJob'[e] = postJob[e]
  <2> DEFINE new == [postJob[d] EXCEPT !.state = "waiting"]
  <2>1. /\ new \in PostJob /\ new.state = "waiting" /\ new.tries = postJob[d].tries
        /\ new.by = postJob[d].by
    BY DEF PostJob, WebhookInv, WebhookTyped
  <2>2. postJob' = [postJob EXCEPT ![d] = new]
    BY <1>1 DEF QueueDelivery
  <2> HIDE DEF new
  <2>3. QED
    BY <2>1, <2>2 DEF WebhookInv, WebhookTyped
<1>4. Works(p, d)
  BY <1>1, <1>2, <1>3 DEF QueueDelivery, Works, WebhookInv, WebhookTyped, Making, Idle
<1>5. UNCHANGED <<delivery, endpoint, accidents>> /\ DeliveryInv(d)
  BY DEF QueueDelivery, WebhookInv
<1>6. /\ delivery[d].status # "none" /\ postJob[d].state = "none" /\ endpoint[d].accepted = 0
      /\ \A q \in Procs : ~About(q, d)'
  <2>1. \A q \in Procs : q # p => ~About(q, d)
    BY <1>1, <1>2, <1>5 DEF DeliveryInv, MadeFirst, Making
  <2>2. QED
    BY <1>1, <1>2, <1>5, <2>1 DEF DeliveryInv, MadeFirst, Making, About, At
<1>7. Runs(d)' = {} /\ Cardinality(Runs(d)') = 0
  <2>1. Runs(d)' = {}
    BY <1>6 DEF Runs, About, Running
  <2>2. QED
    BY <2>1, FS_EmptySet
<1>8. MadeFirst(d)'
  BY <1>5, <1>6 DEF MadeFirst, At, About, Making
<1>9. postJob[d].tries < Tries
  BY <1>5, <1>6, WebhookAssumption DEF DeliveryInv, JobIsHeld
<1>10. JobIsHeld(d)'
  BY <1>3, <1>5, <1>6, <1>9 DEF DeliveryInv, JobIsHeld
<1>11. AttemptsAreCounted(d)'
  BY <1>2, <1>4, <1>5, RunsMove, FieldsAre DEF WebhookInv, DeliveryInv, AttemptsAreCounted
<1>12. PostsFollowAccidents(d)'
  BY <1>3, <1>5, <1>6, <1>7, FieldsAre DEF WebhookInv, PostsFollowAccidents, Waits
<1>13. NothingIsLost(d)'
  BY <1>5, <1>6, <1>7 DEF NothingIsLost
<1>14. QED
  BY <1>4, <1>8, <1>10, <1>11, <1>12, <1>13, WorksHolds DEF DeliveryInv

-----------------------------------------------------------------------------
(* The worker *)

LEMMA TakeDeliveryHolds ==
    ASSUME WebhookInv, NEW p \in Procs, NEW d \in Deliveries, TakeDelivery(p, d)
    PROVE  WebhookInv'
<1>1. /\ DOMAIN req' = Procs /\ \A q \in Procs : q # p => req'[q] = req[q]
      /\ Idle(p) /\ req'[p].at = "read" /\ req'[p].row = d
  BY WebhookMoves DEF TakeDelivery, WebhookInv, WebhookTyped
<1>2. /\ delivery[d] \in Row /\ postJob[d] \in PostJob /\ accidents \in 0..MaxAccidents
      /\ MaxAccidents \in Nat /\ Tries \in Nat /\ DeliveryInv(d)
  BY WebhookAssumption DEF WebhookInv, WebhookTyped
<1>3. /\ postJob'[d].state = "active" /\ postJob'[d].by = p
      /\ postJob' \in [Deliveries -> PostJob]
      /\ \A e \in Deliveries : e # d => postJob'[e] = postJob[e]
  <2> DEFINE new == [state |-> "active", tries |-> postJob[d].tries + 1, by |-> p]
  <2>1. /\ new \in PostJob /\ new.state = "active" /\ new.by = p
    BY <1>2 DEF TakeDelivery, DeliveryInv, JobIsHeld, PostJob
  <2>2. postJob' = [postJob EXCEPT ![d] = new]
    BY DEF TakeDelivery
  <2> HIDE DEF new
  <2>3. QED
    BY <2>1, <2>2 DEF WebhookInv, WebhookTyped
<1>4. /\ UNCHANGED <<delivery, endpoint, subscription, allowed>> /\ postJob[d].state = "waiting"
      /\ accidents' \in {accidents, accidents + 1} /\ accidents' <= MaxAccidents
      /\ accidents' = 0 => accidents = 0 /\ ~Overtakes(d)
  BY <1>2 DEF TakeDelivery
<1>5. Works(p, d)
  BY <1>1, <1>3, <1>4 DEF Works, WebhookInv, WebhookTyped, Running, Idle
<1>6. \A q \in Procs : req[q].at \in Making => req[q].row # d
  BY <1>2, <1>4 DEF DeliveryInv, MadeFirst
<1>7. delivery[d].status # "none"
  BY <1>2, <1>4 DEF DeliveryInv, MadeFirst
<1>8. MadeFirst(d)'
  BY <1>1, <1>4, <1>6, <1>7 DEF MadeFirst, Making
<1>9. JobIsHeld(d)'
  BY <1>3 DEF JobIsHeld
<1>10. AttemptsAreCounted(d)' /\ PostsFollowAccidents(d)'
  BY <1>1, <1>2, <1>3, <1>4, <1>5, RunsMove, FieldsAre
     DEF WebhookInv, DeliveryInv, AttemptsAreCounted, PostsFollowAccidents, Waits, Running
<1>11. NothingIsLost(d)'
  <2> SUFFICES ASSUME accidents' = 0 PROVE NothingIsLost(d)'
    BY DEF NothingIsLost
  <2>1. accidents = 0 /\ ~Overtakes(d)
    BY <1>4
  <2>2. \A q \in Procs : About(q, d) => req[q].at \notin Running \cup {"success", "failed"}
    BY <1>2, <1>4, <2>1 DEF DeliveryInv, NothingIsLost, Overtakes, At, About
  <2>3. \A q \in Procs : About(q, d)' => q = p
    BY <1>1, <1>6, <2>2 DEF About, WebhookInv, WebhookTyped, WebhookRequests
  <2>4. QED
    BY <1>1, <1>3, <2>3 DEF NothingIsLost, At, Running
<1>12. QED
  BY <1>5, <1>8, <1>9, <1>10, <1>11, WorksHolds DEF DeliveryInv

LEMMA ReadSubscriptionHolds ==
    ASSUME WebhookInv, NEW p \in Procs, ReadSubscription(p)
    PROVE  WebhookInv'
<1>1. PICK d \in Deliveries : d = req[p].row
  BY DEF ReadSubscription, At, WebhookInv, WebhookTyped, WebhookRequests
<1>2. /\ DOMAIN req' = Procs /\ \A q \in Procs : q # p => req'[q] = req[q]
      /\ req[p].at = "read" /\ req'[p].at \in {"count", "refuse"} /\ req'[p].row = d
  BY <1>1, WebhookMoves DEF ReadSubscription, WebhookInv, WebhookTyped, At
<1>3. UNCHANGED <<delivery, postJob, endpoint, accidents, subscription, allowed>> /\ DeliveryInv(d)
  BY DEF ReadSubscription, WebhookInv
<1>4. Works(p, d)
  BY <1>1, <1>2, <1>3 DEF Works, WebhookInv, WebhookTyped, Running, Idle
<1>5. \A q \in Procs : (About(q, d)' <=> About(q, d)) /\ (req[q].at \in Running <=> req'[q].at \in Running)
  BY <1>1, <1>2 DEF About, Running
<1>6. MadeFirst(d)' /\ JobIsHeld(d)'
  BY <1>1, <1>2, <1>3, <1>5 DEF DeliveryInv, MadeFirst, JobIsHeld, At, Making, About
<1>7. AttemptsAreCounted(d)' /\ PostsFollowAccidents(d)'
  BY <1>2, <1>3, <1>4, RunsMove, FieldsAre
     DEF WebhookInv, DeliveryInv, AttemptsAreCounted, PostsFollowAccidents, Waits, Running
<1>8. NothingIsLost(d)'
  <2>1. Runs(d)' = Runs(d)
    BY <1>1, <1>2, <1>5 DEF Runs
  <2>2. \A q \in Procs : /\ req'[q].at \in Running \cup {"success"} => req[q].at \in Running \cup {"success"}
                         /\ (At(q, "success")' => At(q, "success")) /\ (At(q, "failed")' => At(q, "failed"))
    BY <1>2, <1>5 DEF At, Running
  <2>3. QED
    BY <1>3, <1>5, <2>1, <2>2 DEF DeliveryInv, NothingIsLost
<1>9. QED
  BY <1>4, <1>6, <1>7, <1>8, WorksHolds DEF DeliveryInv

LEMMA CountAttemptHolds ==
    ASSUME WebhookInv, NEW p \in Procs, CountAttempt(p)
    PROVE  WebhookInv'
<1>1. PICK d \in Deliveries : d = req[p].row
  BY DEF CountAttempt, At, WebhookInv, WebhookTyped, WebhookRequests
<1>2. /\ DOMAIN req' = Procs /\ \A q \in Procs : q # p => req'[q] = req[q]
      /\ req[p].at = "count" /\ req'[p].at = "post" /\ req'[p].row = d
  BY <1>1, WebhookMoves DEF CountAttempt, WebhookInv, WebhookTyped, At
<1>3. UNCHANGED <<postJob, endpoint, accidents, subscription, allowed>> /\ DeliveryInv(d)
  BY DEF CountAttempt, WebhookInv
<1>4. /\ delivery'[d].status = delivery[d].status
      /\ delivery'[d].attempts = delivery[d].attempts + 1
      /\ delivery' \in [Deliveries -> Row]
      /\ \A e \in Deliveries : e # d => delivery'[e] = delivery[e]
  <2> DEFINE new == [delivery[d] EXCEPT !.attempts = @ + 1]
  <2>1. /\ new \in Row /\ new.status = delivery[d].status
        /\ new.attempts = delivery[d].attempts + 1
    BY DEF Row, WebhookInv, WebhookTyped
  <2>2. delivery' = [delivery EXCEPT ![d] = new]
    BY <1>1 DEF CountAttempt
  <2> HIDE DEF new
  <2>3. QED
    BY <2>1, <2>2 DEF WebhookInv, WebhookTyped
<1>5. Works(p, d)
  BY <1>1, <1>2, <1>3, <1>4 DEF Works, WebhookInv, WebhookTyped, Running, Idle
<1>6. \A q \in Procs : (About(q, d)' <=> About(q, d)) /\ (req[q].at \in Running <=> req'[q].at \in Running)
  BY <1>1, <1>2 DEF About, Running
<1>7. MadeFirst(d)' /\ JobIsHeld(d)'
  BY <1>1, <1>2, <1>3, <1>4, <1>6 DEF DeliveryInv, MadeFirst, JobIsHeld, At, Making, About
<1>8. AttemptsAreCounted(d)' /\ PostsFollowAccidents(d)'
  BY <1>2, <1>3, <1>4, <1>5, RunsMove, FieldsAre
     DEF WebhookInv, DeliveryInv, AttemptsAreCounted, PostsFollowAccidents, Waits, Running
<1>9. NothingIsLost(d)'
  <2>1. Runs(d)' = Runs(d)
    BY <1>1, <1>2, <1>6 DEF Runs
  <2>2. \A q \in Procs : /\ req'[q].at \in Running \cup {"success"} => req[q].at \in Running \cup {"success"}
                         /\ (At(q, "success")' => At(q, "success")) /\ (At(q, "failed")' => At(q, "failed"))
    BY <1>2, <1>6 DEF At, Running
  <2>3. QED
    BY <1>3, <1>4, <1>6, <2>1, <2>2 DEF DeliveryInv, NothingIsLost
<1>10. QED
  BY <1>5, <1>7, <1>8, <1>9, WorksHolds DEF DeliveryInv

LEMMA OnFailedHolds ==
    ASSUME WebhookInv, NEW p \in Procs, OnFailed(p)
    PROVE  WebhookInv'
<1>1. PICK d \in Deliveries : d = req[p].row
  BY DEF OnFailed, At, WebhookInv, WebhookTyped, WebhookRequests
<1>2. /\ DOMAIN req' = Procs /\ \A q \in Procs : q # p => req'[q] = req[q]
      /\ req[p].at = "failed" /\ req'[p].at = "idle"
  BY <1>1, WebhookMoves DEF OnFailed, WebhookInv, WebhookTyped, At
<1>3. UNCHANGED <<postJob, endpoint, accidents, subscription, allowed>> /\ DeliveryInv(d)
  BY DEF OnFailed, WebhookInv
<1>4. /\ delivery'[d].status = "failed"
      /\ delivery'[d].attempts = delivery[d].attempts
      /\ delivery' \in [Deliveries -> Row]
      /\ \A e \in Deliveries : e # d => delivery'[e] = delivery[e]
  <2> DEFINE new == [delivery[d] EXCEPT !.status = "failed"]
  <2>1. /\ new \in Row /\ new.status = "failed" /\ new.attempts = delivery[d].attempts
    BY DEF Row, WebhookInv, WebhookTyped
  <2>2. delivery' = [delivery EXCEPT ![d] = new]
    BY <1>1 DEF OnFailed
  <2> HIDE DEF new
  <2>3. QED
    BY <2>1, <2>2 DEF WebhookInv, WebhookTyped
<1>5. Works(p, d)
  BY <1>1, <1>2, <1>3, <1>4 DEF Works, WebhookInv, WebhookTyped, Idle
<1>6. \A q \in Procs : About(q, d)' => q # p /\ About(q, d) /\ req'[q] = req[q]
  BY <1>2 DEF About
<1>7. MadeFirst(d)' /\ JobIsHeld(d)'
  BY <1>2, <1>3, <1>4, <1>6 DEF DeliveryInv, MadeFirst, JobIsHeld, Making, About
<1>8. AttemptsAreCounted(d)' /\ PostsFollowAccidents(d)'
  BY <1>2, <1>3, <1>4, <1>5, RunsMove, FieldsAre
     DEF WebhookInv, DeliveryInv, AttemptsAreCounted, PostsFollowAccidents, Waits, Running
<1>9. NothingIsLost(d)'
  <2>1. Runs(d)' = Runs(d)
    BY <1>2 DEF Runs, Running
  <2>2. accidents = 0 => endpoint[d].accepted = 0
    BY <1>1, <1>2, <1>3 DEF DeliveryInv, NothingIsLost, About, At
  <2>3. QED
    BY <1>3, <1>4, <1>6, <2>1, <2>2 DEF DeliveryInv, NothingIsLost, At
<1>10. QED
  BY <1>5, <1>7, <1>8, <1>9, WorksHolds DEF DeliveryInv

LEMMA WebhookDiesHolds ==
    ASSUME WebhookInv, NEW p \in Procs, WebhookDies(p)
    PROVE  WebhookInv'
<1>1. PICK d \in Deliveries : d = req[p].row
  BY DEF WebhookDies, Dies, Idle, WebhookInv, WebhookTyped, WebhookRequests
<1>2. /\ DOMAIN req' = Procs /\ \A q \in Procs : q # p => req'[q] = req[q]
      /\ req'[p].at = "idle"
  BY <1>1, WebhookMoves DEF WebhookDies, Dies, WebhookInv, WebhookTyped
<1>3. UNCHANGED <<delivery, postJob, endpoint, accidents, subscription, allowed>> /\ DeliveryInv(d)
  BY DEF WebhookDies, WebhookInv
<1>4. Works(p, d)
  BY <1>1, <1>2, <1>3 DEF Works, WebhookInv, WebhookTyped, Idle
<1>5. \A q \in Procs : About(q, d)' => q # p /\ About(q, d) /\ req'[q] = req[q]
  BY <1>2 DEF About
<1>6. MadeFirst(d)' /\ JobIsHeld(d)'
  BY <1>2, <1>3, <1>5 DEF DeliveryInv, MadeFirst, JobIsHeld, Making, About, At
<1>7. AttemptsAreCounted(d)' /\ PostsFollowAccidents(d)'
  BY <1>2, <1>3, <1>4, RunsMove, FieldsAre
     DEF WebhookInv, DeliveryInv, AttemptsAreCounted, PostsFollowAccidents, Waits, Running
<1>8. NothingIsLost(d)'
  <2>1. Runs(d)' \in SUBSET Runs(d)
    BY <1>2 DEF Runs, Running
  <2>2. QED
    BY <1>3, <1>5, <2>1 DEF DeliveryInv, NothingIsLost, At
<1>9. QED
  BY <1>4, <1>6, <1>7, <1>8, WorksHolds DEF DeliveryInv

-----------------------------------------------------------------------------
(* A run ends, or has posted *)

(* p, which runs d or has had its answer, puts the job down as next - or   *)
(* it does not hold it any longer.                                         *)
Leaves(p, d, next) ==
    /\ Works(p, d)
    /\ req[p].row = d /\ req[p].at \in Running \cup {"success"}
    /\ req'[p].at \in {"idle", "success", "failed"}
    /\ next \in {"done", "waiting", "failed"}
    /\ next = "waiting" => postJob[d].tries < Tries
    /\ postJob'[d].tries = postJob[d].tries
    /\ postJob[d].by = p => postJob'[d].state = next /\ postJob'[d].by = None
    /\ postJob[d].by # p => postJob'[d] = postJob[d]
    /\ delivery'[d].status = delivery[d].status \/ delivery'[d].status \in {"success", "failed"}
    /\ delivery'[d].attempts = delivery[d].attempts

LEMMA LeavesHolds ==
    ASSUME WebhookInv, NEW p \in Procs, NEW d \in Deliveries, NEW next, Leaves(p, d, next)
    PROVE  /\ MadeFirst(d)' /\ JobIsHeld(d)'
           /\ Waits(d) \in 0..1 /\ Waits(d)' \in 0..1
           /\ next # "waiting" => Waits(d)' <= Waits(d)
           /\ accidents = 0 =>
                 /\ \A q \in Procs : q # p => ~About(q, d) /\ ~About(q, d)'
                 /\ Runs(d)' = {}
                 /\ postJob'[d].state = next
                 /\ req[p].at \in Running => endpoint[d].accepted = 0
<1>1. DeliveryInv(d) /\ About(p, d) /\ req[p].at \notin Making /\ ~At(p, "create")
  BY DEF WebhookInv, Leaves, About, Making, Running, At
<1>2. /\ delivery'[d].status # "none" /\ delivery[d].status # "none"
      /\ \A q \in Procs : ~(req[q].at \in Making /\ req[q].row = d)
  BY <1>1 DEF DeliveryInv, MadeFirst, Leaves, About
<1>3. MadeFirst(d)'
  BY <1>2 DEF MadeFirst, Leaves, Works, Making
<1>4. JobIsHeld(d)'
  BY <1>1 DEF DeliveryInv, JobIsHeld, Leaves
<1>5. next # "waiting" => Waits(d)' <= Waits(d)
  BY <1>1 DEF Leaves, Waits, DeliveryInv, JobIsHeld
<1>6. ASSUME accidents = 0
      PROVE  /\ \A q \in Procs : q # p => ~About(q, d) /\ ~About(q, d)'
             /\ Runs(d)' = {}
             /\ postJob'[d].state = next
             /\ req[p].at \in Running => endpoint[d].accepted = 0
  <2>1. postJob[d].by = p
    BY <1>1, <1>6 DEF DeliveryInv, NothingIsLost, Leaves
  <2>2. req[p].at \in Running => endpoint[d].accepted = 0
    <3>1. /\ Cardinality(Runs(d)) \in Nat /\ endpoint[d].accepted \in Nat
          /\ req[p].at \in Running => 1 <= Cardinality(Runs(d))
      BY RunsMove, FieldsAre DEF WebhookInv, Leaves
    <3>2. QED
      BY <1>1, <1>6, <3>1 DEF DeliveryInv, PostsFollowAccidents, Waits
  <2>3. ASSUME NEW q \in Procs, q # p PROVE ~About(q, d)
    <3>1. ASSUME About(q, d) PROVE At(q, "failed")
      <4>1. req[q].at \notin Running \cup {"success"}
        BY <1>1, <1>6, <2>1, <2>3, <3>1 DEF DeliveryInv, NothingIsLost
      <4>2. req[q].at \notin Making
        BY <1>2, <3>1 DEF About
      <4>3. QED
        BY <3>1, <4>1, <4>2 DEF About, At, WebhookInv, WebhookTyped, WebhookRequests
    <3>2. ASSUME About(q, d) PROVE FALSE
      <4>1. endpoint[d].accepted = 0 /\ Runs(d) = {}
        BY <1>1, <1>6, <3>1, <3>2 DEF DeliveryInv, NothingIsLost
      <4>2. req[p].at \in Running => p \in Runs(d)
        BY DEF Runs, Leaves
      <4>3. At(p, "success")
        BY <4>1, <4>2 DEF Leaves, At
      <4>4. QED
        BY <1>1, <1>6, <4>1, <4>3 DEF DeliveryInv, NothingIsLost
    <3>3. QED
      BY <3>2
  <2>4. \A q \in Procs : q # p => ~About(q, d)'
    BY <2>3 DEF Leaves, Works, About
  <2>5. Runs(d)' = {}
    BY <2>4 DEF Runs, Leaves, About, Running
  <2>6. QED
    BY <2>1, <2>2, <2>3, <2>4, <2>5 DEF Leaves
<1>7. QED
  BY <1>3, <1>4, <1>5, <1>6 DEF Waits

LEMMA RefuseHolds ==
    ASSUME WebhookInv, NEW p \in Procs, Refuse(p)
    PROVE  WebhookInv'
<1>1. PICK d \in Deliveries : d = req[p].row
  BY DEF Refuse, At, WebhookInv, WebhookTyped, WebhookRequests
<1>2. /\ DOMAIN req' = Procs /\ \A q \in Procs : q # p => req'[q] = req[q]
      /\ req[p].at = "refuse" /\ req'[p].at = "idle"
  BY <1>1, WebhookMoves DEF Refuse, WebhookInv, WebhookTyped, At
<1>3. /\ delivery'[d].status = "failed"
      /\ delivery'[d].attempts = delivery[d].attempts
      /\ delivery' \in [Deliveries -> Row]
      /\ \A e \in Deliveries : e # d => delivery'[e] = delivery[e]
  <2> DEFINE new == [delivery[d] EXCEPT !.status = "failed"]
  <2>1. /\ new \in Row /\ new.status = "failed" /\ new.attempts = delivery[d].attempts
    BY DEF Row, WebhookInv, WebhookTyped
  <2>2. delivery' = [delivery EXCEPT ![d] = new]
    BY <1>1 DEF Refuse
  <2> HIDE DEF new
  <2>3. QED
    BY <2>1, <2>2 DEF WebhookInv, WebhookTyped
<1>4. Settles(p, d, "done") /\ UNCHANGED <<endpoint, accidents, subscription, allowed>>
  BY <1>1 DEF Refuse
<1>5. /\ postJob' \in [Deliveries -> PostJob]
      /\ \A e \in Deliveries : e # d => postJob'[e] = postJob[e]
      /\ postJob'[d].tries = postJob[d].tries
      /\ postJob[d].by = p => postJob'[d].state = "done" /\ postJob'[d].by = None
      /\ postJob[d].by # p => postJob'[d] = postJob[d]
  BY <1>4, SettlesHolds DEF WebhookInv
<1>6. Leaves(p, d, "done") /\ Works(p, d)
  BY <1>1, <1>2, <1>3, <1>4, <1>5
     DEF Leaves, Works, WebhookInv, WebhookTyped, Idle, Running
<1>7. DeliveryInv(d)
  BY DEF WebhookInv
<1>8. MadeFirst(d)' /\ JobIsHeld(d)'
  BY <1>6, LeavesHolds
<1>9. AttemptsAreCounted(d)' /\ PostsFollowAccidents(d)'
  <2>1. Waits(d) \in 0..1 /\ Waits(d)' \in 0..1 /\ Waits(d)' <= Waits(d)
    BY <1>6, LeavesHolds
  <2>2. QED
    BY <1>2, <1>3, <1>4, <1>6, <1>7, <2>1, RunsMove, FieldsAre
       DEF WebhookInv, DeliveryInv, AttemptsAreCounted, PostsFollowAccidents, Running
<1>10. NothingIsLost(d)'
  BY <1>2, <1>4, <1>6, LeavesHolds DEF NothingIsLost, At, About, Running
<1>11. QED
  BY <1>6, <1>8, <1>9, <1>10, WorksHolds DEF DeliveryInv

LEMMA SucceedsHolds ==
    ASSUME WebhookInv, NEW p \in Procs, Succeeds(p)
    PROVE  WebhookInv'
<1>1. PICK d \in Deliveries : d = req[p].row
  BY DEF Succeeds, At, WebhookInv, WebhookTyped, WebhookRequests
<1>2. /\ DOMAIN req' = Procs /\ \A q \in Procs : q # p => req'[q] = req[q]
      /\ req[p].at = "success" /\ req'[p].at = "idle"
  BY <1>1, WebhookMoves DEF Succeeds, WebhookInv, WebhookTyped, At
<1>3. /\ delivery'[d].status = "success"
      /\ delivery'[d].attempts = delivery[d].attempts
      /\ delivery' \in [Deliveries -> Row]
      /\ \A e \in Deliveries : e # d => delivery'[e] = delivery[e]
  <2> DEFINE new == [delivery[d] EXCEPT !.status = "success"]
  <2>1. /\ new \in Row /\ new.status = "success" /\ new.attempts = delivery[d].attempts
    BY DEF Row, WebhookInv, WebhookTyped
  <2>2. delivery' = [delivery EXCEPT ![d] = new]
    BY <1>1 DEF Succeeds
  <2> HIDE DEF new
  <2>3. QED
    BY <2>1, <2>2 DEF WebhookInv, WebhookTyped
<1>4. Settles(p, d, "done") /\ UNCHANGED <<endpoint, accidents, subscription, allowed>>
  BY <1>1 DEF Succeeds
<1>5. /\ postJob' \in [Deliveries -> PostJob]
      /\ \A e \in Deliveries : e # d => postJob'[e] = postJob[e]
      /\ postJob'[d].tries = postJob[d].tries
      /\ postJob[d].by = p => postJob'[d].state = "done" /\ postJob'[d].by = None
      /\ postJob[d].by # p => postJob'[d] = postJob[d]
  BY <1>4, SettlesHolds DEF WebhookInv
<1>6. Leaves(p, d, "done") /\ Works(p, d)
  BY <1>1, <1>2, <1>3, <1>4, <1>5
     DEF Leaves, Works, WebhookInv, WebhookTyped, Idle, Running
<1>7. DeliveryInv(d)
  BY DEF WebhookInv
<1>8. MadeFirst(d)' /\ JobIsHeld(d)'
  BY <1>6, LeavesHolds
<1>9. AttemptsAreCounted(d)' /\ PostsFollowAccidents(d)'
  <2>1. Waits(d) \in 0..1 /\ Waits(d)' \in 0..1 /\ Waits(d)' <= Waits(d)
    BY <1>6, LeavesHolds
  <2>2. QED
    BY <1>2, <1>3, <1>4, <1>6, <1>7, <2>1, RunsMove, FieldsAre
       DEF WebhookInv, DeliveryInv, AttemptsAreCounted, PostsFollowAccidents, Running
<1>10. NothingIsLost(d)'
  BY <1>2, <1>3, <1>4, <1>6, LeavesHolds DEF NothingIsLost, At, About, Running
<1>11. QED
  BY <1>6, <1>8, <1>9, <1>10, WorksHolds DEF DeliveryInv

LEMMA PostThrowsHolds ==
    ASSUME WebhookInv, NEW p \in Procs, PostThrows(p)
    PROVE  WebhookInv'
<1>1. PICK d \in Deliveries : d = req[p].row
  BY DEF PostThrows, At, WebhookInv, WebhookTyped, WebhookRequests
<1>2. /\ DOMAIN req' = Procs /\ \A q \in Procs : q # p => req'[q] = req[q]
      /\ req[p].at \in {"read", "refuse", "count", "success"}
      /\ req'[p].at = "failed" /\ req'[p].row = d
  BY <1>1, WebhookMoves DEF PostThrows, WebhookInv, WebhookTyped
<1>3. /\ Settles(p, d, AfterFailure(d)) /\ UNCHANGED <<delivery, endpoint, subscription, allowed>>
      /\ accidents' = IF req[p].at = "success" THEN accidents + 1 ELSE accidents
      /\ accidents' <= MaxAccidents
  <2>1. accidents \in 0..MaxAccidents /\ MaxAccidents \in Nat
    BY WebhookAssumption DEF WebhookInv, WebhookTyped
  <2>2. QED
    BY <1>1, <2>1 DEF PostThrows, At
<1>4. /\ AfterFailure(d) \in {"waiting", "failed"}
      /\ AfterFailure(d) = "waiting" => postJob[d].tries < Tries
  BY AfterFailureIs
<1>5. /\ postJob' \in [Deliveries -> PostJob]
      /\ \A e \in Deliveries : e # d => postJob'[e] = postJob[e]
      /\ postJob'[d].tries = postJob[d].tries
      /\ postJob[d].by = p => postJob'[d].state = AfterFailure(d) /\ postJob'[d].by = None
      /\ postJob[d].by # p => postJob'[d] = postJob[d]
  BY <1>3, <1>4, SettlesHolds DEF WebhookInv
<1>6. Leaves(p, d, AfterFailure(d)) /\ Works(p, d)
  <2>1. Works(p, d)
    BY <1>1, <1>2, <1>3, <1>5 DEF Works, WebhookInv, WebhookTyped, Idle
  <2>2. QED
    BY <1>1, <1>2, <1>3, <1>4, <1>5, <2>1 DEF Leaves, Running
<1>7. DeliveryInv(d)
  BY DEF WebhookInv
<1>8. /\ MadeFirst(d)' /\ JobIsHeld(d)' /\ Waits(d) \in 0..1 /\ Waits(d)' \in 0..1
      /\ AfterFailure(d) # "waiting" => Waits(d)' <= Waits(d)
      /\ accidents = 0 =>
                 /\ \A q \in Procs : q # p => ~About(q, d) /\ ~About(q, d)'
                 /\ Runs(d)' = {}
                 /\ postJob'[d].state = AfterFailure(d)
                 /\ req[p].at \in Running => endpoint[d].accepted = 0
  BY <1>6, LeavesHolds
<1>9. AttemptsAreCounted(d)'
  BY <1>2, <1>3, <1>6, <1>7, RunsMove, FieldsAre DEF WebhookInv, DeliveryInv, AttemptsAreCounted
<1>10. PostsFollowAccidents(d)'
  <2>1. CASE req[p].at = "success"
    <3>1. Waits(d)' <= Waits(d) + 1
      BY <1>8
    <3>2. QED
      BY <1>2, <1>3, <1>6, <1>7, <1>8, <2>1, <3>1, RunsMove, FieldsAre
         DEF WebhookInv, DeliveryInv, PostsFollowAccidents, Running
  <2>2. CASE req[p].at # "success"
    BY <1>2, <1>3, <1>6, <1>7, <1>8, <2>2, RunsMove, FieldsAre
       DEF WebhookInv, DeliveryInv, PostsFollowAccidents, Running
  <2>3. QED
    BY <2>1, <2>2
<1>11. NothingIsLost(d)'
  <2> SUFFICES ASSUME accidents' = 0 PROVE NothingIsLost(d)'
    BY DEF NothingIsLost
  <2>1. accidents = 0 /\ req[p].at \in Running
    BY <1>2, <1>3, FieldsAre DEF WebhookInv, Running
  <2>2. QED
    BY <1>2, <1>3, <1>8, <2>1 DEF NothingIsLost, At, About, Running
<1>12. QED
  BY <1>6, <1>8, <1>9, <1>10, <1>11, WorksHolds DEF DeliveryInv

LEMMA PostHolds ==
    ASSUME WebhookInv, NEW p \in Procs, NEW arrives \in BOOLEAN, NEW accepts \in BOOLEAN,
           NEW answers \in BOOLEAN, Post(p, arrives, accepts, answers)
    PROVE  WebhookInv'
<1>1. PICK d \in Deliveries : d = req[p].row
  BY DEF Post, At, WebhookInv, WebhookTyped, WebhookRequests
<1>2. /\ req[p].at = "post" /\ UNCHANGED <<delivery, subscription, allowed>>
      /\ accepts => arrives
      /\ accidents' = IF accepts /\ ~answers THEN accidents + 1 ELSE accidents
      /\ accidents' <= MaxAccidents
  <2>1. accidents \in 0..MaxAccidents /\ MaxAccidents \in Nat
    BY WebhookAssumption DEF WebhookInv, WebhookTyped
  <2>2. QED
    BY <1>1, <2>1 DEF Post, At
<1>3. /\ endpoint'[d].accepted = IF accepts THEN endpoint[d].accepted + 1 ELSE endpoint[d].accepted
      /\ endpoint'[d].posts = IF arrives THEN endpoint[d].posts + 1 ELSE endpoint[d].posts
      /\ endpoint' \in [Deliveries -> Tally]
      /\ \A e \in Deliveries : e # d => endpoint'[e] = endpoint[e]
  <2> DEFINE new == [posts |-> IF arrives THEN endpoint[d].posts + 1 ELSE endpoint[d].posts,
                     accepted |-> IF accepts THEN endpoint[d].accepted + 1 ELSE endpoint[d].accepted]
  <2>1. /\ new \in Tally
        /\ new.accepted = IF accepts THEN endpoint[d].accepted + 1 ELSE endpoint[d].accepted
        /\ new.posts = IF arrives THEN endpoint[d].posts + 1 ELSE endpoint[d].posts
    BY FieldsAre DEF Tally, WebhookInv
  <2>2. endpoint' = [endpoint EXCEPT ![d] = new]
    BY <1>1 DEF Post
  <2> HIDE DEF new
  <2>3. QED
    BY <2>1, <2>2 DEF WebhookInv, WebhookTyped
<1>4. DeliveryInv(d) /\ About(p, d)
  BY <1>1, <1>2 DEF WebhookInv, About
<1>5. CASE accepts /\ answers
  <2>1. /\ DOMAIN req' = Procs /\ \A q \in Procs : q # p => req'[q] = req[q]
        /\ req'[p].at = "success" /\ req'[p].row = d /\ UNCHANGED postJob
    BY <1>1, <1>5, WebhookMoves DEF Post, WebhookInv, WebhookTyped
  <2>2. Works(p, d)
    BY <1>1, <1>2, <1>3, <2>1 DEF Works, WebhookInv, WebhookTyped, Idle
  <2>3. delivery[d].status # "none" /\ \A q \in Procs : ~(req[q].at \in Making /\ req[q].row = d)
    BY <1>1, <1>2, <1>4 DEF DeliveryInv, MadeFirst, About, Making, At
  <2>4. MadeFirst(d)' /\ JobIsHeld(d)'
    BY <1>2, <1>4, <2>1, <2>3 DEF DeliveryInv, MadeFirst, JobIsHeld, Making
  <2>5. AttemptsAreCounted(d)' /\ PostsFollowAccidents(d)'
    BY <1>2, <1>3, <1>4, <1>5, <2>1, <2>2, RunsMove, FieldsAre
       DEF WebhookInv, DeliveryInv, AttemptsAreCounted, PostsFollowAccidents, Waits, Running
  <2>6. NothingIsLost(d)'
    <3> SUFFICES ASSUME accidents' = 0 PROVE NothingIsLost(d)'
      BY DEF NothingIsLost
    <3>1. accidents = 0 /\ accidents' = accidents
      BY <1>2, <1>5
    <3>2. postJob[d].state = "active" /\ postJob[d].by = p /\ Runs(d) # {}
      BY <1>1, <1>2, <1>4, <3>1 DEF DeliveryInv, NothingIsLost, Running, Runs
    <3>3. endpoint[d].accepted = 0 /\ endpoint'[d].accepted = 1
      BY <1>2, <1>3, <1>4, <1>5, <2>2, <3>1, RunsMove, FieldsAre
         DEF WebhookInv, DeliveryInv, PostsFollowAccidents, Waits, Running
    <3>4. \A q \in Procs : q # p /\ About(q, d)' => ~At(q, "failed")'
      BY <1>4, <2>1, <3>1, <3>2 DEF DeliveryInv, NothingIsLost, About, At
    <3>5. \A q \in Procs : q # p /\ About(q, d)' => req'[q].at \notin Running \cup {"success"}
      BY <1>4, <2>1, <3>1, <3>2 DEF DeliveryInv, NothingIsLost, About
    <3>6. QED
      BY <2>1, <3>2, <3>3, <3>4, <3>5 DEF NothingIsLost, At
  <2>7. QED
    BY <2>2, <2>4, <2>5, <2>6, WorksHolds DEF DeliveryInv
<1>6. CASE ~(accepts /\ answers)
  <2>1. /\ DOMAIN req' = Procs /\ \A q \in Procs : q # p => req'[q] = req[q]
        /\ req'[p].at = "failed" /\ req'[p].row = d
        /\ Settles(p, d, AfterFailure(d))
    BY <1>1, <1>6, WebhookMoves DEF Post, WebhookInv, WebhookTyped
  <2>2. /\ AfterFailure(d) \in {"waiting", "failed"}
        /\ AfterFailure(d) = "waiting" => postJob[d].tries < Tries
    BY AfterFailureIs
  <2>3. /\ postJob' \in [Deliveries -> PostJob]
        /\ \A e \in Deliveries : e # d => postJob'[e] = postJob[e]
        /\ postJob'[d].tries = postJob[d].tries
        /\ postJob[d].by = p => postJob'[d].state = AfterFailure(d) /\ postJob'[d].by = None
        /\ postJob[d].by # p => postJob'[d] = postJob[d]
    BY <2>1, <2>2, SettlesHolds DEF WebhookInv
  <2>4. Leaves(p, d, AfterFailure(d)) /\ Works(p, d)
    <3>1. Works(p, d)
      BY <1>1, <1>2, <1>3, <2>1, <2>3 DEF Works, WebhookInv, WebhookTyped, Idle
    <3>2. QED
      BY <1>1, <1>2, <2>1, <2>2, <2>3, <3>1 DEF Leaves, Running
  <2>5. /\ MadeFirst(d)' /\ JobIsHeld(d)' /\ Waits(d) \in 0..1 /\ Waits(d)' \in 0..1
        /\ AfterFailure(d) # "waiting" => Waits(d)' <= Waits(d)
        /\ accidents = 0 =>
                 /\ \A q \in Procs : q # p => ~About(q, d) /\ ~About(q, d)'
                 /\ Runs(d)' = {}
                 /\ postJob'[d].state = AfterFailure(d)
                 /\ req[p].at \in Running => endpoint[d].accepted = 0
    BY <2>4, LeavesHolds
  <2>6. AttemptsAreCounted(d)'
    BY <1>2, <1>3, <1>4, <2>1, <2>4, RunsMove, FieldsAre DEF WebhookInv, DeliveryInv, AttemptsAreCounted
  <2>7. PostsFollowAccidents(d)'
    <3>1. /\ Cardinality(Runs(d)') + 1 <= Cardinality(Runs(d))
          /\ Cardinality(Runs(d)') \in Nat /\ Cardinality(Runs(d)) \in Nat
      BY <1>2, <2>1, <2>4, RunsMove DEF Running
    <3>2. \/ endpoint'[d].accepted = endpoint[d].accepted /\ accidents' = accidents
          \/ endpoint'[d].accepted = endpoint[d].accepted + 1 /\ accidents' = accidents + 1
      BY <1>2, <1>3, <1>6
    <3>3. Waits(d)' <= Waits(d) + 1
      BY <2>5
    <3>4. /\ endpoint[d].accepted \in Nat /\ accidents \in Nat
          /\ endpoint[d].accepted + Cardinality(Runs(d)) + Waits(d) <= 1 + accidents
      BY <1>4, FieldsAre DEF WebhookInv, DeliveryInv, PostsFollowAccidents
    <3>5. QED
      BY <2>5, <3>1, <3>2, <3>3, <3>4 DEF PostsFollowAccidents
  <2>8. NothingIsLost(d)'
    <3> SUFFICES ASSUME accidents' = 0 PROVE NothingIsLost(d)'
      BY DEF NothingIsLost
    <3>1. accidents = 0 /\ endpoint'[d].accepted = endpoint[d].accepted
      BY <1>2, <1>3, <1>6, FieldsAre DEF WebhookInv
    <3>2. QED
      BY <1>2, <2>1, <2>5, <3>1 DEF NothingIsLost, At, About, Running
  <2>9. QED
    BY <2>4, <2>5, <2>6, <2>7, <2>8, WorksHolds DEF DeliveryInv
<1>7. QED
  BY <1>5, <1>6

-----------------------------------------------------------------------------
(* Steps of nobody's request *)

LEMMA StallDeliveryHolds ==
    ASSUME WebhookInv, NEW d \in Deliveries, StallDelivery(d)
    PROVE  WebhookInv'
<1>1. /\ UNCHANGED <<subscription, allowed, delivery, endpoint, req>>
      /\ postJob[d].state = "active" /\ accidents' = accidents + 1
      /\ accidents \in Nat /\ accidents' \in 0..MaxAccidents
  <2>1. accidents \in 0..MaxAccidents /\ MaxAccidents \in Nat
    BY WebhookAssumption DEF WebhookInv, WebhookTyped
  <2>2. QED
    BY <2>1 DEF StallDelivery
<1>2. /\ AfterFailure(d) \in {"waiting", "failed"}
      /\ AfterFailure(d) = "waiting" => postJob[d].tries < Tries
  BY AfterFailureIs
<1>3. /\ postJob' \in [Deliveries -> PostJob]
      /\ \A e \in Deliveries : e # d => postJob'[e] = postJob[e]
      /\ postJob'[d].tries = postJob[d].tries
      /\ postJob'[d].state = AfterFailure(d) /\ postJob'[d].by = None
  <2> DEFINE new == [state |-> AfterFailure(d), tries |-> postJob[d].tries, by |-> None]
  <2>1. /\ new \in PostJob /\ new.tries = postJob[d].tries /\ new.by = None
        /\ new.state = AfterFailure(d)
    BY <1>2, FieldsAre DEF PostJob, WebhookInv
  <2>2. postJob' = [postJob EXCEPT ![d] = new]
    BY DEF StallDelivery
  <2> HIDE DEF new
  <2>3. QED
    BY <2>1, <2>2 DEF WebhookInv, WebhookTyped
<1>4. WebhookTyped'
  BY <1>1, <1>3 DEF WebhookInv, WebhookTyped, WebhookRequests
<1>5. ASSUME NEW e \in Deliveries PROVE DeliveryInv(e)'
  <2>1. /\ DeliveryInv(e)
        /\ Runs(e)' = Runs(e) /\ Posters(e)' = Posters(e)
        /\ \A q \in Procs : About(q, e)' <=> About(q, e)
    BY <1>1 DEF WebhookInv, Runs, Posters, About
  <2>2. MadeFirst(e)'
    BY <1>1, <1>3, <2>1 DEF DeliveryInv, MadeFirst, At
  <2>3. JobIsHeld(e)'
    BY <1>2, <1>3, <2>1 DEF DeliveryInv, JobIsHeld
  <2>4. AttemptsAreCounted(e)'
    BY <1>1, <2>1 DEF DeliveryInv, AttemptsAreCounted
  <2>5. PostsFollowAccidents(e)'
    BY <1>1, <1>3, <2>1, RunsAreFinite, FieldsAre
       DEF WebhookInv, DeliveryInv, PostsFollowAccidents, Waits
  <2>6. NothingIsLost(e)'
    BY <1>1 DEF NothingIsLost
  <2>7. QED
    BY <2>2, <2>3, <2>4, <2>5, <2>6 DEF DeliveryInv
<1>6. QED
  BY <1>4, <1>5 DEF WebhookInv

LEMMA SubscriptionMovesHolds ==
    ASSUME WebhookInv, UNCHANGED <<delivery, postJob, endpoint, accidents, req>>,
           subscription' \in [active : BOOLEAN, archived : BOOLEAN], allowed' \in BOOLEAN
    PROVE  WebhookInv'
<1>1. WebhookTyped'
  BY DEF WebhookInv, WebhookTyped, WebhookRequests
<1>2. ASSUME NEW d \in Deliveries PROVE DeliveryInv(d)'
  <2>1. DeliveryInv(d) /\ Runs(d)' = Runs(d) /\ Posters(d)' = Posters(d)
    BY DEF WebhookInv, Runs, Posters
  <2>2. MadeFirst(d)' /\ JobIsHeld(d)' /\ NothingIsLost(d)'
    BY <2>1 DEF DeliveryInv, MadeFirst, JobIsHeld, NothingIsLost, At, About
  <2>3. AttemptsAreCounted(d)' /\ PostsFollowAccidents(d)'
    BY <2>1 DEF DeliveryInv, AttemptsAreCounted, PostsFollowAccidents, Waits
  <2>4. QED
    BY <2>2, <2>3 DEF DeliveryInv
<1>3. QED
  BY <1>1, <1>2 DEF WebhookInv

LEMMA WebhookInitHolds == WebhookInit => WebhookInv
<1> SUFFICES ASSUME WebhookInit PROVE WebhookInv
  OBVIOUS
<1>1. WebhookTyped
  BY WebhookAssumption DEF WebhookInit, WebhookTyped, WebhookRequests, ReqInit, NoRequest,
     NoDelivery, NoPostJob, Row, PostJob, Tally
<1>2. ASSUME NEW d \in Deliveries PROVE DeliveryInv(d)
  <2>1. /\ \A p \in Procs : req[p].at = "idle"
        /\ delivery[d] = NoDelivery /\ postJob[d] = NoPostJob
        /\ endpoint[d] = [posts |-> 0, accepted |-> 0] /\ accidents = 0
    BY DEF WebhookInit, ReqInit, NoRequest
  <2>2. Runs(d) = {} /\ Posters(d) = {} /\ Cardinality({}) = 0
    BY <2>1, FS_EmptySet DEF Runs, Posters, Running
  <2>3. QED
    BY <2>1, <2>2 DEF DeliveryInv, MadeFirst, JobIsHeld, AttemptsAreCounted, PostsFollowAccidents,
       NothingIsLost, Waits, NoDelivery, NoPostJob, About, At, Making
<1>3. QED
  BY <1>1, <1>2 DEF WebhookInv

LEMMA WebhookStepHolds == WebhookInv /\ [WebhookNext]_webhookVars => WebhookInv'
<1> SUFFICES ASSUME WebhookInv, [WebhookNext]_webhookVars PROVE WebhookInv'
  OBVIOUS
<1>1. subscription \in [active : BOOLEAN, archived : BOOLEAN] /\ allowed \in BOOLEAN
  BY DEF WebhookInv, WebhookTyped
<1>2. CASE DeactivateSubscription
  <2>1. subscription' \in [active : BOOLEAN, archived : BOOLEAN]
    BY <1>1, <1>2 DEF DeactivateSubscription
  <2>2. QED
    BY <1>1, <1>2, <2>1, SubscriptionMovesHolds DEF DeactivateSubscription
<1>3. CASE ArchiveOrRestore
  <2>1. subscription' \in [active : BOOLEAN, archived : BOOLEAN]
    BY <1>1, <1>3 DEF ArchiveOrRestore
  <2>2. QED
    BY <1>1, <1>3, <2>1, SubscriptionMovesHolds DEF ArchiveOrRestore
<1>4. CASE ChangePlan
  BY <1>1, <1>4, SubscriptionMovesHolds DEF ChangePlan
<1>5. CASE \E d \in Deliveries : StallDelivery(d)
  BY <1>5, StallDeliveryHolds
<1>6. ASSUME NEW p \in Procs,
             \/ CreateDelivery(p) \/ QueueDelivery(p) \/ ReadSubscription(p) \/ Refuse(p)
             \/ CountAttempt(p) \/ Succeeds(p) \/ PostThrows(p) \/ OnFailed(p) \/ WebhookDies(p)
             \/ \E arrives, accepts, answers \in BOOLEAN : Post(p, arrives, accepts, answers)
             \/ \E d \in Deliveries :
                   TakeDelivery(p, d) \/ \E test \in BOOLEAN : Notify(p, d, test)
      PROVE  WebhookInv'
  BY <1>6, CreateDeliveryHolds, QueueDeliveryHolds, ReadSubscriptionHolds, RefuseHolds,
     CountAttemptHolds, SucceedsHolds, PostThrowsHolds, OnFailedHolds, WebhookDiesHolds, PostHolds,
     TakeDeliveryHolds, NotifyHolds
<1>7. CASE UNCHANGED webhookVars
  BY <1>1, <1>7, SubscriptionMovesHolds DEF webhookVars
<1>8. QED
  BY <1>2, <1>3, <1>4, <1>5, <1>6, <1>7 DEF WebhookNext

(* For any number of deliveries, workers and tries, and however many       *)
(* accidents a bound lets happen: the endpoint accepts a delivery at most  *)
(* once more than there were accidents, and without any what it accepted   *)
(* is shown as a success when its job is over (process, onFailed).         *)
THEOREM ShownFollowsAccidentsHolds == WebhookSpec => []ShownFollowsAccidents
<1>1. WebhookSpec => []WebhookInv
  BY WebhookInitHolds, WebhookStepHolds, PTL DEF WebhookSpec
<1>2. WebhookInv => ShownFollowsAccidents
  BY WebhookInvSuffices
<1>3. QED
  BY <1>1, <1>2, PTL

-----------------------------------------------------------------------------
(* Gifts *)

Gift ==
    [state : {"none", "pending", "success", "failed"}, cash : BOOLEAN, fund : Funds \cup {None},
     created : 0..LastGivingYear, series : Funds \cup {None}, year : 0..LastGivingYear, number : 0..(Cardinality(Gifts) + 1)]
SeenReceipt == [year : 0..LastGivingYear, number : 1..(Cardinality(Gifts) + 1)]

AboutGift == {"open", "notOpen", "verify", "confirm", "fail"}

(* What a request knows of the gift it is about stays so. *)
GivingRequestOK(p) ==
    /\ req[p].at \in {"idle", "cash", "charge"} \cup AboutGift
    /\ req[p].at \in AboutGift =>
          req[p].row \in Gifts /\ gift[req[p].row].state # "none" /\ ~gift[req[p].row].cash
    /\ req[p].at \in {"open", "notOpen"} => page[req[p].row] = "none"
    /\ At(p, "confirm") => page[req[p].row] = "paid"
    /\ At(p, "fail") => "failed" \in event[req[p].row]
    /\ req[p].at \in {"cash", "charge"} => req[p].row \in Funds
    /\ req[p].at \in {"confirm", "cash", "charge"} => req[p].seen \in SeenReceipt

OneOpens ==
    \A p, q \in Procs :
        req[p].at \in {"open", "notOpen"} /\ req[q].at \in {"open", "notOpen"} /\ req[p].row = req[q].row => p = q

GiftOK(g) ==
    /\ gift[g].state \in {"none", "pending"} => gift[g].number = 0
    /\ gift[g].state = "none" => page[g] = "none"
    /\ gift[g].state # "none" => gift[g].fund \in Funds
    /\ gift[g].cash => gift[g].state = "success"
    /\ gift[g].series \in {None, gift[g].fund}
    /\ gift[g].series # None => gift[g].number # 0
    /\ gift[g].number # 0 /\ ~gift[g].cash /\ (gift[g].series # None \/ gift[g].state = "success")
          => page[g] = "paid"
    /\ gift[g].state = "failed" =>
          \/ "failed" \in event[g]
          \/ page[g] = "none" /\ \A p \in Procs : At(p, "open") => req[p].row # g

GivingTyped ==
    /\ fund \subseteq Funds
    /\ gift \in [Gifts -> Gift]
    /\ page \in [Gifts -> {"none", "open", "paid", "short"}]
    /\ event \in [Gifts -> SUBSET {"success", "failed"}]
    /\ givingYear \in 0..LastGivingYear
    /\ DOMAIN req = Procs

FundOf(p) == IF At(p, "cash") THEN req[p].row ELSE gift[req[p].row].fund

(* A number that is drawn is at most the one that follows. *)
DrawnOK(p) ==
    p \in Drawing => req[p].seen.number <= Cardinality(Receipts(FundOf(p), req[p].seen.year)) + 1

(* A receipt is among those that are counted, no other gift has it, and no *)
(* request has drawn it, unless it was contested.                          *)
ReceiptOK(g) ==
    gift[g].series # None /\ Receipt(g) \notin contested =>
        /\ gift[g].number <= Cardinality(Receipts(gift[g].fund, gift[g].year))
        /\ \A h \in Gifts \ {g} : Receipt(h) # Receipt(g)
        /\ \A p \in Drawing : Drawn(p) # Receipt(g)

NumbersInv ==
    /\ Disputes \subseteq contested
    /\ \A p \in Procs : DrawnOK(p)
    /\ \A g \in Gifts : ReceiptOK(g)

GivingInv ==
    /\ GivingTyped
    /\ \A p \in Procs : GivingRequestOK(p)
    /\ OneOpens
    /\ \A g \in Gifts : GiftOK(g)
    /\ NumbersInv

(* How many receipts there can be. *)
LEMMA NumbersCounted ==
    ASSUME NEW f, NEW y
    PROVE  /\ IsFiniteSet(Receipts(f, y))
           /\ Cardinality(Receipts(f, y)) \in Nat /\ Cardinality(Gifts) \in Nat
           /\ Cardinality(Receipts(f, y)) + 1 \in 1..(Cardinality(Gifts) + 1)
<1>1. Receipts(f, y) \in SUBSET Gifts
  BY DEF Receipts
<1>2. QED
  BY <1>1, Fewer, GivingAssumption

LEMMA GivingInvSuffices ==
    GivingInv => GivingTypeOK /\ GiftsAgree
<1> SUFFICES ASSUME GivingInv PROVE GivingTypeOK /\ GiftsAgree
  OBVIOUS
<1>1. GivingTypeOK
  BY DEF GivingInv, GivingTyped, GivingTypeOK, Gift, GiftOK
<1>2. ReceiptsArePaid
  BY DEF GivingInv, GiftOK, ReceiptsArePaid
<1>3. PaidIsNotWrittenOff
  BY DEF GivingInv, GiftOK, PaidIsNotWrittenOff
<1>4. RepeatsAreContested
  <2> SUFFICES ASSUME NEW g \in Gifts, gift[g].series # None, Receipt(g) \notin contested
               PROVE  /\ \A h \in Gifts \ {g} : Receipt(h) # Receipt(g)
                      /\ gift[g].number \in 1..Cardinality(Receipts(gift[g].fund, gift[g].year))
    BY DEF RepeatsAreContested
  <2>1. ReceiptOK(g) /\ GiftOK(g) /\ gift[g] \in Gift
    BY DEF GivingInv, NumbersInv, GivingTyped
  <2>2. gift[g].number \in Nat /\ gift[g].number # 0
    <3>1. Cardinality(Gifts) \in Nat
      BY NumbersCounted
    <3>2. QED
      BY <2>1, <3>1 DEF GiftOK, Gift
  <2>3. Cardinality(Receipts(gift[g].fund, gift[g].year)) \in Nat
    BY NumbersCounted
  <2>4. QED
    BY <2>1, <2>2, <2>3 DEF ReceiptOK
<1>5. QED
  BY <1>1, <1>2, <1>3, <1>4 DEF GiftsAgree

LEMMA GivingInitOK == GivingInit => GivingInv
<1> SUFFICES ASSUME GivingInit PROVE GivingInv
  OBVIOUS
<1> USE DEF GivingInit, ReqInit, NoRequest, NoGift
<1>1. GivingTyped
  <2>1. Cardinality(Gifts) \in Nat
    BY GivingAssumption, FS_CardinalityType
  <2>2. NoGift \in Gift
    BY <2>1, GivingAssumption DEF Gift
  <2>3. QED
    BY <2>2, GivingAssumption DEF GivingTyped
<1>2. \A p \in Procs : GivingRequestOK(p)
  BY DEF GivingRequestOK, At, AboutGift
<1>3. OneOpens
  BY DEF OneOpens
<1>4. \A g \in Gifts : GiftOK(g)
  BY DEF GiftOK
<1>5. NumbersInv
  BY DEF NumbersInv, Disputes, Drawing, DrawnOK, ReceiptOK
<1>6. QED
  BY <1>1, <1>2, <1>3, <1>4, <1>5 DEF GivingInv

(* What a step does to what the requests know: a gift that is there stays, *)
(* a page is first opened by who asked for it, and of who moved it is      *)
(* known what he knows.                                                    *)
Knows ==
    /\ DOMAIN req' = Procs
    /\ \A q \in Procs :
          \/ req'[q] = req[q]
          \/ /\ GivingRequestOK(q)'
             /\ req'[q].at \in {"open", "notOpen"} =>
                   \/ /\ req[q].at \in {"open", "notOpen"} /\ req'[q].row = req[q].row
                      /\ req'[q].at = "notOpen"
                   \/ gift[req'[q].row].state = "none" /\ \A r \in Procs \ {q} : req'[r] = req[r]
    /\ \A g \in Gifts : gift[g].state # "none" /\ ~gift[g].cash
                           => gift'[g].state # "none" /\ ~gift'[g].cash
    /\ \A g \in Gifts : event[g] \subseteq event'[g]
    /\ \A g \in Gifts :
          \/ page'[g] = page[g]
          \/ page[g] = "open"
          \/ gift[g].state = "none" /\ gift'[g].state # "none"
          \/ \E q \in Procs : At(q, "open") /\ req[q].row = g /\ req'[q].at = "idle"

LEMMA KnowsOK ==
    ASSUME GivingInv, Knows
    PROVE  (\A p \in Procs : GivingRequestOK(p)') /\ OneOpens'
<1>1. ASSUME NEW p \in Procs PROVE GivingRequestOK(p)'
  <2>1. CASE req'[p] # req[p]
    BY <2>1 DEF Knows
  <2>2. CASE req'[p] = req[p]
    <3>1. GivingRequestOK(p)
      BY DEF GivingInv
    <3>2. req[p].at \in {"open", "notOpen"} => page'[req[p].row] = "none"
      <4> SUFFICES ASSUME req[p].at \in {"open", "notOpen"} PROVE page'[req[p].row] = "none"
        OBVIOUS
      <4>1. page[req[p].row] = "none" /\ req[p].row \in Gifts /\ gift[req[p].row].state # "none"
        BY <3>1 DEF GivingRequestOK, AboutGift
      <4>2. \A q \in Procs : At(q, "open") /\ req[q].row = req[p].row => q = p
        BY DEF GivingInv, OneOpens, At
      <4>3. QED
        BY <4>1, <4>2, <2>2 DEF Knows
    <3>3. req[p].at = "confirm" => page'[req[p].row] = "paid"
      <4> SUFFICES ASSUME req[p].at = "confirm" PROVE page'[req[p].row] = "paid"
        OBVIOUS
      <4>1. page[req[p].row] = "paid" /\ req[p].row \in Gifts /\ gift[req[p].row].state # "none"
        BY <3>1 DEF GivingRequestOK, At, AboutGift
      <4>2. \A q \in Procs : At(q, "open") => page[req[q].row] = "none"
        BY DEF GivingInv, GivingRequestOK, At
      <4>3. QED
        BY <4>1, <4>2 DEF Knows
    <3>4. req[p].at = "fail" => "failed" \in event'[req[p].row]
      BY <3>1 DEF Knows, GivingRequestOK, At, AboutGift
    <3>5. req[p].at \in AboutGift =>
            req[p].row \in Gifts /\ gift'[req[p].row].state # "none" /\ ~gift'[req[p].row].cash
      BY <3>1 DEF Knows, GivingRequestOK
    <3>6. QED
      BY <2>2, <3>1, <3>2, <3>3, <3>4, <3>5 DEF GivingRequestOK, At
  <2>3. QED
    BY <2>1, <2>2
<1>2. OneOpens'
  <2> SUFFICES ASSUME NEW p \in Procs, NEW q \in Procs, p # q,
                      req'[p].at \in {"open", "notOpen"}, req'[q].at \in {"open", "notOpen"},
                      req'[p].row = req'[q].row
               PROVE  FALSE
    BY DEF OneOpens
  <2>1. ASSUME NEW r \in Procs, req'[r].at \in {"open", "notOpen"}
        PROVE  \/ req[r].at \in {"open", "notOpen"} /\ req'[r].row = req[r].row
               \/ gift[req'[r].row].state = "none" /\ \A s \in Procs \ {r} : req'[s] = req[s]
    BY <2>1 DEF Knows
  <2>2. ASSUME NEW r \in Procs, NEW s \in Procs, r # s, req'[r].row = req'[s].row,
               req'[s].at \in {"open", "notOpen"},
               gift[req'[r].row].state = "none" /\ \A t \in Procs \ {r} : req'[t] = req[t]
        PROVE  FALSE
    <3>1. req[s].at \in AboutGift /\ gift[req[s].row].state = "none"
      BY <2>2 DEF AboutGift
    <3>2. QED
      BY <3>1 DEF GivingInv, GivingRequestOK
  <2>3. QED
    BY <2>1, <2>2 DEF GivingInv, OneOpens
<1>3. QED
  BY <1>1, <1>2

(* The gifts that are counted stay counted. *)
Grows ==
    /\ \A g \in Gifts : gift[g].number # 0 =>
          gift'[g].number # 0 /\ gift'[g].fund = gift[g].fund /\ gift'[g].created = gift[g].created
    /\ \A g \in Gifts : gift[g].state # "none" => gift'[g].fund = gift[g].fund

LEMMA MoreReceipts ==
    ASSUME Grows, NEW f, NEW y
    PROVE  /\ Receipts(f, y) \subseteq Receipts(f, y)'
           /\ Cardinality(Receipts(f, y)) \in Nat /\ Cardinality(Receipts(f, y)') \in Nat
           /\ IsFiniteSet(Receipts(f, y)) /\ IsFiniteSet(Receipts(f, y)')
           /\ Cardinality(Receipts(f, y)) <= Cardinality(Receipts(f, y)')
<1> PICK R, S : R = Receipts(f, y) /\ S = Receipts(f, y)'
  OBVIOUS
<1>1. R \subseteq S /\ S \subseteq Gifts
  BY DEF Receipts, Grows
<1>2. IsFiniteSet(S)
  BY <1>1, GivingAssumption, Fewer
<1>3. QED
  BY <1>1, <1>2, Fewer

(* No receipt of a fund's own series is written by the step. *)
Quiet ==
    /\ Grows
    /\ \A g \in Gifts : gift'[g].series # None =>
          /\ gift'[g].series = gift[g].series /\ gift'[g].year = gift[g].year
          /\ gift'[g].number = gift[g].number /\ gift'[g].fund = gift[g].fund

(* The request of p draws the number that follows, and the books are left alone. *)
Draws(p) ==
    /\ gift' = gift
    /\ p \in Drawing' =>
          /\ req'[p].seen.year = givingYear
          /\ req'[p].seen.number = NextNumber(FundOf(p)')

(* What a request of which the step makes nothing has drawn. *)
LEMMA DrawnStays ==
    ASSUME GivingInv, Grows, NEW p \in Procs, req'[p] = req[p], p \in Drawing
    PROVE  p \in Drawing' /\ FundOf(p)' = FundOf(p) /\ Drawn(p)' = Drawn(p) /\ DrawnOK(p)'
<1>1. GivingRequestOK(p) /\ DrawnOK(p) /\ req[p].at \in {"confirm", "cash"}
  BY DEF GivingInv, NumbersInv, Drawing
<1>2. p \in Drawing'
  BY <1>1 DEF Drawing
<1>3. req[p].at = "confirm" => gift'[req[p].row].fund = gift[req[p].row].fund
  BY <1>1 DEF GivingRequestOK, AboutGift, Grows
<1>4. FundOf(p)' = FundOf(p) /\ Drawn(p)' = Drawn(p)
  BY <1>1, <1>3 DEF FundOf, Drawn, At
<1> PICK f, y, n : f = FundOf(p) /\ y = req[p].seen.year /\ n = req[p].seen.number
  OBVIOUS
<1>5. n \in Nat
  BY <1>1, NumbersCounted DEF GivingRequestOK, SeenReceipt
<1>6. n <= Cardinality(Receipts(f, y)) + 1
  BY <1>1 DEF DrawnOK, Drawing
<1>7. n <= Cardinality(Receipts(f, y)') + 1
  BY <1>5, <1>6, MoreReceipts
<1>8. Receipts(FundOf(p), req[p].seen.year)' = Receipts(f, y)'
  BY <1>4 DEF Receipts
<1>9. QED
  BY <1>2, <1>4, <1>7, <1>8 DEF DrawnOK

LEMMA QuietNumbers ==
    ASSUME GivingInv, Quiet, contested' = contested \cup Disputes',
           \A p \in Procs : req'[p] = req[p] \/ p \notin Drawing' \/ Draws(p)
    PROVE  NumbersInv'
<1>1. Disputes' \subseteq contested'
  OBVIOUS
<1>2. Grows
  BY DEF Quiet
<1>3. ASSUME NEW p \in Procs, Draws(p), p \in Drawing'
      PROVE  DrawnOK(p)' /\ \A g \in Gifts : gift[g].series # None /\ Receipt(g) \notin contested
                                               => Drawn(p)' # Receipt(g)
  <2> PICK f, y : f = FundOf(p)' /\ y = givingYear
    OBVIOUS
  <2>1. /\ req'[p].seen.year = y /\ req'[p].seen.number = Cardinality(Receipts(f, y)) + 1
        /\ Drawn(p)' = <<f, y, req'[p].seen.number>>
    BY <1>3 DEF Draws, NextNumber, Drawn, FundOf
  <2>2. Receipts(f, y)' = Receipts(f, y) /\ Receipts(FundOf(p), req[p].seen.year)' = Receipts(f, y)
    BY <1>3, <2>1 DEF Draws, Receipts
  <2>3. Cardinality(Receipts(f, y)) \in Nat
    BY NumbersCounted
  <2>4. DrawnOK(p)'
    BY <2>1, <2>2, <2>3 DEF DrawnOK
  <2>5. ASSUME NEW g \in Gifts, gift[g].series # None, Receipt(g) \notin contested, Drawn(p)' = Receipt(g)
        PROVE  FALSE
    <3>1. gift[g].series = f /\ gift[g].year = y /\ gift[g].number = Cardinality(Receipts(f, y)) + 1
      BY <2>1, <2>5 DEF Receipt
    <3>2. gift[g].series = gift[g].fund
      BY <2>5 DEF GivingInv, GiftOK
    <3>3. gift[g].number <= Cardinality(Receipts(f, y))
      BY <2>5, <3>1, <3>2 DEF GivingInv, NumbersInv, ReceiptOK
    <3>4. QED
      BY <2>3, <3>1, <3>3
  <2>6. QED
    BY <2>4, <2>5
<1>4. ASSUME NEW p \in Procs PROVE DrawnOK(p)'
  <2>1. CASE p \notin Drawing'
    BY <2>1 DEF DrawnOK
  <2>2. CASE p \in Drawing' /\ req'[p] = req[p]
    <3>1. p \in Drawing
      BY <2>2 DEF Drawing
    <3>2. QED
      BY <1>2, <2>2, <3>1, DrawnStays
  <2>3. QED
    BY <1>3, <2>1, <2>2
<1>5. ASSUME NEW g \in Gifts PROVE ReceiptOK(g)'
  <2> SUFFICES ASSUME gift'[g].series # None, Receipt(g)' \notin contested'
               PROVE  ReceiptOK(g)'
    BY DEF ReceiptOK
  <2> PICK f, y : f = gift[g].fund /\ y = gift[g].year
    OBVIOUS
  <2>1. /\ gift[g].series # None /\ Receipt(g)' = Receipt(g) /\ Receipt(g) \notin contested
        /\ gift'[g].number = gift[g].number /\ gift'[g].fund = f /\ gift'[g].year = y
    BY DEF Quiet, Receipt
  <2>2. /\ gift[g].number <= Cardinality(Receipts(f, y))
        /\ \A h \in Gifts \ {g} : Receipt(h) # Receipt(g)
        /\ \A p \in Drawing : Drawn(p) # Receipt(g)
    BY <2>1 DEF GivingInv, NumbersInv, ReceiptOK
  <2>3. gift[g].number \in Nat
    BY NumbersCounted DEF GivingInv, GivingTyped, Gift
  <2>4. gift'[g].number <= Cardinality(Receipts(f, y)')
    BY <1>2, <2>1, <2>2, <2>3, MoreReceipts
  <2>5. ASSUME NEW h \in Gifts \ {g}, Receipt(h)' = Receipt(g)' PROVE FALSE
    <3>1. gift'[h].series # None
      BY <2>5 DEF Receipt
    <3>2. Receipt(h)' = Receipt(h)
      BY <3>1 DEF Quiet, Receipt
    <3>3. QED
      BY <2>1, <2>2, <2>5, <3>2
  <2>6. ASSUME NEW p \in Drawing', Drawn(p)' = Receipt(g)' PROVE FALSE
    <3>1. p \in Procs
      BY DEF Drawing
    <3>2. CASE req'[p] = req[p]
      <4>1. p \in Drawing
        BY <3>2 DEF Drawing
      <4>2. QED
        BY <1>2, <2>1, <2>2, <2>6, <3>1, <3>2, <4>1, DrawnStays
    <3>3. CASE Draws(p)
      BY <1>3, <2>1, <2>6, <3>1, <3>3
    <3>4. QED
      BY <3>1, <3>2, <3>3
  <2>7. Receipts(gift[g].fund, gift[g].year)' = Receipts(f, y)'
    BY <2>1 DEF Receipts
  <2>8. QED
    BY <2>4, <2>5, <2>6, <2>7 DEF ReceiptOK
<1>6. QED
  BY <1>1, <1>4, <1>5 DEF NumbersInv

(* p writes the receipt it has drawn to g, a gift that adds to the count   *)
(* unless the receipt was contested.                                       *)
Writes(p, g) ==
    /\ p \in Drawing /\ req'[p].at = "idle"
    /\ \A q \in Procs \ {p} : req'[q] = req[q]
    /\ \A h \in Gifts \ {g} : gift'[h] = gift[h]
    /\ gift'[g].fund = FundOf(p) /\ gift'[g].series = FundOf(p)
    /\ gift'[g].year = req[p].seen.year /\ gift'[g].number = req[p].seen.number
    /\ Drawn(p) \notin contested => gift[g].number = 0 /\ gift'[g].created = req[p].seen.year

(* Then no other request has drawn it, and it is counted. *)
LEMMA WrittenNumbers ==
    ASSUME GivingInv, Grows, contested' = contested \cup Disputes',
           NEW p \in Procs, NEW g \in Gifts, Writes(p, g)
    PROVE  NumbersInv'
<1> PICK f, y, n : f = FundOf(p) /\ y = req[p].seen.year /\ n = req[p].seen.number
  OBVIOUS
<1>0. /\ p \in Drawing /\ req'[p].at = "idle"
      /\ \A q \in Procs \ {p} : req'[q] = req[q]
      /\ \A h \in Gifts \ {g} : gift'[h] = gift[h]
      /\ gift'[g].fund = f /\ gift'[g].series = f /\ gift'[g].year = y /\ gift'[g].number = n
      /\ Drawn(p) \notin contested => gift[g].number = 0 /\ gift'[g].created = y
  BY DEF Writes
<1> USE <1>0
<1>1. Disputes' \subseteq contested'
  OBVIOUS
<1>2. /\ Drawn(p) = <<f, y, n>> /\ Receipt(g)' = <<f, y, n>>
      /\ n \in Nat /\ n # 0 /\ n <= Cardinality(Receipts(f, y)) + 1
  <2>1. GivingRequestOK(p) /\ DrawnOK(p) /\ req[p].at \in {"confirm", "cash"}
    BY DEF GivingInv, NumbersInv, Drawing
  <2>2. req[p].seen \in SeenReceipt
    BY <2>1 DEF GivingRequestOK
  <2>3. n \in Nat /\ n # 0
    BY <2>2, NumbersCounted DEF SeenReceipt
  <2>4. QED
    BY <2>1, <2>3 DEF Drawn, FundOf, Receipt, DrawnOK
<1>3. ASSUME NEW q \in Drawing'
      PROVE  q \in Procs /\ q # p /\ q \in Drawing /\ Drawn(q)' = Drawn(q) /\ DrawnOK(q)'
  <2>1. q \in Procs /\ q # p
    BY DEF Drawing
  <2>2. q \in Drawing
    BY <2>1 DEF Drawing
  <2>3. QED
    BY <2>1, <2>2, DrawnStays
<1>4. ASSUME NEW q \in Procs PROVE DrawnOK(q)'
  <2>1. CASE q \in Drawing'
    BY <1>3, <2>1
  <2>2. QED
    BY <2>1 DEF DrawnOK
<1>5. ReceiptOK(g)'
  <2> SUFFICES ASSUME Receipt(g)' \notin contested'
               PROVE  /\ n <= Cardinality(Receipts(f, y)')
                      /\ \A h \in Gifts \ {g} : Receipt(h)' # Receipt(g)'
                      /\ \A q \in Drawing' : Drawn(q)' # Receipt(g)'
    <3>1. Receipts(gift[g].fund, gift[g].year)' = Receipts(f, y)'
      BY DEF Receipts
    <3>2. QED
      BY <3>1 DEF ReceiptOK
  <2>1. Drawn(p) \notin contested /\ gift[g].number = 0 /\ gift'[g].created = y
    BY <1>2
  <2>2. n <= Cardinality(Receipts(f, y)')
    <3> PICK R, S : R = Receipts(f, y) /\ S = Receipts(f, y)'
      OBVIOUS
    <3>1. g \notin R /\ g \in S /\ R \subseteq S
      BY <1>2, <2>1, MoreReceipts DEF Receipts
    <3>2. IsFiniteSet(R) /\ IsFiniteSet(S) /\ Cardinality(R) \in Nat /\ Cardinality(S) \in Nat
      BY MoreReceipts
    <3>3. Cardinality(R \cup {g}) = Cardinality(R) + 1
      BY <3>1, <3>2, FS_AddElement
    <3>4. Cardinality(R \cup {g}) <= Cardinality(S)
      BY <3>1, <3>2, Fewer
    <3>5. QED
      BY <1>2, <3>2, <3>3, <3>4
  <2>3. ASSUME NEW h \in Gifts \ {g}, Receipt(h)' = Receipt(g)' PROVE FALSE
    <3>1. Receipt(h) = Drawn(p)
      BY <1>2, <2>3 DEF Receipt
    <3>2. f # None
      <4>1. GivingRequestOK(p) /\ req[p].at \in {"confirm", "cash"}
        BY DEF GivingInv, Drawing
      <4>2. req[p].at = "confirm" => gift[req[p].row].fund \in Funds
        BY <4>1 DEF GivingInv, GivingRequestOK, GiftOK, AboutGift
      <4>3. f \in Funds
        BY <4>1, <4>2 DEF GivingRequestOK, FundOf, At
      <4>4. QED
        BY <4>3, GivingAssumption
    <3>3. gift[h].series # None
      BY <1>2, <3>1, <3>2 DEF Receipt
    <3>4. QED
      BY <2>1, <3>1, <3>3 DEF GivingInv, NumbersInv, ReceiptOK
  <2>4. ASSUME NEW q \in Drawing', Drawn(q)' = Receipt(g)' PROVE FALSE
    <3>1. p \in Drawing \ {q} /\ q \in Drawing /\ Drawn(q) = Drawn(p)
      BY <1>2, <1>3, <2>4
    <3>2. Disputed(q)
      BY <3>1 DEF Disputed
    <3>3. Drawn(q) \in Disputes
      BY <3>1, <3>2 DEF Disputes
    <3>4. QED
      BY <2>1, <3>1, <3>3 DEF GivingInv, NumbersInv
  <2>5. QED
    BY <2>2, <2>3, <2>4
<1>6. ASSUME NEW h \in Gifts \ {g} PROVE ReceiptOK(h)'
  <2>1. gift'[h] = gift[h] /\ Receipt(h)' = Receipt(h)
    BY DEF Receipt
  <2> SUFFICES ASSUME gift[h].series # None, Receipt(h) \notin contested'
               PROVE  ReceiptOK(h)'
    BY <2>1 DEF ReceiptOK
  <2> PICK e, z : e = gift[h].fund /\ z = gift[h].year
    OBVIOUS
  <2>2. /\ gift[h].number <= Cardinality(Receipts(e, z))
        /\ \A i \in Gifts \ {h} : Receipt(i) # Receipt(h)
        /\ \A q \in Drawing : Drawn(q) # Receipt(h)
    BY DEF GivingInv, NumbersInv, ReceiptOK
  <2>3. gift[h].number \in Nat
    BY NumbersCounted DEF GivingInv, GivingTyped, Gift
  <2>4. gift[h].number <= Cardinality(Receipts(e, z)')
    BY <2>2, <2>3, MoreReceipts
  <2>5. \A i \in Gifts \ {h} : Receipt(i)' # Receipt(h)
    <3>1. Receipt(g)' # Receipt(h)
      BY <1>2, <2>2
    <3>2. \A i \in Gifts \ {g} : Receipt(i)' = Receipt(i)
      BY DEF Receipt
    <3>3. QED
      BY <2>2, <3>1, <3>2
  <2>6. \A q \in Drawing' : Drawn(q)' # Receipt(h)
    BY <1>3, <2>2
  <2>7. Receipts(gift[h].fund, gift[h].year)' = Receipts(e, z)'
    BY <2>1 DEF Receipts
  <2>8. QED
    BY <2>1, <2>4, <2>5, <2>6, <2>7 DEF ReceiptOK
<1>7. QED
  BY <1>1, <1>4, <1>5, <1>6 DEF NumbersInv

(* A gift that the step does not write stays as it must be. *)
LEMMA GiftStays ==
    ASSUME GivingInv, Knows, NEW g \in Gifts, gift'[g] = gift[g]
    PROVE  GiftOK(g)'
<1>1. GiftOK(g) /\ \A q \in Procs : GivingRequestOK(q)
  BY DEF GivingInv
<1>2. \A q \in Procs : At(q, "open") => page[req[q].row] = "none" /\ gift[req[q].row].state # "none"
  BY <1>1 DEF GivingRequestOK, At, AboutGift
<1>3. page[g] = "paid" => page'[g] = "paid"
  BY <1>2 DEF Knows
<1>4. gift[g].state = "none" => page'[g] = "none"
  BY <1>1, <1>2 DEF Knows, GiftOK
<1>5. ASSUME gift[g].state = "failed"
      PROVE  \/ "failed" \in event'[g]
             \/ page'[g] = "none" /\ \A p \in Procs : req'[p].at = "open" => req'[p].row # g
  <2>1. CASE "failed" \in event[g]
    BY <2>1 DEF Knows
  <2>2. CASE page[g] = "none" /\ \A p \in Procs : At(p, "open") => req[p].row # g
    <3>1. page'[g] = "none"
      BY <2>2 DEF Knows
    <3>2. ASSUME NEW p \in Procs, req'[p].at = "open", req'[p].row = g PROVE FALSE
      <4>1. CASE req'[p] = req[p]
        BY <4>1, <3>2, <2>2 DEF At
      <4>2. CASE req'[p] # req[p]
        BY <4>2, <3>2, <1>5 DEF Knows
      <4>3. QED
        BY <4>1, <4>2
    <3>3. QED
      BY <3>1, <3>2
  <2>3. QED
    BY <1>1, <1>5, <2>1, <2>2 DEF GiftOK
<1>6. QED
  BY <1>1, <1>3, <1>4, <1>5 DEF GiftOK, At

LEMMA GivingHolds ==
    ASSUME GivingInv, Knows, GivingTyped', NumbersInv',
           \A g \in Gifts : gift'[g] = gift[g] \/ GiftOK(g)'
    PROVE  GivingInv'
<1>1. (\A p \in Procs : GivingRequestOK(p)') /\ OneOpens'
  BY KnowsOK
<1>2. \A g \in Gifts : GiftOK(g)'
  BY GiftStays
<1>3. QED
  BY <1>1, <1>2 DEF GivingInv

(* What the world does: no request moves, and no gift is written. *)
LEMMA WorldHolds ==
    ASSUME GivingInv, contested' = contested \cup Disputes', UNCHANGED <<req, gift>>,
           fund' \subseteq Funds, page' \in [Gifts -> {"none", "open", "paid", "short"}],
           event' \in [Gifts -> SUBSET {"success", "failed"}], givingYear' \in 0..LastGivingYear,
           \A g \in Gifts : event[g] \subseteq event'[g] /\ (page'[g] = page[g] \/ page[g] = "open")
    PROVE  GivingInv'
<1>1. Knows
  BY DEF Knows, GivingInv, GivingTyped
<1>2. GivingTyped'
  BY DEF GivingInv, GivingTyped
<1>3. NumbersInv'
  BY QuietNumbers DEF Quiet, Grows
<1>4. QED
  BY <1>1, <1>2, <1>3, GivingHolds

LEMMA ToggleFundHolds ==
    ASSUME GivingInv, contested' = contested \cup Disputes', NEW f \in Funds, ToggleFund(f)
    PROVE  GivingInv'
<1>1. fund' \subseteq Funds
  BY DEF GivingInv, GivingTyped, ToggleFund
<1>2. QED
  BY <1>1, WorldHolds DEF GivingInv, GivingTyped, ToggleFund

LEMMA PayHolds ==
    ASSUME GivingInv, contested' = contested \cup Disputes', NEW g \in Gifts, Pay(g)
    PROVE  GivingInv'
<1>1. /\ event' \in [Gifts -> SUBSET {"success", "failed"}]
      /\ \A h \in Gifts : event[h] \subseteq event'[h]
  BY DEF GivingInv, GivingTyped, Pay
<1>2. /\ page' \in [Gifts -> {"none", "open", "paid", "short"}]
      /\ \A h \in Gifts : page'[h] = page[h] \/ page[h] = "open"
  BY DEF GivingInv, GivingTyped, Pay
<1>3. QED
  BY <1>1, <1>2, WorldHolds DEF GivingInv, GivingTyped, Pay

LEMMA DeclineHolds ==
    ASSUME GivingInv, contested' = contested \cup Disputes', NEW g \in Gifts, Decline(g)
    PROVE  GivingInv'
<1>1. /\ event' \in [Gifts -> SUBSET {"success", "failed"}]
      /\ \A h \in Gifts : event[h] \subseteq event'[h]
  BY DEF GivingInv, GivingTyped, Decline
<1>2. QED
  BY <1>1, WorldHolds DEF GivingInv, GivingTyped, Decline

LEMMA NewGivingYearHolds ==
    ASSUME GivingInv, contested' = contested \cup Disputes', NewGivingYear
    PROVE  GivingInv'
<1>1. givingYear' \in 0..LastGivingYear
  BY GivingAssumption DEF GivingInv, GivingTyped, NewGivingYear
<1>2. QED
  BY <1>1, WorldHolds DEF GivingInv, GivingTyped, NewGivingYear

(* The moves of a request that write no gift. *)
LEMMA EndsOK ==
    ASSUME GivingInv, NEW p \in Procs, Ends(p)
    PROVE  /\ DOMAIN req' = Procs /\ req'[p].at = "idle"
           /\ \A q \in Procs \ {p} : req'[q] = req[q]
           /\ GivingRequestOK(p)' /\ p \notin Drawing'
<1>1. /\ DOMAIN req' = Procs /\ req'[p] = NoRequest
      /\ \A q \in Procs \ {p} : req'[q] = req[q]
  BY DEF GivingInv, GivingTyped, Ends
<1>2. QED
  BY <1>1 DEF NoRequest, GivingRequestOK, Drawing, At, AboutGift

LEMMA MovesOK ==
    ASSUME GivingInv, NEW p \in Procs, NEW at, NEW r, NEW seen,
           req' = [req EXCEPT ![p] = [at |-> at, row |-> r, seen |-> seen]]
    PROVE  /\ DOMAIN req' = Procs
           /\ req'[p].at = at /\ req'[p].row = r /\ req'[p].seen = seen
           /\ \A q \in Procs \ {p} : req'[q] = req[q]
BY DEF GivingInv, GivingTyped

(* A request moves, and the books are left alone. *)
Passes(p) ==
    /\ DOMAIN req' = Procs /\ \A q \in Procs \ {p} : req'[q] = req[q]
    /\ UNCHANGED <<fund, gift, event, givingYear>>
    /\ \/ page' = page
       \/ At(p, "open") /\ req'[p].at = "idle" /\ page' = [page EXCEPT ![req[p].row] = "open"]
    /\ GivingRequestOK(p)' /\ Draws(p)
    /\ req'[p].at \in {"open", "notOpen"} =>
          req[p].at \in {"open", "notOpen"} /\ req'[p].row = req[p].row /\ req'[p].at = "notOpen"

LEMMA MoveHolds ==
    ASSUME GivingInv, contested' = contested \cup Disputes', NEW p \in Procs, Passes(p)
    PROVE  GivingInv'
<1>1. /\ page' \in [Gifts -> {"none", "open", "paid", "short"}]
      /\ \A g \in Gifts : page'[g] = page[g] \/ (At(p, "open") /\ req[p].row = g /\ req'[p].at = "idle")
  <2>1. page \in [Gifts -> {"none", "open", "paid", "short"}]
    BY DEF GivingInv, GivingTyped
  <2>2. CASE page' = page
    BY <2>1, <2>2
  <2>3. CASE At(p, "open") /\ req'[p].at = "idle" /\ page' = [page EXCEPT ![req[p].row] = "open"]
    <3>1. page' \in [Gifts -> {"none", "open", "paid", "short"}]
      BY <2>1, <2>3
    <3>2. \A g \in Gifts : req[p].row # g => page'[g] = page[g]
      BY <2>1, <2>3
    <3>3. QED
      BY <2>3, <3>1, <3>2
  <2>4. QED
    BY <2>2, <2>3 DEF Passes
<1>2. Knows
  BY <1>1 DEF Knows, Passes
<1>3. GivingTyped'
  BY <1>1 DEF GivingInv, GivingTyped, Passes
<1>4. NumbersInv'
  BY QuietNumbers DEF Quiet, Grows, Passes
<1>5. QED
  BY <1>2, <1>3, <1>4, GivingHolds DEF Passes

LEMMA GivingDiesHolds ==
    ASSUME GivingInv, contested' = contested \cup Disputes', NEW p \in Procs, GivingDies(p)
    PROVE  GivingInv'
<1>1. Ends(p) /\ UNCHANGED <<fund, gift, page, event, givingYear>>
  BY DEF GivingDies, Dies
<1>2. Passes(p)
  BY <1>1, EndsOK DEF Passes, Draws
<1>3. QED
  BY <1>2, MoveHolds

LEMMA GatewayOpensHolds ==
    ASSUME GivingInv, contested' = contested \cup Disputes', NEW p \in Procs, GatewayOpens(p)
    PROVE  GivingInv'
<1>1. UNCHANGED <<fund, gift, event, givingYear>> /\ At(p, "open") /\ GivingRequestOK(p)
  BY DEF GatewayOpens, GivingInv
<1>2. CASE page' = [page EXCEPT ![req[p].row] = "open"] /\ Ends(p)
  <2>1. Passes(p)
    BY <1>1, <1>2, EndsOK DEF Passes, Draws
  <2>2. QED
    BY <2>1, MoveHolds
<1>3. CASE UNCHANGED page /\ GoesTo(p, "notOpen")
  <2>1. /\ DOMAIN req' = Procs /\ req'[p].at = "notOpen" /\ req'[p].row = req[p].row
        /\ \A q \in Procs \ {p} : req'[q] = req[q]
    BY <1>3, MovesOK DEF GoesTo
  <2>2. GivingRequestOK(p)' /\ Draws(p)
    BY <1>1, <1>3, <2>1 DEF GivingRequestOK, Draws, Drawing, At, AboutGift
  <2>3. Passes(p)
    BY <1>1, <1>3, <2>1, <2>2 DEF At, Passes
  <2>4. QED
    BY <2>3, MoveHolds
<1>4. QED
  BY <1>2, <1>3 DEF GatewayOpens

LEMMA VerifyPaymentHolds ==
    ASSUME GivingInv, contested' = contested \cup Disputes', NEW p \in Procs, NEW g \in Gifts, VerifyPayment(p, g)
    PROVE  GivingInv'
<1>1. /\ gift[g].state \in {"pending", "failed"} /\ UNCHANGED <<fund, gift, page, event, givingYear>>
      /\ req' = [req EXCEPT ![p] = [at |-> "verify", row |-> g, seen |-> None]]
  BY DEF VerifyPayment, Begins
<1>2. /\ DOMAIN req' = Procs /\ req'[p].at = "verify" /\ req'[p].row = g
      /\ \A q \in Procs \ {p} : req'[q] = req[q]
  BY <1>1, MovesOK
<1>3. ~gift[g].cash
  BY <1>1 DEF GivingInv, GiftOK
<1>4. GivingRequestOK(p)'
  BY <1>1, <1>2, <1>3 DEF GivingRequestOK, At, AboutGift
<1>5. Draws(p)
  BY <1>1, <1>2 DEF Draws, Drawing
<1>6. Passes(p)
  BY <1>1, <1>2, <1>4, <1>5 DEF Passes
<1>7. QED
  BY <1>6, MoveHolds

LEMMA HandleWebhookHolds ==
    ASSUME GivingInv, contested' = contested \cup Disputes', NEW p \in Procs, NEW g \in Gifts,
           NEW e \in {"success", "failed"}, HandleWebhook(p, g, e)
    PROVE  GivingInv'
<1> PICK at : at = IF e = "success" THEN "verify" ELSE "fail"
  OBVIOUS
<1>1. /\ gift[g].state = "pending" /\ UNCHANGED <<fund, gift, page, event, givingYear>>
      /\ e \in event[g]
      /\ req' = [req EXCEPT ![p] = [at |-> at, row |-> g, seen |-> None]]
  BY DEF HandleWebhook, Begins
<1>2. /\ DOMAIN req' = Procs /\ req'[p].at = at /\ req'[p].row = g
      /\ \A q \in Procs \ {p} : req'[q] = req[q]
  BY <1>1, MovesOK
<1>3. ~gift[g].cash
  BY <1>1 DEF GivingInv, GiftOK
<1>4. GivingRequestOK(p)'
  BY <1>1, <1>2, <1>3 DEF GivingRequestOK, At, AboutGift
<1>5. Draws(p)
  BY <1>1, <1>2 DEF Draws, Drawing
<1>6. Passes(p)
  BY <1>1, <1>2, <1>4, <1>5 DEF Passes
<1>7. QED
  BY <1>6, MoveHolds

(* A number that is given follows the receipts of this year. *)
LEMMA NumberSeen ==
    ASSUME GivingInv, NEW f
    PROVE  [year |-> givingYear, number |-> NextNumber(f)] \in SeenReceipt
<1>1. NextNumber(f) \in 1..(Cardinality(Gifts) + 1)
  BY NumbersCounted DEF NextNumber
<1>2. QED
  BY <1>1 DEF SeenReceipt, GivingInv, GivingTyped

LEMMA AskGatewayHolds ==
    ASSUME GivingInv, contested' = contested \cup Disputes', NEW p \in Procs, AskGateway(p)
    PROVE  GivingInv'
<1> PICK g, f : g = req[p].row /\ f = gift[g].fund
  OBVIOUS
<1>1. At(p, "verify") /\ GivingRequestOK(p) /\ UNCHANGED <<fund, gift, page, event, givingYear>>
  BY DEF AskGateway, GivingInv, Unconfirmed
<1>2. g \in Gifts /\ gift[g].state # "none" /\ ~gift[g].cash
  BY <1>1 DEF GivingRequestOK, At, AboutGift
<1>3. CASE Confirmed(g)
  <2> PICK seen : seen = [year |-> givingYear, number |-> NextNumber(f)]
    OBVIOUS
  <2>1. req' = [req EXCEPT ![p] = [at |-> "confirm", row |-> g, seen |-> seen]]
    BY <1>3 DEF AskGateway
  <2>2. /\ DOMAIN req' = Procs /\ req'[p].at = "confirm" /\ req'[p].row = g /\ req'[p].seen = seen
        /\ \A q \in Procs \ {p} : req'[q] = req[q]
    BY <2>1, MovesOK
  <2>3. GivingRequestOK(p)'
    BY <1>1, <1>2, <1>3, <2>2, NumberSeen DEF GivingRequestOK, At, AboutGift, Confirmed
  <2>4. Draws(p)
    <3>1. FundOf(p)' = f
      BY <1>1, <2>2 DEF FundOf, At
    <3>2. NextNumber(FundOf(p)') = NextNumber(f)
      BY <3>1
    <3>3. QED
      BY <1>1, <2>2, <3>2 DEF Draws
  <2>5. Passes(p)
    BY <1>1, <2>2, <2>3, <2>4 DEF Passes
  <2>6. QED
    BY <2>5, MoveHolds
<1>4. CASE ~Confirmed(g)
  <2>1. Ends(p)
    BY <1>4 DEF AskGateway
  <2>2. Passes(p)
    BY <1>1, <2>1, EndsOK DEF Passes, Draws
  <2>3. QED
    BY <2>2, MoveHolds
<1>5. QED
  BY <1>3, <1>4

LEMMA RecordCashHolds ==
    ASSUME GivingInv, contested' = contested \cup Disputes', NEW p \in Procs, NEW f \in Funds, RecordCash(p, f)
    PROVE  GivingInv'
<1> PICK seen : seen = [year |-> givingYear, number |-> NextNumber(f)]
  OBVIOUS
<1>1. /\ req' = [req EXCEPT ![p] = [at |-> "cash", row |-> f, seen |-> seen]]
      /\ UNCHANGED <<fund, gift, page, event, givingYear>>
  BY DEF RecordCash, Begins
<1>2. /\ DOMAIN req' = Procs /\ req'[p].at = "cash" /\ req'[p].row = f /\ req'[p].seen = seen
      /\ \A q \in Procs \ {p} : req'[q] = req[q]
  BY <1>1, MovesOK
<1>3. GivingRequestOK(p)'
  BY <1>2, NumberSeen DEF GivingRequestOK, At, AboutGift
<1>4. Draws(p)
  <2>1. FundOf(p)' = f
    BY <1>2 DEF FundOf, At
  <2>2. NextNumber(FundOf(p)') = NextNumber(f)
    BY <2>1
  <2>3. QED
    BY <1>1, <1>2, <2>2 DEF Draws
<1>5. Passes(p)
  BY <1>1, <1>2, <1>3, <1>4 DEF Passes
<1>6. QED
  BY <1>5, MoveHolds

LEMMA ChargeRecurringHolds ==
    ASSUME GivingInv, contested' = contested \cup Disputes', NEW p \in Procs, NEW f \in Funds,
           ChargeRecurring(p, f)
    PROVE  GivingInv'
<1> PICK seen : seen = [year |-> givingYear, number |-> NextNumber(None)]
  OBVIOUS
<1>1. /\ req' = [req EXCEPT ![p] = [at |-> "charge", row |-> f, seen |-> seen]]
      /\ UNCHANGED <<fund, gift, page, event, givingYear>>
  BY DEF ChargeRecurring, Begins
<1>2. /\ DOMAIN req' = Procs /\ req'[p].at = "charge" /\ req'[p].row = f /\ req'[p].seen = seen
      /\ \A q \in Procs \ {p} : req'[q] = req[q]
  BY <1>1, MovesOK
<1>3. GivingRequestOK(p)'
  BY <1>2, NumberSeen DEF GivingRequestOK, At, AboutGift
<1>4. Draws(p)
  BY <1>1, <1>2 DEF Draws, Drawing
<1>5. Passes(p)
  BY <1>1, <1>2, <1>3, <1>4 DEF Passes
<1>6. QED
  BY <1>5, MoveHolds

(* A step of p that writes the gift g: the rest is left alone. *)
Books(p, g, new) ==
    /\ DOMAIN req' = Procs /\ \A q \in Procs \ {p} : req'[q] = req[q]
    /\ UNCHANGED <<fund, page, event, givingYear>>
    /\ new \in Gift /\ gift' = [gift EXCEPT ![g] = new]

LEMMA BooksOK ==
    ASSUME GivingInv, contested' = contested \cup Disputes', NEW p, NEW g \in Gifts, NEW new, Books(p, g, new)
    PROVE  /\ gift'[g] = new /\ \A h \in Gifts \ {g} : gift'[h] = gift[h]
           /\ GivingTyped'
BY DEF Books, GivingInv, GivingTyped

(* The gift was not there, or stays what it is but for its state. *)
LEMMA BookedHolds ==
    ASSUME GivingInv, contested' = contested \cup Disputes', NEW p \in Procs, NEW g \in Gifts, NEW new,
           Books(p, g, new), NumbersInv', GiftOK(g)', GivingRequestOK(p)',
           \/ gift[g].state = "none" \/ gift[g].cash
           \/ new.state # "none" /\ ~new.cash,
           \/ req'[p].at \notin {"open", "notOpen"}
           \/ gift[g].state = "none" /\ req'[p].row = g
    PROVE  GivingInv'
<1>1. /\ gift'[g] = new /\ \A h \in Gifts \ {g} : gift'[h] = gift[h]
      /\ GivingTyped'
  BY BooksOK
<1>2. Knows
  BY <1>1 DEF Knows, Books
<1>3. QED
  BY <1>1, <1>2, GivingHolds

LEMMA InitializePaymentHolds ==
    ASSUME GivingInv, contested' = contested \cup Disputes',
           NEW p \in Procs, NEW g \in Gifts, NEW f \in Funds, InitializePayment(p, g, f)
    PROVE  GivingInv'
<1> PICK new : new = [state |-> "pending", cash |-> FALSE, fund |-> f, created |-> givingYear,
                      series |-> None, year |-> 0, number |-> 0]
  OBVIOUS
<1>1. /\ new.state = "pending" /\ ~new.cash /\ new.number = 0 /\ new.series = None
      /\ new \in Gift
  <2>1. Cardinality(Gifts) \in Nat
    BY GivingAssumption, FS_CardinalityType
  <2>2. givingYear \in 0..LastGivingYear /\ 0 \in 0..LastGivingYear
    BY GivingAssumption DEF GivingInv, GivingTyped
  <2>3. QED
    BY <2>1, <2>2 DEF Gift
<1>2. /\ gift[g].state = "none" /\ UNCHANGED <<fund, page, event, givingYear>>
      /\ gift' = [gift EXCEPT ![g] = new]
      /\ req' = [req EXCEPT ![p] = [at |-> "open", row |-> g, seen |-> None]]
  <2>1. ASSUME NEW v, v = [NoGift EXCEPT !.state = "pending", !.fund = f, !.created = givingYear]
        PROVE  v = new
    <3>1. v = [state |-> "pending", cash |-> FALSE, fund |-> f, created |-> givingYear,
               series |-> None, year |-> 0, number |-> 0]
      BY <2>1 DEF NoGift
    <3>2. QED
      BY <3>1
  <2>2. QED
    BY <2>1 DEF InitializePayment, Begins
<1>3. /\ DOMAIN req' = Procs /\ req'[p].at = "open" /\ req'[p].row = g
      /\ \A q \in Procs \ {p} : req'[q] = req[q]
  BY <1>2, MovesOK
<1>4. Books(p, g, new)
  BY <1>1, <1>2, <1>3 DEF Books
<1>5. gift'[g] = new /\ \A h \in Gifts \ {g} : gift'[h] = gift[h]
  BY <1>4, BooksOK
<1>6. GiftOK(g) /\ page'[g] = "none"
  BY <1>2 DEF GivingInv, GiftOK
<1>7. GiftOK(g)'
  BY <1>1, <1>5, <1>6 DEF GiftOK, Gift
<1>8. GivingRequestOK(p)'
  BY <1>1, <1>3, <1>5, <1>6 DEF GivingRequestOK, At, AboutGift
<1>9. NumbersInv'
  <2>1. Quiet
    BY <1>1, <1>2, <1>5, <1>6 DEF Quiet, Grows, GiftOK
  <2>2. p \notin Drawing'
    BY <1>3 DEF Drawing
  <2>3. QED
    BY <1>3, <2>1, <2>2, QuietNumbers
<1>10. QED
  BY <1>1, <1>2, <1>3, <1>4, <1>7, <1>8, <1>9, BookedHolds

(* markFailed and the "failed" event: only the state is written. *)
LEMMA FailedHolds ==
    ASSUME GivingInv, contested' = contested \cup Disputes', NEW p \in Procs,
           gift' = [gift EXCEPT ![req[p].row].state = "failed"],
           Ends(p), UNCHANGED <<fund, page, event, givingYear>>,
           At(p, "notOpen") \/ At(p, "fail")
    PROVE  GivingInv'
<1> PICK g : g = req[p].row
  OBVIOUS
<1> PICK new : new = [gift[g] EXCEPT !.state = "failed"]
  OBVIOUS
<1>1. GivingRequestOK(p) /\ g \in Gifts /\ gift[g].state # "none" /\ ~gift[g].cash /\ gift[g] \in Gift /\ GiftOK(g)
  BY DEF GivingInv, GivingTyped, GivingRequestOK, At, AboutGift
<1>2. /\ new \in Gift /\ new.state = "failed" /\ ~new.cash /\ new.number = gift[g].number
      /\ new.fund = gift[g].fund /\ new.created = gift[g].created
      /\ new.series = gift[g].series /\ new.year = gift[g].year
  BY <1>1 DEF Gift
<1>3. /\ DOMAIN req' = Procs /\ req'[p].at = "idle"
      /\ \A q \in Procs \ {p} : req'[q] = req[q]
      /\ GivingRequestOK(p)' /\ p \notin Drawing'
  BY EndsOK
<1>4. Books(p, g, new)
  BY <1>1, <1>2, <1>3 DEF Books
<1>5. gift'[g] = new /\ \A h \in Gifts \ {g} : gift'[h] = gift[h]
  BY <1>1, <1>4, BooksOK
<1>6. \/ "failed" \in event'[g]
      \/ page'[g] = "none" /\ \A q \in Procs : req'[q].at = "open" => req'[q].row # g
  <2>1. CASE At(p, "fail")
    BY <2>1, <1>1 DEF GivingRequestOK
  <2>2. CASE At(p, "notOpen")
    <3>1. \A q \in Procs \ {p} : req[q].at \in {"open", "notOpen"} => req[q].row # g
      BY <2>2 DEF GivingInv, OneOpens, At
    <3>2. page[g] = "none"
      BY <2>2, <1>1 DEF GivingRequestOK, At
    <3>3. \A q \in Procs : req'[q].at = "open" => req'[q].row # g
      BY <3>1, <1>3
    <3>4. QED
      BY <3>2, <3>3
  <2>3. QED
    BY <2>1, <2>2
<1>7. GiftOK(g)'
  BY <1>1, <1>2, <1>5, <1>6 DEF GiftOK, At
<1>8. NumbersInv'
  <2>1. Quiet
    BY <1>2, <1>5 DEF Quiet, Grows
  <2>2. QED
    BY <1>3, <2>1, QuietNumbers
<1>9. QED
  BY <1>1, <1>2, <1>3, <1>4, <1>7, <1>8, BookedHolds

LEMMA ConfirmHolds ==
    ASSUME GivingInv, contested' = contested \cup Disputes', NEW p \in Procs, Confirm(p)
    PROVE  GivingInv'
<1> PICK g, seen : g = req[p].row /\ seen = req[p].seen
  OBVIOUS
<1> PICK f : f = gift[g].fund
  OBVIOUS
<1> PICK new : new = [gift[g] EXCEPT !.state = "success", !.series = f,
                                     !.year = seen.year, !.number = seen.number]
  OBVIOUS
<1>1. /\ At(p, "confirm") /\ GivingRequestOK(p) /\ seen \in SeenReceipt /\ page[g] = "paid"
      /\ g \in Gifts /\ gift[g].state # "none" /\ ~gift[g].cash /\ gift[g] \in Gift /\ GiftOK(g)
      /\ f \in Funds
  BY DEF GivingInv, GivingTyped, GivingRequestOK, Confirm, At, AboutGift, GiftOK
<1>2. /\ seen.year \in 0..LastGivingYear /\ seen.number \in 1..(Cardinality(Gifts) + 1)
      /\ seen.number # 0 /\ f # None
  BY <1>1, NumbersCounted, GivingAssumption DEF SeenReceipt
<1>3. /\ new \in Gift /\ new.state = "success" /\ ~new.cash /\ new.number = seen.number
      /\ new.fund = f /\ new.series = f /\ new.year = seen.year /\ new.created = gift[g].created
  <2>1. Cardinality(Gifts) \in Nat
    BY GivingAssumption, FS_CardinalityType
  <2>2. new = [state |-> "success", cash |-> gift[g].cash, fund |-> f, created |-> gift[g].created,
               series |-> f, year |-> seen.year, number |-> seen.number]
    BY <1>1 DEF Gift
  <2>3. gift[g].created \in 0..LastGivingYear
    BY <1>1 DEF Gift
  <2>4. new \in Gift
    <3>1. gift[g].cash \in BOOLEAN
      BY <1>1 DEF Gift
    <3>2. [state |-> "success", cash |-> gift[g].cash, fund |-> f, created |-> gift[g].created,
           series |-> f, year |-> seen.year, number |-> seen.number] \in Gift
      BY <1>1, <1>2, <2>1, <2>3, <3>1 DEF Gift
    <3>3. QED
      BY <2>2, <3>2
  <2>5. QED
    BY <1>1, <2>2, <2>4
<1>4. /\ DOMAIN req' = Procs /\ req'[p].at = "idle"
      /\ \A q \in Procs \ {p} : req'[q] = req[q]
      /\ GivingRequestOK(p)' /\ p \notin Drawing'
  BY EndsOK DEF Confirm
<1>5. Books(p, g, new)
  BY <1>1, <1>3, <1>4 DEF Books, Confirm
<1>6. gift'[g] = new /\ (\A h \in Gifts \ {g} : gift'[h] = gift[h]) /\ GivingTyped'
  BY <1>1, <1>5, BooksOK
<1>7. GiftOK(g)'
  BY <1>1, <1>2, <1>3, <1>5, <1>6 DEF GiftOK, At, Books
<1>8. NumbersInv'
  <2>1. p \in Drawing /\ FundOf(p) = f
    BY <1>1 DEF Drawing, FundOf, At
  <2>2. ASSUME Drawn(p) \notin contested PROVE gift[g].number = 0 /\ gift'[g].created = seen.year
    <3>1. ~Disputed(p)
      BY <2>1, <2>2 DEF GivingInv, NumbersInv, Disputes
    <3>2. gift[g].number = 0 /\ gift[g].created = seen.year
      BY <1>1, <3>1 DEF Disputed
    <3>3. QED
      BY <1>3, <1>6, <3>2
  <2>3. /\ gift'[g].fund = f /\ gift'[g].series = f /\ gift'[g].year = seen.year
        /\ gift'[g].number = seen.number /\ gift'[g].created = gift[g].created
    BY <1>3, <1>6
  <2>4. Grows
    BY <1>1, <1>2, <1>6, <2>3 DEF Grows
  <2>5. QED
    <3>1. Writes(p, g)
      BY <1>4, <1>6, <2>1, <2>2, <2>3, <2>4 DEF Writes
    <3>2. QED
      BY <1>1, <2>3, <2>4, <3>1, WrittenNumbers
<1>9. QED
  BY <1>1, <1>3, <1>4, <1>5, <1>7, <1>8, BookedHolds

LEMMA InsertCashHolds ==
    ASSUME GivingInv, contested' = contested \cup Disputes', NEW p \in Procs, NEW g \in Gifts, InsertCash(p, g)
    PROVE  GivingInv'
<1> PICK f, seen : f = req[p].row /\ seen = req[p].seen
  OBVIOUS
<1> PICK new : new = [state |-> "success", cash |-> TRUE, fund |-> f, created |-> givingYear,
                      series |-> f, year |-> seen.year, number |-> seen.number]
  OBVIOUS
<1>1. /\ At(p, "cash") /\ GivingRequestOK(p) /\ seen \in SeenReceipt
      /\ gift[g].state = "none" /\ GiftOK(g) /\ f \in Funds
  BY DEF GivingInv, GivingTyped, GivingRequestOK, InsertCash, At
<1>2. /\ seen.year \in 0..LastGivingYear /\ seen.number \in 1..(Cardinality(Gifts) + 1)
      /\ seen.number # 0 /\ f # None
  BY <1>1, NumbersCounted, GivingAssumption DEF SeenReceipt
<1>3. /\ new \in Gift /\ new.state = "success" /\ new.cash /\ new.number = seen.number /\ new.created = givingYear
      /\ new.fund = f /\ new.series = f /\ new.year = seen.year
  <2>1. Cardinality(Gifts) \in Nat /\ givingYear \in 0..LastGivingYear
    BY GivingAssumption, FS_CardinalityType DEF GivingInv, GivingTyped
  <2>2. QED
    BY <1>1, <1>2, <2>1 DEF Gift
<1>4. /\ DOMAIN req' = Procs /\ req'[p].at = "idle"
      /\ \A q \in Procs \ {p} : req'[q] = req[q]
      /\ GivingRequestOK(p)' /\ p \notin Drawing'
  BY EndsOK DEF InsertCash
<1>5. Books(p, g, new)
  BY <1>1, <1>3, <1>4 DEF Books, InsertCash
<1>6. gift'[g] = new /\ (\A h \in Gifts \ {g} : gift'[h] = gift[h]) /\ GivingTyped'
  BY <1>1, <1>5, BooksOK
<1>7. GiftOK(g)'
  BY <1>1, <1>2, <1>3, <1>5, <1>6 DEF GiftOK, At, Books
<1>8. NumbersInv'
  <2>1. p \in Drawing /\ FundOf(p) = f /\ gift[g].number = 0
    BY <1>1 DEF Drawing, FundOf, At, GiftOK
  <2>2. ASSUME Drawn(p) \notin contested PROVE gift[g].number = 0 /\ gift'[g].created = seen.year
    <3>1. ~Disputed(p)
      BY <2>1, <2>2 DEF GivingInv, NumbersInv, Disputes
    <3>2. QED
      BY <1>1, <1>3, <1>6, <2>1, <3>1 DEF Disputed
  <2>3. Grows
    BY <1>1, <1>6, <2>1 DEF Grows
  <2>4. gift'[g].fund = f /\ gift'[g].series = f /\ gift'[g].year = seen.year /\ gift'[g].number = seen.number
    BY <1>3, <1>6
  <2>5. QED
    <3>1. Writes(p, g)
      BY <1>4, <1>6, <2>1, <2>2, <2>3, <2>4 DEF Writes
    <3>2. QED
      BY <1>1, <2>3, <2>4, <3>1, WrittenNumbers
<1>9. QED
  BY <1>1, <1>3, <1>4, <1>5, <1>7, <1>8, BookedHolds

(* A recurring charge is counted, and its number is of no fund's series. *)
LEMMA InsertRecurringHolds ==
    ASSUME GivingInv, contested' = contested \cup Disputes', NEW p \in Procs, NEW g \in Gifts,
           InsertRecurring(p, g)
    PROVE  GivingInv'
<1> PICK f, seen : f = req[p].row /\ seen = req[p].seen
  OBVIOUS
<1> PICK taken \in BOOLEAN :
      /\ gift' = [gift EXCEPT ![g] =
            [state |-> IF taken THEN "success" ELSE "failed", cash |-> FALSE,
             fund |-> f, created |-> givingYear,
             series |-> None, year |-> seen.year, number |-> seen.number]]
      /\ page' = [page EXCEPT ![g] = IF taken THEN "paid" ELSE "open"]
      /\ event' = [event EXCEPT ![g] = @ \cup {IF taken THEN "success" ELSE "failed"}]
  BY DEF InsertRecurring
<1> PICK new : new = [state |-> IF taken THEN "success" ELSE "failed", cash |-> FALSE,
                      fund |-> f, created |-> givingYear,
                      series |-> None, year |-> seen.year, number |-> seen.number]
  OBVIOUS
<1>1. /\ At(p, "charge") /\ GivingRequestOK(p) /\ seen \in SeenReceipt
      /\ gift[g].state = "none" /\ GiftOK(g) /\ f \in Funds
      /\ UNCHANGED <<fund, givingYear>>
  BY DEF GivingInv, GivingTyped, GivingRequestOK, InsertRecurring, At
<1>2. /\ seen.year \in 0..LastGivingYear /\ seen.number \in 1..(Cardinality(Gifts) + 1)
      /\ seen.number # 0 /\ f # None
  BY <1>1, NumbersCounted, GivingAssumption DEF SeenReceipt
<1>3. /\ new \in Gift /\ new.state = (IF taken THEN "success" ELSE "failed") /\ ~new.cash
      /\ new.number = seen.number /\ new.number # 0 /\ new.fund = f /\ new.series = None
  <2>1. Cardinality(Gifts) \in Nat /\ givingYear \in 0..LastGivingYear
    BY NumbersCounted DEF GivingInv, GivingTyped
  <2>2. QED
    BY <1>1, <1>2, <2>1 DEF Gift
<1>4. /\ DOMAIN req' = Procs /\ req'[p].at = "idle"
      /\ \A q \in Procs \ {p} : req'[q] = req[q]
      /\ GivingRequestOK(p)' /\ p \notin Drawing'
  BY EndsOK DEF InsertRecurring
<1>5. /\ GivingTyped'
      /\ gift'[g] = new /\ \A h \in Gifts \ {g} : gift'[h] = gift[h]
      /\ page'[g] = (IF taken THEN "paid" ELSE "open")
      /\ \A h \in Gifts \ {g} : page'[h] = page[h]
      /\ ~taken => "failed" \in event'[g]
      /\ \A h \in Gifts : event[h] \subseteq event'[h]
  <2>1. /\ gift' = [gift EXCEPT ![g] = new] /\ gift \in [Gifts -> Gift]
        /\ page \in [Gifts -> {"none", "open", "paid", "short"}]
        /\ event \in [Gifts -> SUBSET {"success", "failed"}]
    BY DEF GivingInv, GivingTyped
  <2>2. gift' \in [Gifts -> Gift] /\ gift'[g] = new /\ \A h \in Gifts \ {g} : gift'[h] = gift[h]
    BY <1>3, <2>1
  <2>3. /\ page' \in [Gifts -> {"none", "open", "paid", "short"}]
        /\ page'[g] = (IF taken THEN "paid" ELSE "open")
        /\ \A h \in Gifts \ {g} : page'[h] = page[h]
    BY <2>1
  <2>4. /\ event' \in [Gifts -> SUBSET {"success", "failed"}]
        /\ ~taken => "failed" \in event'[g]
        /\ \A h \in Gifts : event[h] \subseteq event'[h]
    BY <2>1
  <2>5. QED
    BY <1>1, <1>4, <2>2, <2>3, <2>4 DEF GivingInv, GivingTyped
<1>6. GiftOK(g)'
  BY <1>1, <1>3, <1>5 DEF GiftOK
<1>7. gift[g].number = 0
  BY <1>1 DEF GiftOK
<1>8. Quiet
  BY <1>1, <1>3, <1>5, <1>7 DEF Quiet, Grows
<1>9. NumbersInv'
  BY <1>4, <1>8, QuietNumbers
<1>10. Knows
  <2>1. \A h \in Gifts : gift[h].state # "none" /\ ~gift[h].cash
                            => gift'[h].state # "none" /\ ~gift'[h].cash
    BY <1>1, <1>5
  <2>2. gift'[g].state # "none"
    BY <1>3, <1>5
  <2>3. \A h \in Gifts : page'[h] = page[h] \/ (gift[h].state = "none" /\ gift'[h].state # "none")
    BY <1>1, <1>5, <2>2
  <2>4. QED
    BY <1>4, <1>5, <2>1, <2>3 DEF Knows
<1>11. QED
  BY <1>5, <1>6, <1>9, <1>10, GivingHolds

LEMMA GivingStutters ==
    ASSUME GivingInv, UNCHANGED givingVars
    PROVE  GivingInv'
<1> USE DEF givingVars
<1>1. GivingTyped' /\ OneOpens'
  BY DEF GivingInv, GivingTyped, OneOpens
<1>2. \A p \in Procs : GivingRequestOK(p)'
  BY DEF GivingInv, GivingRequestOK, At
<1>3. \A g \in Gifts : GiftOK(g)'
  BY DEF GivingInv, GiftOK, At
<1>4. Disputes' \subseteq contested'
  <2>1. Drawing' = Drawing
    BY DEF Drawing
  <2>2. \A p \in Procs : Drawn(p)' = Drawn(p) /\ Disputed(p)' = Disputed(p)
    BY <2>1 DEF Drawn, Disputed, At
  <2>3. \A p \in Drawing : p \in Procs
    BY DEF Drawing
  <2>4. QED
    BY <2>1, <2>2, <2>3 DEF GivingInv, NumbersInv, Disputes
<1>5. NumbersInv'
  BY <1>4, QuietNumbers DEF Quiet, Grows
<1>6. QED
  BY <1>1, <1>2, <1>3, <1>5 DEF GivingInv

LEMMA GivingStepHolds == GivingInv /\ [GivingNext]_givingVars => GivingInv'
<1> SUFFICES ASSUME GivingInv, [GivingNext]_givingVars PROVE GivingInv'
  OBVIOUS
<1>1. CASE UNCHANGED givingVars
  BY <1>1, GivingStutters
<1>2. CASE GivingNext
  <2>1. GivingStep /\ contested' = contested \cup Disputes'
    BY <1>2 DEF GivingNext
  <2>2. CASE \E f \in Funds : ToggleFund(f)
    BY <2>1, <2>2, ToggleFundHolds
  <2>3. CASE \E g \in Gifts : Pay(g) \/ Decline(g)
    BY <2>1, <2>3, PayHolds, DeclineHolds
  <2>4. ASSUME NEW p \in Procs,
               \/ GatewayOpens(p) \/ MarkFailed(p) \/ AskGateway(p) \/ Confirm(p)
               \/ WriteFailed(p) \/ GivingDies(p)
        PROVE  GivingInv'
    <3>1. CASE MarkFailed(p)
      BY <2>1, <3>1, FailedHolds DEF MarkFailed
    <3>2. CASE WriteFailed(p)
      BY <2>1, <3>2, FailedHolds DEF WriteFailed
    <3>3. QED
      BY <2>1, <2>4, <3>1, <3>2, GatewayOpensHolds, AskGatewayHolds, ConfirmHolds, GivingDiesHolds
  <2>5. ASSUME NEW p \in Procs, NEW f \in Funds, RecordCash(p, f) \/ ChargeRecurring(p, f)
        PROVE  GivingInv'
    BY <2>1, <2>5, RecordCashHolds, ChargeRecurringHolds
  <2>6. ASSUME NEW p \in Procs, NEW g \in Gifts,
               \/ VerifyPayment(p, g) \/ InsertCash(p, g) \/ InsertRecurring(p, g)
               \/ \E f \in Funds : InitializePayment(p, g, f)
               \/ \E e \in {"success", "failed"} : HandleWebhook(p, g, e)
        PROVE  GivingInv'
    BY <2>1, <2>6, VerifyPaymentHolds, InsertCashHolds, InsertRecurringHolds,
        InitializePaymentHolds, HandleWebhookHolds
  <2>7. CASE NewGivingYear
    BY <2>1, <2>7, NewGivingYearHolds
  <2>8. QED
    BY <2>1, <2>2, <2>3, <2>4, <2>5, <2>6, <2>7 DEF GivingStep
<1>3. QED
  BY <1>1, <1>2

(* Whatever the gateway's events and the payers' browsers do, and whoever  *)
(* dies, for any number of gifts, funds and requests: a receipt of a fund  *)
(* is paid for, a paid gift is given up only after a declined card, and a  *)
(* number of a fund is repeated, or larger than the count, only if two     *)
(* requests had drawn it at once or it was drawn for a gift that did not   *)
(* add to the count (verifyPayment, handleWebhook, processRecurringCharge, *)
(* generateReceiptNumber).                                                 *)
THEOREM GiftsAgreeHolds == GivingSpec => []GiftsAgree
<1>1. GivingInv => GiftsAgree
  BY GivingInvSuffices
<1>2. QED
  BY GivingInitOK, GivingStepHolds, <1>1, PTL DEF GivingSpec

-----------------------------------------------------------------------------
(* Recurring charges *)

ScheduleRow ==
    [state : {"none", "stored"}, active : BOOLEAN, paused : BOOLEAN,
     card : {"none", "current", "former"}, next : 0..(LastDay + Interval), failed : Nat]

Edits == {"cancel", "pause", "resume"}

(* The job is running while a request works on it, and the row it has read *)
(* has the date of the next charge that is stored.                         *)
RequestOK(p) ==
    /\ req[p].at \in {"idle", "create", "dispatch"} \cup Edits \cup Working
    /\ req[p].at \in Edits => req[p].row \in Schedules /\ schedule[req[p].row].state = "stored"
    /\ req[p].at = "create" => req[p].seen.day \in 0..(LastDay + Interval)
    /\ req[p].at \in {"dispatch"} \cup Working =>
          req[p].row \in Schedules /\ req[p].seen.day \in 0..LastDay
    /\ req[p].at \in Working =>
          /\ req[p].seen \in [day : 0..LastDay, row : ScheduleRow, success : BOOLEAN]
          /\ req[p].seen.row.next = schedule[req[p].row].next
          /\ schedule[req[p].row].state = "stored"
          /\ job[<<req[p].row, req[p].seen.day>>] = "running"

RecurringRequests == DOMAIN req = Procs /\ \A p \in Procs : RequestOK(p)

RecurringTyped ==
    /\ schedule \in [Schedules -> ScheduleRow]
    /\ job \in [Schedules \X (0..LastDay) -> {"none", "waiting", "running", "done"}]
    /\ today \in 0..LastDay
    /\ charged \in [Schedules -> Int]
    /\ early \in Nat /\ faults \in 0..MaxFaults
    /\ \A s \in Schedules :
          /\ charged[s] <= today
          /\ schedule[s].active \/ schedule[s].paused => schedule[s].state = "stored"
          /\ schedule[s].state = "none" => charged[s] = -Interval
    /\ RecurringRequests

OneAtATime ==
    /\ \A p, q \in Procs : At(p, "dispatch") /\ At(q, "dispatch") => p = q
    /\ \A p, q \in Procs : req[p].at \in Working /\ req[q].at \in Working => p = q
    /\ \A s \in Schedules, d \in 0..LastDay :
          job[<<s, d>>] = "running" =>
             \E p \in Procs : req[p].at \in Working /\ req[p].row = s /\ req[p].seen.day = d

(* The jobs of s that may still charge the card. *)
IsAt(p, at, s, d) == At(p, at) /\ req[p].row = s /\ req[p].seen.day = d
OpenDays(s) ==
    {d \in 0..LastDay :
        \/ job[<<s, d>>] = "waiting"
        \/ \E p \in Procs : IsAt(p, "charge", s, d)
        \/ job[<<s, d>>] = "none" /\ \E p \in Procs : IsAt(p, "dispatch", s, d)}

Recent(s) == today < charged[s] + Interval
(* A charge that was made is about to be noted. *)
Covered(s) == \E p \in Procs : (At(p, "record") \/ At(p, "settle")) /\ req[p].row = s /\ req[p].seen.success

MayCharge == {j \in Schedules \X (0..LastDay) : j[2] \in OpenDays(j[1])}
DueAgain ==
    {s \in Schedules : OpenDays(s) = {} /\ Recent(s) /\ schedule[s].next < charged[s] + Interval /\ ~Covered(s)}
InTime == {s \in Schedules : OpenDays(s) # {} /\ ~Recent(s)}

FaultsPay == early + Cardinality(MayCharge) + Cardinality(DueAgain) <= faults + Cardinality(InTime)

RecurringInv == RecurringTyped /\ OneAtATime /\ FaultsPay

-----------------------------------------------------------------------------
(* What a step leaves alone *)

LEMMA DaysAreFinite ==
    /\ IsFiniteSet(MayCharge) /\ IsFiniteSet(DueAgain) /\ IsFiniteSet(InTime)
    /\ Cardinality(MayCharge) \in Nat /\ Cardinality(DueAgain) \in Nat /\ Cardinality(InTime) \in Nat
<1>1. IsFiniteSet(0..LastDay) /\ IsFiniteSet(Schedules)
  BY RecurringAssumption, FS_Interval
<1>2. IsFiniteSet(Schedules \X (0..LastDay))
  BY <1>1, FS_Product
<1>3. MayCharge \in SUBSET (Schedules \X (0..LastDay)) /\ DueAgain \in SUBSET Schedules
        /\ InTime \in SUBSET Schedules
  BY DEF MayCharge, DueAgain, InTime
<1>4. QED
  BY <1>1, <1>2, <1>3, Fewer

(* Every schedule but s counts as it did. *)
Steady(s) ==
    \A e \in Schedules : e # s =>
        /\ OpenDays(e)' = OpenDays(e)
        /\ Recent(e)' <=> Recent(e)
        /\ e \in DueAgain' <=> e \in DueAgain

LEMMA CountsMove ==
    ASSUME NEW s \in Schedules, NEW d \in 0..LastDay, Steady(s)
    PROVE  /\ Cardinality(MayCharge) \in Nat /\ Cardinality(MayCharge') \in Nat
           /\ Cardinality(DueAgain) \in Nat /\ Cardinality(DueAgain') \in Nat
           /\ Cardinality(InTime) \in Nat /\ Cardinality(InTime') \in Nat
           /\ OpenDays(s)' \subseteq OpenDays(s) => Cardinality(MayCharge') <= Cardinality(MayCharge)
           /\ OpenDays(s)' \subseteq OpenDays(s) \cup {d} =>
                 Cardinality(MayCharge') <= Cardinality(MayCharge) + 1
           /\ d \in OpenDays(s) /\ OpenDays(s)' \subseteq OpenDays(s) \ {d} =>
                 Cardinality(MayCharge') + 1 <= Cardinality(MayCharge)
           /\ Cardinality(DueAgain') <= Cardinality(DueAgain) + 1
           /\ (s \in DueAgain' => s \in DueAgain) => Cardinality(DueAgain') <= Cardinality(DueAgain)
           /\ s \in DueAgain /\ s \notin DueAgain' => Cardinality(DueAgain') + 1 <= Cardinality(DueAgain)
           /\ Cardinality(InTime) <= Cardinality(InTime') + 1
           /\ (s \in InTime => s \in InTime') => Cardinality(InTime) <= Cardinality(InTime')
           /\ s \in InTime' /\ s \notin InTime => Cardinality(InTime) + 1 <= Cardinality(InTime')
<1>1. IsFiniteSet(MayCharge) /\ IsFiniteSet(DueAgain) /\ IsFiniteSet(InTime)
  BY DaysAreFinite
<1>2. IsFiniteSet(InTime')
  <2>1. InTime' \in SUBSET Schedules /\ IsFiniteSet(Schedules)
    BY RecurringAssumption DEF InTime
  <2>2. QED
    BY <2>1, Fewer
<1>3. /\ MayCharge = {j \in Schedules \X (0..LastDay) : j[2] \in OpenDays(j[1])}
      /\ MayCharge' = {j \in Schedules \X (0..LastDay) : j[2] \in OpenDays(j[1])'}
  BY DEF MayCharge
<1>4. \A j \in MayCharge' : /\ j \in Schedules \X (0..LastDay)
                            /\ j[1] # s => j \in MayCharge
                            /\ j[1] = s => j[2] \in OpenDays(s)'
  BY <1>3 DEF Steady
<1>5. \A e \in 0..LastDay : <<s, e>> \in MayCharge <=> e \in OpenDays(s)
  BY <1>3
<1>6. \A j \in Schedules \X (0..LastDay) : j = <<j[1], j[2]>> /\ j[1] \in Schedules /\ j[2] \in 0..LastDay
  OBVIOUS
<1>7. ASSUME OpenDays(s)' \subseteq OpenDays(s) PROVE MayCharge' \in SUBSET MayCharge
  BY <1>4, <1>5, <1>6, <1>7
<1>8. ASSUME OpenDays(s)' \subseteq OpenDays(s) \cup {d} PROVE MayCharge' \in SUBSET (MayCharge \cup {<<s, d>>})
  BY <1>4, <1>5, <1>6, <1>8
<1>9. ASSUME OpenDays(s)' \subseteq OpenDays(s) \ {d} PROVE MayCharge' \in SUBSET (MayCharge \ {<<s, d>>})
  BY <1>4, <1>5, <1>6, <1>9
<1>10. d \in OpenDays(s) => <<s, d>> \in MayCharge
  BY <1>5
<1>11. /\ Cardinality(MayCharge) \in Nat
       /\ OpenDays(s)' \subseteq OpenDays(s) => Cardinality(MayCharge') <= Cardinality(MayCharge)
  BY <1>1, <1>7, Fewer
<1>12. OpenDays(s)' \subseteq OpenDays(s) \cup {d} => Cardinality(MayCharge') <= Cardinality(MayCharge) + 1
  BY <1>1, <1>8, OneMore
<1>13. d \in OpenDays(s) /\ OpenDays(s)' \subseteq OpenDays(s) \ {d} =>
          Cardinality(MayCharge') + 1 <= Cardinality(MayCharge)
  BY <1>1, <1>9, <1>10, OneLess
<1>14. /\ DueAgain' \in SUBSET (DueAgain \cup {s})
       /\ (s \in DueAgain' => s \in DueAgain) => DueAgain' \in SUBSET DueAgain
       /\ s \in DueAgain /\ s \notin DueAgain' => DueAgain' \in SUBSET (DueAgain \ {s})
  <2>1. DueAgain' \in SUBSET Schedules
    BY DEF DueAgain
  <2>2. QED
    BY <2>1 DEF Steady
<1>15. Cardinality(DueAgain') <= Cardinality(DueAgain) + 1 /\ Cardinality(DueAgain) \in Nat
         /\ Cardinality(DueAgain') \in Nat
  BY <1>1, <1>14, OneMore
<1>16. (s \in DueAgain' => s \in DueAgain) => Cardinality(DueAgain') <= Cardinality(DueAgain)
  BY <1>1, <1>14, Fewer
<1>17. s \in DueAgain /\ s \notin DueAgain' => Cardinality(DueAgain') + 1 <= Cardinality(DueAgain)
  BY <1>1, <1>14, OneLess
<1>18. /\ InTime \in SUBSET (InTime' \cup {s})
       /\ (s \in InTime => s \in InTime') => InTime \in SUBSET InTime'
       /\ s \in InTime' /\ s \notin InTime => InTime \in SUBSET (InTime' \ {s})
  BY DEF InTime, Steady
<1>19. Cardinality(InTime) <= Cardinality(InTime') + 1 /\ Cardinality(InTime) \in Nat
         /\ Cardinality(InTime') \in Nat
  BY <1>2, <1>18, OneMore
<1>20. (s \in InTime => s \in InTime') => Cardinality(InTime) <= Cardinality(InTime')
  BY <1>2, <1>18, Fewer
<1>21. s \in InTime' /\ s \notin InTime => Cardinality(InTime) + 1 <= Cardinality(InTime')
  BY <1>2, <1>18, OneLess
<1>22. Cardinality(MayCharge') \in Nat
  <2>1. MayCharge' \in SUBSET (Schedules \X (0..LastDay))
    BY <1>4
  <2>2. IsFiniteSet(Schedules \X (0..LastDay))
    <3>1. IsFiniteSet(0..LastDay)
      BY RecurringAssumption, FS_Interval
    <3>2. QED
      BY <3>1, RecurringAssumption, FS_Product
  <2>3. QED
    BY <2>1, <2>2, Fewer
<1>23. QED
  BY <1>11, <1>12, <1>13, <1>15, <1>16, <1>17, <1>19, <1>20, <1>21, <1>22

Nightly == {"dispatch"} \cup Working

(* p has its turn, about s if it is of the night. *)
Turn(p, s) ==
    /\ DOMAIN req' = Procs /\ \A q \in Procs : q # p => req'[q] = req[q]
    /\ RequestOK(p)'
    /\ req[p].at \in Nightly /\ req' # req => req[p].row = s
    /\ req'[p].at \in Nightly /\ req' # req => req'[p].row = s
    /\ req'[p].at = "dispatch" => req[p].at = "dispatch" \/ ~Busy({"dispatch"})
    /\ req'[p].at \in Working => req[p].at \in Working \/ ~Busy(Working)
    /\ today' = today
    /\ schedule' \in [Schedules -> ScheduleRow]
    /\ job' \in [Schedules \X (0..LastDay) -> {"none", "waiting", "running", "done"}]
    /\ charged' \in [Schedules -> Int] /\ early' \in Nat /\ faults' \in 0..MaxFaults
    /\ \A e \in Schedules : e # s =>
          /\ schedule'[e] = schedule[e] /\ charged'[e] = charged[e]
          /\ \A d \in 0..LastDay : job'[<<e, d>>] = job[<<e, d>>]
    /\ charged'[s] \in {charged[s], today}
    /\ schedule'[s].active \/ schedule'[s].paused => schedule'[s].state = "stored"
    /\ schedule'[s].state = "none" => charged'[s] = -Interval
    /\ schedule[s].state = "stored" =>
          /\ schedule'[s].state = "stored"
          /\ schedule'[s].next = schedule[s].next \/ req[p].at \in Working
    /\ \A d \in 0..LastDay :
          /\ job[<<s, d>>] = "running" => job'[<<s, d>>] = "running" \/ req[p].at \in Working
          /\ job'[<<s, d>>] = "running" =>
                \/ job[<<s, d>>] = "running" /\ ~(req[p].at \in Working /\ req[p].row = s /\ req[p].seen.day = d)
                \/ req'[p].at \in Working /\ req'[p].row = s /\ req'[p].seen.day = d

LEMMA TurnKeepsTypes ==
    ASSUME RecurringInv, NEW p \in Procs, NEW s \in Schedules, Turn(p, s)
    PROVE  RecurringTyped'
<1>1. ASSUME NEW q \in Procs, q # p PROVE RequestOK(q)'
  <2>1. RequestOK(q) /\ req'[q] = req[q]
    BY <1>1 DEF RecurringInv, RecurringTyped, RecurringRequests, Turn
  <2>2. ASSUME req[q].at \in Edits PROVE schedule'[req[q].row].state = "stored"
    BY <2>1, <2>2 DEF RequestOK, Turn
  <2>3. ASSUME req[q].at \in Working
        PROVE  /\ schedule'[req[q].row].state = "stored"
               /\ schedule'[req[q].row].next = schedule[req[q].row].next
               /\ job'[<<req[q].row, req[q].seen.day>>] = "running"
    <3>1. req[p].at \notin Working
      BY <1>1, <2>3 DEF RecurringInv, OneAtATime
    <3>2. /\ req[q].row \in Schedules /\ req[q].seen.day \in 0..LastDay
          /\ schedule[req[q].row].state = "stored"
          /\ job[<<req[q].row, req[q].seen.day>>] = "running"
      BY <2>1, <2>3 DEF RequestOK
    <3>3. CASE req[q].row = s
      BY <3>1, <3>2, <3>3 DEF Turn
    <3>4. CASE req[q].row # s
      BY <3>2, <3>4 DEF Turn
    <3>5. QED
      BY <3>3, <3>4
  <2>4. QED
    BY <2>1, <2>2, <2>3 DEF RequestOK
<1>2. RequestOK(p)' /\ DOMAIN req' = Procs
  BY DEF Turn
<1>3. \A q \in Procs : RequestOK(q)'
  BY <1>1, <1>2
<1>4. ASSUME NEW e \in Schedules
      PROVE  /\ charged'[e] <= today'
             /\ schedule'[e].active \/ schedule'[e].paused => schedule'[e].state = "stored"
             /\ schedule'[e].state = "none" => charged'[e] = -Interval
  <2>1. /\ charged[e] <= today /\ today \in Int
        /\ schedule[e].active \/ schedule[e].paused => schedule[e].state = "stored"
        /\ schedule[e].state = "none" => charged[e] = -Interval
    BY DEF RecurringInv, RecurringTyped
  <2>2. QED
    BY <2>1 DEF Turn
<1>5. QED
  BY <1>2, <1>3, <1>4 DEF RecurringTyped, RecurringRequests, RecurringInv, Turn

LEMMA TurnKeepsOrder ==
    ASSUME RecurringInv, NEW p \in Procs, NEW s \in Schedules, Turn(p, s)
    PROVE  OneAtATime'
<1>1. ASSUME NEW q \in Procs, NEW r \in Procs, At(q, "dispatch")', At(r, "dispatch")' PROVE q = r
  BY <1>1 DEF RecurringInv, OneAtATime, Turn, At, Busy
<1>2. ASSUME NEW q \in Procs, NEW r \in Procs, req'[q].at \in Working, req'[r].at \in Working PROVE q = r
  BY <1>2 DEF RecurringInv, OneAtATime, Turn, Busy
<1>3. ASSUME NEW e \in Schedules, NEW d \in 0..LastDay, job'[<<e, d>>] = "running"
      PROVE  \E q \in Procs : req'[q].at \in Working /\ req'[q].row = e /\ req'[q].seen.day = d
  <2>1. CASE req'[p].at \in Working /\ req'[p].row = e /\ req'[p].seen.day = d
    BY <2>1
  <2>2. CASE ~(req'[p].at \in Working /\ req'[p].row = e /\ req'[p].seen.day = d)
    <3>1. /\ job[<<e, d>>] = "running"
          /\ e = s => ~(req[p].at \in Working /\ req[p].row = s /\ req[p].seen.day = d)
      BY <1>3, <2>2 DEF Turn
    <3>2. PICK q \in Procs : req[q].at \in Working /\ req[q].row = e /\ req[q].seen.day = d
      BY <3>1 DEF RecurringInv, OneAtATime
    <3>3. q # p
      BY <2>2, <3>1, <3>2 DEF Turn, Nightly
    <3>4. QED
      BY <3>2, <3>3 DEF Turn
  <2>3. QED
    BY <2>1, <2>2
<1>4. QED
  BY <1>1, <1>2, <1>3 DEF OneAtATime, At

LEMMA TurnIsSteady ==
    ASSUME RecurringInv, NEW p \in Procs, NEW s \in Schedules, Turn(p, s)
    PROVE  Steady(s)
<1> SUFFICES ASSUME NEW e \in Schedules, e # s
             PROVE  /\ OpenDays(e)' = OpenDays(e) /\ (Recent(e)' <=> Recent(e))
                    /\ e \in DueAgain' <=> e \in DueAgain
  BY DEF Steady
<1>1. /\ \A q \in Procs : \A d, at : at \in Nightly => (IsAt(q, at, e, d)' <=> IsAt(q, at, e, d))
      /\ \A d \in 0..LastDay : job'[<<e, d>>] = job[<<e, d>>]
  BY DEF Turn, IsAt, At, Nightly
<1>2. "charge" \in Nightly /\ "dispatch" \in Nightly
  BY DEF Nightly, Working
<1>3. /\ \A q \in Procs, d \in 0..LastDay : (IsAt(q, "charge", e, d)' <=> IsAt(q, "charge", e, d))
      /\ \A q \in Procs, d \in 0..LastDay : (IsAt(q, "dispatch", e, d)' <=> IsAt(q, "dispatch", e, d))
  BY <1>1, <1>2
<1>4. OpenDays(e)' = OpenDays(e)
  BY <1>1, <1>3 DEF OpenDays
<1>5. Covered(e)' <=> Covered(e)
  BY DEF Covered, Turn, At, Nightly, Working
<1>6. schedule'[e] = schedule[e] /\ charged'[e] = charged[e] /\ today' = today
  BY DEF Turn
<1>7. QED
  BY <1>4, <1>5, <1>6 DEF Recent, DueAgain

LEMMA PendingIs ==
    ASSUME RecurringInv, NEW p \in Procs, NEW s \in Schedules, Turn(p, s), NEW d \in 0..LastDay
    PROVE  /\ d \in OpenDays(s) <=>
                 \/ job[<<s, d>>] = "waiting"
                 \/ IsAt(p, "charge", s, d) \/ \E q \in Procs \ {p} : IsAt(q, "charge", s, d)
                 \/ /\ job[<<s, d>>] = "none"
                    /\ IsAt(p, "dispatch", s, d) \/ \E q \in Procs \ {p} : IsAt(q, "dispatch", s, d)
           /\ d \in OpenDays(s)' <=>
                 \/ job'[<<s, d>>] = "waiting"
                 \/ IsAt(p, "charge", s, d)' \/ \E q \in Procs \ {p} : IsAt(q, "charge", s, d)
                 \/ /\ job'[<<s, d>>] = "none"
                    /\ IsAt(p, "dispatch", s, d)' \/ \E q \in Procs \ {p} : IsAt(q, "dispatch", s, d)
           /\ req[p].at \in Working \/ ~Busy(Working) => ~\E q \in Procs \ {p} : IsAt(q, "charge", s, d)
           /\ At(p, "dispatch") \/ ~Busy({"dispatch"}) => ~\E q \in Procs \ {p} : IsAt(q, "dispatch", s, d)
<1>1. \A q \in Procs \ {p} : /\ IsAt(q, "charge", s, d)' <=> IsAt(q, "charge", s, d)
                            /\ IsAt(q, "dispatch", s, d)' <=> IsAt(q, "dispatch", s, d)
  BY DEF Turn, IsAt, At
<1>2. req[p].at \in Working \/ ~Busy(Working) => ~\E q \in Procs \ {p} : IsAt(q, "charge", s, d)
  BY DEF RecurringInv, OneAtATime, Busy, IsAt, At, Working
<1>3. At(p, "dispatch") \/ ~Busy({"dispatch"}) => ~\E q \in Procs \ {p} : IsAt(q, "dispatch", s, d)
  BY DEF RecurringInv, OneAtATime, Busy, IsAt, At
<1>4. \A at : /\ (\E q \in Procs : IsAt(q, at, s, d)) <=>
                     IsAt(p, at, s, d) \/ \E q \in Procs \ {p} : IsAt(q, at, s, d)
             /\ (\E q \in Procs : IsAt(q, at, s, d)') <=>
                     IsAt(p, at, s, d)' \/ \E q \in Procs \ {p} : IsAt(q, at, s, d)'
  OBVIOUS
<1>5. d \in OpenDays(s) <=>
          \/ job[<<s, d>>] = "waiting"
          \/ \E q \in Procs : IsAt(q, "charge", s, d)
          \/ job[<<s, d>>] = "none" /\ \E q \in Procs : IsAt(q, "dispatch", s, d)
  BY DEF OpenDays
<1>6. d \in OpenDays(s)' <=>
          \/ job'[<<s, d>>] = "waiting"
          \/ \E q \in Procs : IsAt(q, "charge", s, d)'
          \/ job'[<<s, d>>] = "none" /\ \E q \in Procs : IsAt(q, "dispatch", s, d)'
  BY DEF OpenDays
<1>7. d \in OpenDays(s) <=>
          \/ job[<<s, d>>] = "waiting"
          \/ IsAt(p, "charge", s, d) \/ \E q \in Procs \ {p} : IsAt(q, "charge", s, d)
          \/ /\ job[<<s, d>>] = "none"
             /\ IsAt(p, "dispatch", s, d) \/ \E q \in Procs \ {p} : IsAt(q, "dispatch", s, d)
  BY <1>4, <1>5
<1>8. d \in OpenDays(s)' <=>
          \/ job'[<<s, d>>] = "waiting"
          \/ IsAt(p, "charge", s, d)' \/ \E q \in Procs \ {p} : IsAt(q, "charge", s, d)'
          \/ /\ job'[<<s, d>>] = "none"
             /\ IsAt(p, "dispatch", s, d)' \/ \E q \in Procs \ {p} : IsAt(q, "dispatch", s, d)'
  BY <1>4, <1>6
<1>9. /\ (\E q \in Procs \ {p} : IsAt(q, "charge", s, d)') <=> \E q \in Procs \ {p} : IsAt(q, "charge", s, d)
      /\ (\E q \in Procs \ {p} : IsAt(q, "dispatch", s, d)') <=> \E q \in Procs \ {p} : IsAt(q, "dispatch", s, d)
  BY DEF Turn, IsAt, At
<1>10. QED
  BY <1>2, <1>3, <1>7, <1>8, <1>9

(* A noted charge in the hands of p, or of nobody. *)
LEMMA CoveredIs ==
    ASSUME RecurringInv, NEW p \in Procs, NEW s \in Schedules, Turn(p, s)
    PROVE  /\ req'[p].at \in {"record", "settle"} /\ req'[p].row = s /\ req'[p].seen.success => Covered(s)'
           /\ req[p].at \in Working =>
                 (Covered(s) <=> req[p].at \in {"record", "settle"} /\ req[p].row = s /\ req[p].seen.success)
           /\ req[p].at \notin Working /\ req'[p].at \notin Working => (Covered(s)' <=> Covered(s))
BY DEF RecurringInv, OneAtATime, Turn, Covered, At, Working

LEMMA RecurringMoves ==
    ASSUME RecurringInv, NEW p \in Procs
    PROVE  /\ \A at, row, seen : Begins(p, at, row, seen) =>
                 /\ DOMAIN req' = Procs /\ \A q \in Procs : q # p => req'[q] = req[q]
                 /\ req[p].at = "idle" /\ req'[p].at = at /\ req'[p].row = row /\ req'[p].seen = seen
           /\ \A at, success : NowAt(p, at, success) =>
                 /\ DOMAIN req' = Procs /\ \A q \in Procs : q # p => req'[q] = req[q]
                 /\ req'[p].at = at /\ req'[p].row = req[p].row
                 /\ req'[p].seen = Read(req[p].seen.day, req[p].seen.row, success)
           /\ Ends(p) =>
                 /\ DOMAIN req' = Procs /\ \A q \in Procs : q # p => req'[q] = req[q]
                 /\ req'[p].at = "idle"
BY DEF RecurringInv, RecurringTyped, RecurringRequests, Begins, NowAt, Ends, Idle, NoRequest

LEMMA ReadIs ==
    ASSUME NEW d, NEW row, NEW success
    PROVE  Read(d, row, success).day = d /\ Read(d, row, success).row = row
             /\ Read(d, row, success).success = success
BY DEF Read

(* The numbers, and the row and the jobs of a schedule *)
LEMMA NumbersAre ==
    ASSUME RecurringInv, NEW s \in Schedules
    PROVE  /\ LastDay \in Nat /\ Interval \in Nat \ {0} /\ MaxFaults \in Nat
           /\ today \in 0..LastDay /\ charged[s] \in Int /\ charged[s] <= today
           /\ early \in Nat /\ faults \in 0..MaxFaults
           /\ schedule[s] \in ScheduleRow /\ schedule[s].next \in Nat
           /\ \A d \in 0..LastDay : job[<<s, d>>] \in {"none", "waiting", "running", "done"}
BY RecurringAssumption DEF RecurringInv, RecurringTyped, ScheduleRow

-----------------------------------------------------------------------------
(* Edits *)

LEMMA EditHolds ==
    ASSUME RecurringInv, NEW p \in Procs, NEW s \in Schedules, Turn(p, s),
           req[p].at \notin Nightly, req'[p].at \notin Nightly,
           UNCHANGED <<job, charged, early, faults>>,
           schedule'[s].next = schedule[s].next \/ ~Recent(s)
    PROVE  RecurringInv'
<1>1. Steady(s)
  BY TurnIsSteady
<1>2. 0 \in 0..LastDay
  BY RecurringAssumption
<1>3. OpenDays(s)' = OpenDays(s)
  BY PendingIs DEF IsAt, At, Nightly, Working, OpenDays
<1>4. today' = today /\ (Recent(s)' <=> Recent(s))
  BY DEF Turn, Recent
<1>5. Covered(s)' <=> Covered(s)
  BY CoveredIs DEF Nightly
<1>6. (s \in DueAgain' <=> s \in DueAgain) /\ (s \in InTime' <=> s \in InTime)
  BY <1>3, <1>4, <1>5 DEF DueAgain, InTime, Recent
<1>7. FaultsPay'
  BY <1>1, <1>2, <1>3, <1>6, CountsMove, NumbersAre DEF RecurringInv, FaultsPay
<1>8. QED
  BY <1>7, TurnKeepsTypes, TurnKeepsOrder DEF RecurringInv

LEMMA QuietHolds ==
    ASSUME RecurringInv, NEW p \in Procs,
           DOMAIN req' = Procs, \A q \in Procs : q # p => req'[q] = req[q], RequestOK(p)',
           req[p].at \notin Nightly, req'[p].at \notin Nightly,
           UNCHANGED <<schedule, job, today, charged, early, faults>>
    PROVE  RecurringInv'
<1>1. \A q \in Procs : RequestOK(q)'
  BY DEF RecurringInv, RecurringTyped, RecurringRequests, RequestOK
<1>2. RecurringTyped'
  BY <1>1 DEF RecurringInv, RecurringTyped, RecurringRequests
<1>3. OneAtATime'
  BY DEF RecurringInv, OneAtATime, At, Nightly
<1>4. ASSUME NEW s \in Schedules
      PROVE  /\ OpenDays(s)' = OpenDays(s) /\ (Recent(s)' <=> Recent(s)) /\ (Covered(s)' <=> Covered(s))
  <2>1. \A q \in Procs, d \in 0..LastDay :
            /\ IsAt(q, "charge", s, d)' <=> IsAt(q, "charge", s, d)
            /\ IsAt(q, "dispatch", s, d)' <=> IsAt(q, "dispatch", s, d)
    BY DEF IsAt, At, Nightly, Working
  <2>2. OpenDays(s)' = OpenDays(s)
    BY <2>1 DEF OpenDays
  <2>3. Covered(s)' <=> Covered(s)
    BY DEF Covered, At, Nightly, Working
  <2>4. QED
    BY <2>2, <2>3 DEF Recent
<1>5. MayCharge' = MayCharge /\ DueAgain' = DueAgain /\ InTime' = InTime
  <2>1. MayCharge' = {j \in Schedules \X (0..LastDay) : j[2] \in OpenDays(j[1])'}
    BY DEF MayCharge
  <2>2. MayCharge' = MayCharge
    BY <1>4, <2>1 DEF MayCharge
  <2>3. QED
    BY <1>4, <2>2 DEF DueAgain, InTime, Recent
<1>6. FaultsPay'
  BY <1>5 DEF RecurringInv, FaultsPay
<1>7. QED
  BY <1>2, <1>3, <1>6 DEF RecurringInv

LEMMA OutsideHolds ==
    ASSUME RecurringInv, UNCHANGED <<job, charged, early, faults, req>>,
           today' \in {today, today + 1}, today' <= LastDay,
           schedule' \in [Schedules -> ScheduleRow],
           \A s \in Schedules : /\ schedule'[s].state = schedule[s].state
                                /\ schedule'[s].next = schedule[s].next
                                /\ schedule'[s].active = schedule[s].active
                                /\ schedule'[s].paused = schedule[s].paused
    PROVE  RecurringInv'
<1>1. today \in 0..LastDay /\ LastDay \in Nat /\ today' \in 0..LastDay /\ today <= today'
  BY RecurringAssumption DEF RecurringInv, RecurringTyped
<1>2. \A q \in Procs : RequestOK(q)'
  BY DEF RecurringInv, RecurringTyped, RecurringRequests, RequestOK, Nightly, Working
<1>3. RecurringTyped'
  <2>1. ASSUME NEW s \in Schedules
        PROVE  /\ charged'[s] <= today'
               /\ schedule'[s].active \/ schedule'[s].paused => schedule'[s].state = "stored"
               /\ schedule'[s].state = "none" => charged'[s] = -Interval
    BY <1>1, NumbersAre DEF RecurringInv, RecurringTyped
  <2>2. QED
    BY <1>1, <1>2, <2>1 DEF RecurringInv, RecurringTyped, RecurringRequests
<1>4. OneAtATime'
  BY DEF RecurringInv, OneAtATime, At
<1>5. ASSUME NEW s \in Schedules
      PROVE  OpenDays(s)' = OpenDays(s) /\ (Recent(s)' => Recent(s)) /\ (Covered(s)' <=> Covered(s))
  <2>1. OpenDays(s)' = OpenDays(s) /\ (Covered(s)' <=> Covered(s))
    BY DEF OpenDays, IsAt, At, Covered
  <2>2. QED
    BY <1>1, <2>1, NumbersAre DEF Recent
<1>6. MayCharge' = MayCharge /\ DueAgain' \in SUBSET DueAgain /\ InTime \in SUBSET InTime'
  <2>1. MayCharge' = {j \in Schedules \X (0..LastDay) : j[2] \in OpenDays(j[1])'}
    BY DEF MayCharge
  <2>2. MayCharge' = MayCharge
    BY <1>5, <2>1 DEF MayCharge
  <2>3. QED
    BY <1>5, <2>2 DEF DueAgain, InTime
<1>7. FaultsPay'
  <2>1. IsFiniteSet(InTime')
    <3>1. InTime' \in SUBSET Schedules
      BY DEF InTime
    <3>2. QED
      BY <3>1, Fewer, RecurringAssumption
  <2>2. /\ Cardinality(DueAgain') <= Cardinality(DueAgain) /\ Cardinality(DueAgain') \in Nat
    BY <1>6, DaysAreFinite, Fewer
  <2>3. /\ Cardinality(InTime) <= Cardinality(InTime') /\ Cardinality(InTime') \in Nat
    BY <1>6, <2>1, Fewer
  <2>4. early \in Nat /\ faults \in Nat
    BY RecurringAssumption DEF RecurringInv, RecurringTyped
  <2>5. QED
    BY <1>6, <2>2, <2>3, <2>4, DaysAreFinite DEF RecurringInv, FaultsPay
<1>8. QED
  BY <1>3, <1>4, <1>7 DEF RecurringInv

LEMMA InsertScheduleHolds ==
    ASSUME RecurringInv, NEW p \in Procs, NEW s \in Schedules, InsertSchedule(p, s)
    PROVE  RecurringInv'
<1>1. /\ DOMAIN req' = Procs /\ \A q \in Procs : q # p => req'[q] = req[q]
      /\ req[p].at = "create" /\ req'[p].at = "idle"
  BY RecurringMoves DEF InsertSchedule, At
<1>2. UNCHANGED <<job, today, charged, early, faults>> /\ schedule[s].state = "none"
  BY DEF InsertSchedule
<1>3. /\ schedule' \in [Schedules -> ScheduleRow] /\ schedule'[s].state = "stored"
      /\ \A e \in Schedules : e # s => schedule'[e] = schedule[e]
  <2> DEFINE new == [state |-> "stored", active |-> TRUE, paused |-> FALSE, card |-> "none",
                     next |-> req[p].seen.day, failed |-> 0]
  <2>1. req[p].seen.day \in 0..(LastDay + Interval)
    BY <1>1 DEF RecurringInv, RecurringTyped, RecurringRequests, RequestOK
  <2>2. new \in ScheduleRow /\ new.state = "stored"
    BY <2>1 DEF ScheduleRow
  <2>3. schedule' = [schedule EXCEPT ![s] = new]
    BY DEF InsertSchedule
  <2> HIDE DEF new
  <2>4. QED
    BY <2>2, <2>3 DEF RecurringInv, RecurringTyped
<1>4. RequestOK(p)'
  BY <1>1 DEF RequestOK, Edits, Working
<1>5. Turn(p, s)
  BY <1>1, <1>2, <1>3, <1>4 DEF Turn, RecurringInv, RecurringTyped, Nightly, Working
<1>6. ~Recent(s)
  <2>1. charged[s] = -Interval
    BY <1>2 DEF RecurringInv, RecurringTyped
  <2>2. QED
    BY <2>1, NumbersAre DEF Recent
<1>7. QED
  BY <1>1, <1>2, <1>5, <1>6, EditHolds DEF Nightly, Working

LEMMA CancelHolds ==
    ASSUME RecurringInv, NEW p \in Procs, Cancel(p)
    PROVE  RecurringInv'
<1>1. PICK s \in Schedules : s = req[p].row /\ schedule[s].state = "stored"
  BY DEF Cancel, At, RecurringInv, RecurringTyped, RecurringRequests, RequestOK, Edits
<1>2. /\ DOMAIN req' = Procs /\ \A q \in Procs : q # p => req'[q] = req[q]
      /\ req[p].at = "cancel" /\ req'[p].at = "idle"
  BY RecurringMoves DEF Cancel, At
<1>3. UNCHANGED <<job, today, charged, early, faults>>
  BY DEF Cancel
<1>4. /\ schedule' \in [Schedules -> ScheduleRow] /\ schedule'[s].state = "stored"
      /\ schedule'[s].next = schedule[s].next
      /\ \A e \in Schedules : e # s => schedule'[e] = schedule[e]
  <2> DEFINE new == [schedule[s] EXCEPT !.active = FALSE, !.paused = FALSE]
  <2>1. new \in ScheduleRow /\ new.state = schedule[s].state /\ new.next = schedule[s].next
    BY NumbersAre DEF ScheduleRow
  <2>2. schedule' = [schedule EXCEPT ![s] = new]
    BY <1>1 DEF Cancel, RecurringInv, RecurringTyped
  <2> HIDE DEF new
  <2>3. QED
    BY <1>1, <2>1, <2>2 DEF RecurringInv, RecurringTyped
<1>5. RequestOK(p)'
  BY <1>2 DEF RequestOK, Edits, Working
<1>6. Turn(p, s)
  BY <1>1, <1>2, <1>3, <1>4, <1>5 DEF Turn, RecurringInv, RecurringTyped, Nightly, Working
<1>7. QED
  BY <1>2, <1>3, <1>4, <1>6, EditHolds DEF Nightly, Working

LEMMA PauseOrResumeHolds ==
    ASSUME RecurringInv, NEW p \in Procs, PauseOrResume(p)
    PROVE  RecurringInv'
<1>1. PICK s \in Schedules : s = req[p].row /\ schedule[s].state = "stored"
  BY DEF PauseOrResume, At, RecurringInv, RecurringTyped, RecurringRequests, RequestOK, Edits
<1>2. /\ DOMAIN req' = Procs /\ \A q \in Procs : q # p => req'[q] = req[q]
      /\ req[p].at \in {"pause", "resume"} /\ req'[p].at = "idle"
  BY RecurringMoves DEF PauseOrResume, At
<1>3. UNCHANGED <<job, today, charged, early, faults>>
  BY DEF PauseOrResume
<1>4. /\ schedule' \in [Schedules -> ScheduleRow] /\ schedule'[s].state = "stored"
      /\ schedule'[s].next = schedule[s].next
      /\ \A e \in Schedules : e # s => schedule'[e] = schedule[e]
  <2> DEFINE on == At(p, "resume")
             off == At(p, "pause")
             new == [schedule[s] EXCEPT !.active = on, !.paused = off]
  <2>1. on \in BOOLEAN /\ off \in BOOLEAN
    BY DEF At
  <2>2. schedule' = [schedule EXCEPT ![s] = new]
    BY <1>1 DEF PauseOrResume, RecurringInv, RecurringTyped
  <2> HIDE DEF on, off
  <2>3. new \in ScheduleRow /\ new.state = schedule[s].state /\ new.next = schedule[s].next
    BY <2>1, NumbersAre DEF ScheduleRow
  <2> HIDE DEF new
  <2>4. QED
    BY <1>1, <2>2, <2>3 DEF RecurringInv, RecurringTyped
<1>5. RequestOK(p)'
  BY <1>2 DEF RequestOK, Edits, Working
<1>6. Turn(p, s)
  BY <1>1, <1>2, <1>3, <1>4, <1>5 DEF Turn, RecurringInv, RecurringTyped, Nightly, Working
<1>7. QED
  BY <1>2, <1>3, <1>4, <1>6, EditHolds DEF Nightly, Working

LEMMA BeginningsHold ==
    ASSUME RecurringInv, NEW p \in Procs,
           \/ CreateRecurringGiving(p)
           \/ \E s \in Schedules :
                 CancelRecurringGiving(p, s) \/ PauseRecurringGiving(p, s) \/ ResumeRecurringGiving(p, s)
    PROVE  RecurringInv'
<1>1. CASE CreateRecurringGiving(p)
  <2> DEFINE seen == Read(today + Interval, NoSchedule, FALSE)
  <2>0. Begins(p, "create", None, seen) /\ seen.day = today + Interval
    <3>1. Begins(p, "create", None, seen)
      BY <1>1 DEF CreateRecurringGiving
    <3>2. seen.day = today + Interval
      BY DEF Read
    <3>3. QED
      BY <3>1, <3>2
  <2> HIDE DEF seen
  <2>1. /\ DOMAIN req' = Procs /\ \A q \in Procs : q # p => req'[q] = req[q]
        /\ req[p].at = "idle" /\ req'[p].at = "create" /\ req'[p].seen = seen
    BY <2>0, RecurringMoves
  <2>2. today + Interval \in 0..(LastDay + Interval)
    BY RecurringAssumption DEF RecurringInv, RecurringTyped
  <2>3. RequestOK(p)'
    BY <2>0, <2>1, <2>2 DEF RequestOK, Edits, Working
  <2>4. QED
    BY <1>1, <2>1, <2>3, QuietHolds DEF CreateRecurringGiving, Nightly, Working
<1>2. ASSUME NEW s \in Schedules,
             CancelRecurringGiving(p, s) \/ PauseRecurringGiving(p, s) \/ ResumeRecurringGiving(p, s)
      PROVE  RecurringInv'
  <2>1. PICK at \in Edits : Begins(p, at, s, None)
    BY <1>2 DEF CancelRecurringGiving, PauseRecurringGiving, ResumeRecurringGiving, Edits
  <2>2. /\ DOMAIN req' = Procs /\ \A q \in Procs : q # p => req'[q] = req[q]
        /\ req[p].at = "idle" /\ req'[p].at = at /\ req'[p].row = s
    BY <2>1, RecurringMoves
  <2>3. schedule[s].state = "stored" /\ UNCHANGED <<schedule, job, today, charged, early, faults>>
    BY <1>2 DEF CancelRecurringGiving, PauseRecurringGiving, ResumeRecurringGiving, RecurringInv,
       RecurringTyped
  <2>4. RequestOK(p)'
    BY <2>2, <2>3 DEF RequestOK, Edits, Working
  <2>5. QED
    BY <2>2, <2>3, <2>4, QuietHolds DEF Nightly, Working, Edits
<1>3. QED
  BY <1>1, <1>2

-----------------------------------------------------------------------------
(* How faults pay *)

LEMMA OpenDaysAre == ASSUME NEW s PROVE OpenDays(s) \subseteq 0..LastDay /\ OpenDays(s)' \subseteq 0..LastDay
BY DEF OpenDays

LEMMA NothingPending ==
    ASSUME RecurringInv, NEW p \in Procs, NEW s \in Schedules, Turn(p, s), NEW d \in 0..LastDay,
           OpenDays(s)' = OpenDays(s), Recent(s)' <=> Recent(s), s \in DueAgain' => s \in DueAgain,
           early' = early, faults <= faults'
    PROVE  RecurringInv'
<1>1. (s \in InTime' <=> s \in InTime) /\ faults' \in 0..MaxFaults
  BY DEF InTime, Turn
<1>2. FaultsPay'
  BY <1>1, TurnIsSteady, CountsMove, NumbersAre DEF RecurringInv, FaultsPay
<1>3. QED
  BY <1>2, TurnKeepsTypes, TurnKeepsOrder DEF RecurringInv

LEMMA Dropped ==
    ASSUME RecurringInv, NEW p \in Procs, NEW s \in Schedules, Turn(p, s), NEW d \in 0..LastDay,
           d \in OpenDays(s), OpenDays(s)' \subseteq OpenDays(s) \ {d}, Recent(s)' <=> Recent(s),
           early' = early, faults' = faults
    PROVE  RecurringInv'
<1>1. \/ s \notin InTime
      \/ s \notin DueAgain'
  BY DEF InTime, DueAgain
<1>2. /\ Cardinality(MayCharge) \in Nat /\ Cardinality(MayCharge') \in Nat
      /\ Cardinality(DueAgain) \in Nat /\ Cardinality(DueAgain') \in Nat
      /\ Cardinality(InTime) \in Nat /\ Cardinality(InTime') \in Nat
      /\ Cardinality(MayCharge') + 1 <= Cardinality(MayCharge)
      /\ Cardinality(DueAgain') <= Cardinality(DueAgain) + 1
      /\ s \notin DueAgain' => Cardinality(DueAgain') <= Cardinality(DueAgain)
      /\ Cardinality(InTime) <= Cardinality(InTime') + 1
      /\ s \notin InTime => Cardinality(InTime) <= Cardinality(InTime')
  BY TurnIsSteady, CountsMove
<1>3. FaultsPay'
  BY <1>1, <1>2, NumbersAre DEF RecurringInv, FaultsPay
<1>4. QED
  BY <1>3, TurnKeepsTypes, TurnKeepsOrder DEF RecurringInv

LEMMA PaidFor ==
    ASSUME RecurringInv, NEW p \in Procs, NEW s \in Schedules, Turn(p, s), NEW d \in 0..LastDay,
           OpenDays(s) \subseteq OpenDays(s)', OpenDays(s)' \subseteq OpenDays(s) \cup {d},
           Recent(s)' <=> Recent(s), s \in DueAgain' => s \in DueAgain,
           early' = early, faults' = faults + 1
    PROVE  RecurringInv'
<1>1. s \in InTime => s \in InTime'
  BY DEF InTime
<1>2. FaultsPay'
  BY <1>1, TurnIsSteady, CountsMove, NumbersAre DEF RecurringInv, FaultsPay
<1>3. QED
  BY <1>2, TurnKeepsTypes, TurnKeepsOrder DEF RecurringInv

-----------------------------------------------------------------------------
(* The night *)

LEMMA DispatchHolds ==
    ASSUME RecurringInv, NEW p \in Procs, NEW s \in Schedules, DispatchRecurringCharges(p, s)
    PROVE  RecurringInv'
<1> DEFINE d == today
<1> DEFINE seen == Read(today, NoSchedule, FALSE)
<1>0. Begins(p, "dispatch", s, seen) /\ seen.day = today
  <2>1. Begins(p, "dispatch", s, seen)
    BY DEF DispatchRecurringCharges
  <2>2. seen.day = today
    BY DEF Read
  <2>3. QED
    BY <2>1, <2>2
<1> HIDE DEF seen
<1>1. /\ DOMAIN req' = Procs /\ \A q \in Procs : q # p => req'[q] = req[q]
      /\ req[p].at = "idle" /\ req'[p].at = "dispatch" /\ req'[p].row = s
      /\ req'[p].seen = seen
  BY <1>0, RecurringMoves
<1>2. req'[p].seen.day = d /\ d \in 0..LastDay
  BY <1>0, <1>1, NumbersAre
<1>3. /\ UNCHANGED <<schedule, job, today, charged, early>>
      /\ faults' = (IF Unfinished(s) THEN faults + 1 ELSE faults) /\ faults' \in 0..MaxFaults
      /\ ~Busy({"dispatch"}) /\ schedule[s].next <= today
  BY NumbersAre DEF DispatchRecurringCharges, Count
<1>4. RequestOK(p)'
  BY <1>1, <1>2 DEF RequestOK, Edits, Working
<1>5. Turn(p, s)
  BY <1>1, <1>3, <1>4 DEF Turn, RecurringInv, RecurringTyped, Nightly, Working
<1>6. (Recent(s)' <=> Recent(s)) /\ (Covered(s)' <=> Covered(s))
  BY <1>1, <1>3, <1>5, CoveredIs DEF Recent, Working
<1>7. \A e \in 0..LastDay : e \in OpenDays(s)' <=> e \in OpenDays(s) \/ (e = d /\ job[<<s, e>>] = "none")
  BY <1>1, <1>2, <1>3, <1>5, PendingIs DEF IsAt, At
<1>8. /\ OpenDays(s) \subseteq OpenDays(s)' /\ OpenDays(s)' \subseteq OpenDays(s) \cup {d}
      /\ job[<<s, d>>] # "none" => OpenDays(s)' = OpenDays(s)
      /\ job[<<s, d>>] = "none" => d \in OpenDays(s)'
  BY <1>2, <1>7, OpenDaysAre
<1>9. s \in DueAgain' => s \in DueAgain
  BY <1>3, <1>6, <1>8 DEF DueAgain, Recent
<1>10. CASE Unfinished(s)
  BY <1>2, <1>3, <1>5, <1>6, <1>8, <1>9, <1>10, PaidFor
<1>11. CASE ~Unfinished(s) /\ job[<<s, d>>] # "none"
  BY <1>2, <1>3, <1>5, <1>6, <1>8, <1>9, <1>11, NothingPending, NumbersAre
<1>12. CASE ~Unfinished(s) /\ job[<<s, d>>] = "none"
  <2>1. \A q \in Procs : req[q].at \in Working => req[q].row # s
    BY <1>12 DEF RecurringInv, RecurringTyped, RecurringRequests, RequestOK, Unfinished
  <2>2. OpenDays(s) = {} /\ ~Covered(s)
    <3>1. ~Covered(s)
      BY <2>1 DEF Covered, At, Working
    <3>2. \A e \in 0..LastDay : e \notin OpenDays(s)
      BY <1>3, <1>12, <2>1 DEF OpenDays, Unfinished, IsAt, At, Working, Busy
    <3>3. QED
      BY <3>1, <3>2, OpenDaysAre
  <2>3. d \in OpenDays(s)' /\ s \notin DueAgain' /\ s \notin InTime
    BY <1>8, <1>12, <2>2 DEF DueAgain, InTime
  <2>4. /\ Recent(s) => s \in DueAgain
        /\ ~Recent(s) => s \in InTime'
    BY <1>3, <1>6, <2>2, <2>3, NumbersAre DEF DueAgain, InTime, Recent
  <2>5. /\ Cardinality(MayCharge) \in Nat /\ Cardinality(MayCharge') \in Nat
        /\ Cardinality(DueAgain) \in Nat /\ Cardinality(DueAgain') \in Nat
        /\ Cardinality(InTime) \in Nat /\ Cardinality(InTime') \in Nat
        /\ Cardinality(MayCharge') <= Cardinality(MayCharge) + 1
        /\ Cardinality(DueAgain') <= Cardinality(DueAgain)
        /\ Recent(s) => Cardinality(DueAgain') + 1 <= Cardinality(DueAgain)
        /\ Cardinality(InTime) <= Cardinality(InTime')
        /\ ~Recent(s) => Cardinality(InTime) + 1 <= Cardinality(InTime')
    BY <1>2, <1>5, <1>8, <2>3, <2>4, TurnIsSteady, CountsMove
  <2>6. FaultsPay'
    BY <1>3, <1>12, <2>5, NumbersAre DEF RecurringInv, FaultsPay
  <2>7. QED
    BY <1>5, <2>6, TurnKeepsTypes, TurnKeepsOrder DEF RecurringInv
<1>13. QED
  BY <1>10, <1>11, <1>12

LEMMA AddJobHolds ==
    ASSUME RecurringInv, NEW p \in Procs, AddJob(p)
    PROVE  RecurringInv'
<1>1. PICK s \in Schedules, d \in 0..LastDay : s = req[p].row /\ d = req[p].seen.day
  BY DEF AddJob, At, RecurringInv, RecurringTyped, RecurringRequests, RequestOK
<1>2. /\ DOMAIN req' = Procs /\ \A q \in Procs : q # p => req'[q] = req[q]
      /\ req[p].at = "dispatch" /\ req'[p].at = "idle"
  BY RecurringMoves DEF AddJob, At
<1>3. /\ UNCHANGED <<schedule, today, charged, early, faults>>
      /\ job' = IF job[<<s, d>>] = "none" THEN [job EXCEPT ![<<s, d>>] = "waiting"] ELSE job
  BY <1>1 DEF AddJob
<1>4. /\ job' \in [Schedules \X (0..LastDay) -> {"none", "waiting", "running", "done"}]
      /\ job'[<<s, d>>] = IF job[<<s, d>>] = "none" THEN "waiting" ELSE job[<<s, d>>]
      /\ \A e \in Schedules, f \in 0..LastDay : e # s \/ f # d => job'[<<e, f>>] = job[<<e, f>>]
  BY <1>3 DEF RecurringInv, RecurringTyped
<1>5. RequestOK(p)'
  BY <1>2 DEF RequestOK, Edits, Working
<1>6. Turn(p, s)
  BY <1>1, <1>2, <1>3, <1>4, <1>5 DEF Turn, RecurringInv, RecurringTyped, Nightly, Working
<1>7. (Recent(s)' <=> Recent(s)) /\ (Covered(s)' <=> Covered(s))
  BY <1>2, <1>3, <1>6, CoveredIs DEF Recent, Working
<1>8. ASSUME NEW e \in 0..LastDay PROVE e \in OpenDays(s)' <=> e \in OpenDays(s)
  <2>1. /\ ~IsAt(p, "charge", s, e) /\ ~IsAt(p, "charge", s, e)' /\ ~IsAt(p, "dispatch", s, e)'
        /\ IsAt(p, "dispatch", s, e) <=> e = d
        /\ At(p, "dispatch")
    BY <1>1, <1>2 DEF IsAt, At
  <2>2. CASE e = d
    BY <1>4, <1>6, <2>1, <2>2, PendingIs
  <2>3. CASE e # d
    BY <1>4, <1>6, <2>1, <2>3, PendingIs
  <2>4. QED
    BY <2>2, <2>3
<1>9. OpenDays(s)' = OpenDays(s)
  BY <1>8, OpenDaysAre
<1>10. s \in DueAgain' => s \in DueAgain
  BY <1>3, <1>7, <1>9 DEF DueAgain, Recent
<1>11. QED
  BY <1>3, <1>6, <1>7, <1>9, <1>10, NothingPending, NumbersAre

-----------------------------------------------------------------------------
(* The charge *)

SeenAtWork == [day : 0..LastDay, row : ScheduleRow, success : BOOLEAN]

LEMMA ReadIsSeen ==
    ASSUME NEW d \in 0..LastDay, NEW row \in ScheduleRow
    PROVE  /\ Read(d, row, TRUE) \in SeenAtWork
           /\ Read(d, row, TRUE).day = d /\ Read(d, row, TRUE).row = row /\ Read(d, row, TRUE).success
           /\ Read(d, row, FALSE) \in SeenAtWork
           /\ Read(d, row, FALSE).day = d /\ Read(d, row, FALSE).row = row /\ ~Read(d, row, FALSE).success
BY DEF Read, SeenAtWork

(* What a request that works on a job has read. *)
LEMMA AtWork ==
    ASSUME RecurringInv, NEW p \in Procs, req[p].at \in Working
    PROVE  /\ req[p].row \in Schedules /\ req[p].seen.day \in 0..LastDay
           /\ req[p].seen \in SeenAtWork /\ req[p].seen.row \in ScheduleRow
           /\ req[p].seen.success \in BOOLEAN
           /\ req[p].seen.row.next = schedule[req[p].row].next
           /\ schedule[req[p].row].state = "stored"
           /\ job[<<req[p].row, req[p].seen.day>>] = "running"
           /\ req[p].at # "idle"
BY DEF RecurringInv, RecurringTyped, RecurringRequests, RequestOK, SeenAtWork, Working

(* p stays at the job of s and d. *)
Stays(p, s, d, at) ==
    /\ DOMAIN req' = Procs /\ \A q \in Procs : q # p => req'[q] = req[q]
    /\ req'[p].at = at /\ req'[p].row = s /\ req'[p].seen.day = d
    /\ req'[p].seen \in SeenAtWork /\ req'[p].seen.row = req[p].seen.row

LEMMA NowAtHolds ==
    ASSUME RecurringInv, NEW p \in Procs, req[p].at \in Working,
           NEW s, s = req[p].row, NEW d, d = req[p].seen.day, NEW at \in Working
    PROVE  /\ NowAt(p, at, TRUE) => Stays(p, s, d, at) /\ req'[p].seen.success
           /\ NowAt(p, at, FALSE) => Stays(p, s, d, at) /\ ~req'[p].seen.success
           /\ NowAt(p, at, req[p].seen.success) =>
                 Stays(p, s, d, at) /\ (req'[p].seen.success <=> req[p].seen.success)
<1>1. /\ req[p].seen.day \in 0..LastDay /\ req[p].seen.row \in ScheduleRow /\ DOMAIN req = Procs
      /\ req[p].seen.success \in BOOLEAN
  BY AtWork DEF RecurringInv, RecurringTyped, RecurringRequests
<1> DEFINE Now(seen) == req' = [req EXCEPT ![p] = [at |-> at, row |-> req[p].row, seen |-> seen]]
           Is(seen) == /\ seen \in SeenAtWork /\ seen.day = req[p].seen.day
                       /\ seen.row = req[p].seen.row
<1>2. ASSUME NEW seen, Now(seen), Is(seen) PROVE Stays(p, s, d, at) /\ req'[p].seen = seen
  BY <1>1, <1>2 DEF Stays
<1>3. ASSUME NowAt(p, at, TRUE) PROVE Stays(p, s, d, at) /\ req'[p].seen.success
  <2> DEFINE seen == Read(req[p].seen.day, req[p].seen.row, TRUE)
  <2>1. Now(seen)
    BY <1>3 DEF NowAt
  <2>2. Is(seen) /\ seen.success
    BY <1>1, ReadIsSeen
  <2> HIDE DEF seen, Now, Is
  <2>3. QED
    BY <1>2, <2>1, <2>2
<1>4. ASSUME NowAt(p, at, FALSE) PROVE Stays(p, s, d, at) /\ ~req'[p].seen.success
  <2> DEFINE seen == Read(req[p].seen.day, req[p].seen.row, FALSE)
  <2>1. Now(seen)
    BY <1>4 DEF NowAt
  <2>2. Is(seen) /\ ~seen.success
    BY <1>1, ReadIsSeen
  <2> HIDE DEF seen, Now, Is
  <2>3. QED
    BY <1>2, <2>1, <2>2
<1>5. ASSUME NowAt(p, at, req[p].seen.success)
      PROVE  Stays(p, s, d, at) /\ (req'[p].seen.success <=> req[p].seen.success)
  <2> DEFINE seen == Read(req[p].seen.day, req[p].seen.row, req[p].seen.success)
  <2>1. Now(seen)
    BY <1>5 DEF NowAt
  <2>2. Is(seen) /\ (seen.success <=> req[p].seen.success)
    BY <1>1 DEF Read, SeenAtWork
  <2> HIDE DEF seen, Now, Is
  <2>3. QED
    BY <1>2, <2>1, <2>2
<1>6. QED
  BY <1>3, <1>4, <1>5

LEMMA TakeJobHolds ==
    ASSUME RecurringInv, NEW p \in Procs, NEW s \in Schedules, NEW d \in 0..LastDay, TakeJob(p, s, d)
    PROVE  RecurringInv'
<1>1. /\ UNCHANGED <<schedule, today, charged, early, faults>> /\ ~Busy(Working)
      /\ job[<<s, d>>] = "waiting" /\ \A q \in Procs : req[q].at \notin Working
  BY DEF TakeJob, Busy
<1>2. CASE Chargeable(s)
  <2> DEFINE seen == Read(d, schedule[s], FALSE)
  <2>1. Begins(p, "charge", s, seen) /\ job' = [job EXCEPT ![<<s, d>>] = "running"]
    BY <1>2 DEF TakeJob
  <2>2. seen \in SeenAtWork /\ seen.day = d /\ seen.row = schedule[s]
    BY ReadIsSeen, NumbersAre
  <2> HIDE DEF seen
  <2>3. /\ DOMAIN req' = Procs /\ \A q \in Procs : q # p => req'[q] = req[q]
        /\ req[p].at = "idle" /\ req'[p].at = "charge" /\ req'[p].row = s
        /\ req'[p].seen \in SeenAtWork /\ req'[p].seen.day = d /\ req'[p].seen.row = schedule[s]
    BY <2>1, <2>2, RecurringMoves
  <2>4. /\ job' \in [Schedules \X (0..LastDay) -> {"none", "waiting", "running", "done"}]
        /\ job'[<<s, d>>] = "running"
        /\ \A e \in Schedules, f \in 0..LastDay : e # s \/ f # d => job'[<<e, f>>] = job[<<e, f>>]
    BY <2>1 DEF RecurringInv, RecurringTyped
  <2>5. schedule[s].state = "stored"
    BY <1>2 DEF Chargeable, RecurringInv, RecurringTyped
  <2>6. RequestOK(p)'
    BY <1>1, <2>3, <2>4, <2>5 DEF RequestOK, Edits, Working, SeenAtWork
  <2>7. Turn(p, s)
    BY <1>1, <2>3, <2>4, <2>6 DEF Turn, RecurringInv, RecurringTyped, Nightly, Working
  <2>8. (Recent(s)' <=> Recent(s)) /\ ~Covered(s)
    BY <1>1 DEF Recent, Covered, At, Working
  <2>9. ASSUME NEW e \in 0..LastDay PROVE e \in OpenDays(s)' <=> e \in OpenDays(s)
    <3>1. /\ ~IsAt(p, "dispatch", s, e) /\ ~IsAt(p, "dispatch", s, e)' /\ ~IsAt(p, "charge", s, e)
          /\ IsAt(p, "charge", s, e)' <=> e = d
      BY <2>3 DEF IsAt, At
    <3>2. CASE e = d
      BY <1>1, <2>4, <2>7, <3>1, <3>2, PendingIs
    <3>3. CASE e # d
      BY <2>4, <2>7, <3>1, <3>3, PendingIs
    <3>4. QED
      BY <3>2, <3>3
  <2>10. OpenDays(s)' = OpenDays(s)
    BY <2>9, OpenDaysAre
  <2>11. s \in DueAgain' => s \in DueAgain
    BY <1>1, <2>8, <2>10 DEF DueAgain, Recent
  <2>12. QED
    BY <1>1, <2>7, <2>8, <2>10, <2>11, NothingPending, NumbersAre
<1>3. CASE ~Chargeable(s)
  <2>1. req' = req /\ job' = [job EXCEPT ![<<s, d>>] = "done"]
    BY <1>3 DEF TakeJob
  <2>2. /\ job' \in [Schedules \X (0..LastDay) -> {"none", "waiting", "running", "done"}]
        /\ job'[<<s, d>>] = "done"
        /\ \A e \in Schedules, f \in 0..LastDay : e # s \/ f # d => job'[<<e, f>>] = job[<<e, f>>]
    BY <2>1 DEF RecurringInv, RecurringTyped
  <2>3. RequestOK(p)'
    BY <1>1, <2>1 DEF RequestOK, RecurringInv, RecurringTyped, RecurringRequests
  <2>4. Turn(p, s)
    BY <1>1, <2>1, <2>2, <2>3 DEF Turn, RecurringInv, RecurringTyped, RecurringRequests
  <2>5. Recent(s)' <=> Recent(s)
    BY <1>1 DEF Recent
  <2>6. ASSUME NEW e \in 0..LastDay PROVE e \in OpenDays(s)' <=> e \in OpenDays(s) /\ e # d
    <3>1. /\ IsAt(p, "dispatch", s, e)' <=> IsAt(p, "dispatch", s, e)
          /\ ~IsAt(p, "charge", s, e) /\ ~IsAt(p, "charge", s, e)'
      BY <1>1, <2>1 DEF IsAt, At, Working
    <3>2. CASE e = d
      BY <1>1, <2>2, <2>4, <3>1, <3>2, PendingIs
    <3>3. CASE e # d
      BY <2>2, <2>4, <3>1, <3>3, PendingIs
    <3>4. QED
      BY <3>2, <3>3
  <2>7. d \in OpenDays(s)
    BY <1>1 DEF OpenDays
  <2>8. OpenDays(s)' \subseteq OpenDays(s) \ {d}
    BY <2>6, OpenDaysAre
  <2>9. QED
    BY <1>1, <2>4, <2>5, <2>7, <2>8, Dropped
<1>4. QED
  BY <1>2, <1>3

(* p stays at its job, and no job is touched. *)
LEMMA StaysIsTurn ==
    ASSUME RecurringInv, NEW p \in Procs, req[p].at \in Working,
           NEW s, s = req[p].row, NEW d, d = req[p].seen.day, NEW at \in Working, Stays(p, s, d, at),
           UNCHANGED <<schedule, job, today>>, charged' \in [Schedules -> Int],
           \A e \in Schedules : e # s => charged'[e] = charged[e],
           charged'[s] \in {charged[s], today}, early' \in Nat, faults' \in 0..MaxFaults
    PROVE  s \in Schedules /\ d \in 0..LastDay /\ Turn(p, s)
<1>1. /\ s \in Schedules /\ d \in 0..LastDay
      /\ req[p].seen.row.next = schedule[s].next /\ schedule[s].state = "stored"
      /\ job[<<s, d>>] = "running"
  BY AtWork
<1>2. RequestOK(p)'
  BY <1>1 DEF RequestOK, Stays, Edits, Working, SeenAtWork
<1>3. Turn(p, s)
  BY <1>1, <1>2 DEF Turn, Stays, RecurringInv, RecurringTyped, Nightly, Working
<1>4. QED
  BY <1>1, <1>3

LEMMA ChargeHolds ==
    ASSUME RecurringInv, NEW p \in Procs, ChargeAuthorization(p)
    PROVE  RecurringInv'
<1>0. PICK s \in Schedules, d \in 0..LastDay : s = req[p].row /\ d = req[p].seen.day
  BY AtWork DEF ChargeAuthorization, At, Working
<1>1. At(p, "charge") /\ req[p].at \in Working /\ UNCHANGED <<schedule, job, today>>
  BY <1>0 DEF ChargeAuthorization, At, Working
<1>2. s \in Schedules /\ d \in 0..LastDay /\ job[<<s, d>>] = "running"
  BY <1>0, <1>1, AtWork
<1>3. {"record", "strike"} \subseteq Working
  BY DEF Working
<1>4. ~Covered(s)
  BY <1>0, <1>1, <1>2 DEF RecurringInv, OneAtATime, Covered, At, Working
<1>5. d \in OpenDays(s)
  BY <1>0, <1>1, <1>2 DEF OpenDays, IsAt
<1>6. ASSUME NEW at \in {"record", "strike"}, Stays(p, s, d, at), Turn(p, s)
      PROVE  OpenDays(s)' \subseteq OpenDays(s) \ {d}
  <2>1. ASSUME NEW e \in 0..LastDay PROVE e \in OpenDays(s)' => e \in OpenDays(s) /\ e # d
    <3>1. /\ ~IsAt(p, "dispatch", s, e) /\ ~IsAt(p, "dispatch", s, e)' /\ ~IsAt(p, "charge", s, e)'
          /\ IsAt(p, "charge", s, e) <=> e = d
      BY <1>0, <1>1, <1>6 DEF IsAt, At, Stays
    <3>2. job'[<<s, e>>] = job[<<s, e>>]
      BY <1>1
    <3>3. CASE e = d
      BY <1>1, <1>2, <1>6, <3>1, <3>2, <3>3, PendingIs
    <3>4. CASE e # d
      BY <1>2, <1>6, <3>1, <3>2, <3>4, PendingIs
    <3>5. QED
      BY <3>3, <3>4
  <2>2. QED
    BY <2>1, OpenDaysAre
<1>7. ASSUME NEW at \in {"record", "strike"}, NowAt(p, at, FALSE), UNCHANGED <<charged, early, faults>>
      PROVE  RecurringInv'
  <2>1. Stays(p, s, d, at)
    BY <1>0, <1>1, <1>3, <1>7, NowAtHolds
  <2>2. charged' \in [Schedules -> Int] /\ early' \in Nat /\ faults' \in 0..MaxFaults
    BY <1>7 DEF RecurringInv, RecurringTyped
  <2>3. Turn(p, s)
    BY <1>0, <1>1, <1>3, <1>7, <2>1, <2>2, StaysIsTurn
  <2>4. OpenDays(s)' \subseteq OpenDays(s) \ {d} /\ (Recent(s)' <=> Recent(s))
    BY <1>1, <1>6, <1>7, <2>1, <2>3 DEF Recent
  <2>5. QED
    BY <1>2, <1>5, <1>7, <2>3, <2>4, Dropped
<1>8. ASSUME NEW at \in {"record", "strike"}, NowAt(p, at, TRUE), Charges(s),
             (at = "record" /\ faults' = faults) \/ faults' = faults + 1, faults' <= MaxFaults
      PROVE  RecurringInv'
  <2>1. Stays(p, s, d, at) /\ req'[p].seen.success
    BY <1>0, <1>1, <1>3, <1>8, NowAtHolds
  <2>2. /\ charged' \in [Schedules -> Int] /\ charged'[s] = today
        /\ \A e \in Schedules : e # s => charged'[e] = charged[e]
        /\ early' = early + (IF Recent(s) THEN 1 ELSE 0)
    BY <1>2, <1>8, NumbersAre DEF Charges, RecurringInv, RecurringTyped, Recent
  <2>3. early' \in Nat /\ faults' \in 0..MaxFaults
    BY <1>2, <1>8, <2>2, NumbersAre
  <2>4. Turn(p, s)
    BY <1>0, <1>1, <1>3, <2>1, <2>2, <2>3, StaysIsTurn
  <2>5. OpenDays(s)' \subseteq OpenDays(s) \ {d}
    BY <1>6, <2>1, <2>4
  <2>6. Recent(s)'
    BY <1>1, <1>2, <2>2, NumbersAre DEF Recent
  <2>7. s \notin DueAgain
    BY <1>5 DEF DueAgain
  <2>8. at = "record" => s \notin DueAgain'
    BY <1>0, <1>2, <2>1, <2>4, CoveredIs DEF DueAgain, Stays
  <2>9. Recent(s) => s \notin InTime
    BY DEF InTime
  <2>10. /\ Cardinality(MayCharge) \in Nat /\ Cardinality(MayCharge') \in Nat
         /\ Cardinality(DueAgain) \in Nat /\ Cardinality(DueAgain') \in Nat
         /\ Cardinality(InTime) \in Nat /\ Cardinality(InTime') \in Nat
         /\ Cardinality(MayCharge') + 1 <= Cardinality(MayCharge)
         /\ Cardinality(DueAgain') <= Cardinality(DueAgain) + 1
         /\ at = "record" => Cardinality(DueAgain') <= Cardinality(DueAgain)
         /\ Cardinality(InTime) <= Cardinality(InTime') + 1
         /\ Recent(s) => Cardinality(InTime) <= Cardinality(InTime')
    BY <1>2, <1>5, <2>4, <2>5, <2>8, <2>9, TurnIsSteady, CountsMove
  <2>11. FaultsPay'
    <3>1. early \in Nat /\ faults \in Nat /\ FaultsPay
      BY <1>2, NumbersAre DEF RecurringInv
    <3>2. CASE Recent(s)
      BY <1>8, <2>2, <2>10, <3>1, <3>2 DEF FaultsPay
    <3>3. CASE ~Recent(s)
      BY <1>8, <2>2, <2>10, <3>1, <3>3 DEF FaultsPay
    <3>4. QED
      BY <3>2, <3>3
  <2>12. QED
    BY <1>2, <2>4, <2>11, TurnKeepsTypes, TurnKeepsOrder DEF RecurringInv
<1>9. faults \in 0..MaxFaults /\ MaxFaults \in Nat
  BY <1>2, NumbersAre
<1>10. \/ Charges(s) /\ NowAt(p, "record", TRUE) /\ UNCHANGED faults
       \/ Charges(s) /\ NowAt(p, "strike", TRUE) /\ Count(1)
       \/ NowAt(p, "record", FALSE) /\ UNCHANGED <<charged, early, faults>>
       \/ NowAt(p, "strike", FALSE) /\ UNCHANGED <<charged, early, faults>>
  BY <1>0 DEF ChargeAuthorization
<1>11. CASE Charges(s) /\ NowAt(p, "record", TRUE) /\ UNCHANGED faults
  BY <1>8, <1>9, <1>11
<1>12. CASE Charges(s) /\ NowAt(p, "strike", TRUE) /\ Count(1)
  <2>1. faults' = faults + 1 /\ faults' <= MaxFaults
    BY <1>9, <1>12 DEF Count
  <2>2. QED
    BY <1>8, <1>12, <2>1
<1>13. CASE NowAt(p, "record", FALSE) /\ UNCHANGED <<charged, early, faults>>
  BY <1>7, <1>13
<1>14. CASE NowAt(p, "strike", FALSE) /\ UNCHANGED <<charged, early, faults>>
  BY <1>7, <1>14
<1>15. QED
  BY <1>10, <1>11, <1>12, <1>13, <1>14

LEMMA RecordHolds ==
    ASSUME RecurringInv, NEW p \in Procs, RecordCharge(p)
    PROVE  RecurringInv'
<1>0. PICK s \in Schedules, d \in 0..LastDay : s = req[p].row /\ d = req[p].seen.day
  BY AtWork DEF RecordCharge, At, Working
<1> DEFINE success == req[p].seen.success
<1>1. /\ At(p, "record") /\ req[p].at \in Working
      /\ UNCHANGED <<schedule, job, today, charged, early>>
  BY DEF RecordCharge, At, Working
<1>2. s \in Schedules /\ d \in 0..LastDay /\ job[<<s, d>>] = "running" /\ success \in BOOLEAN
  BY <1>0, <1>1, AtWork
<1>3. PICK at \in {"settle", "strike"} :
          /\ NowAt(p, at, success)
          /\ \/ faults' = faults /\ (at = "settle" \/ ~success)
             \/ faults' = faults + 1
          /\ faults' \in 0..MaxFaults
  <2>1. faults \in 0..MaxFaults /\ MaxFaults \in Nat
    BY <1>2, NumbersAre
  <2>2. CASE NowAt(p, "settle", success) /\ UNCHANGED faults
    BY <2>1, <2>2
  <2>3. CASE NowAt(p, "strike", success) /\ Count(IF success THEN 1 ELSE 0)
    BY <1>2, <2>1, <2>3 DEF Count
  <2>4. QED
    BY <2>2, <2>3 DEF RecordCharge
<1>4. Stays(p, s, d, at) /\ (req'[p].seen.success <=> success)
  <2>1. at \in Working
    BY DEF Working
  <2>2. QED
    BY <1>0, <1>1, <1>3, <2>1, NowAtHolds
<1>5. Turn(p, s)
  <2>1. charged' \in [Schedules -> Int] /\ early' \in Nat /\ at \in Working
    BY <1>1 DEF RecurringInv, RecurringTyped, Working
  <2>2. QED
    BY <1>0, <1>1, <1>3, <1>4, <2>1, StaysIsTurn
<1>6. ASSUME NEW e \in 0..LastDay PROVE e \in OpenDays(s)' <=> e \in OpenDays(s)
  <2>1. /\ ~IsAt(p, "dispatch", s, e) /\ ~IsAt(p, "dispatch", s, e)' /\ ~IsAt(p, "charge", s, e)'
        /\ ~IsAt(p, "charge", s, e)
    BY <1>0, <1>1, <1>4 DEF IsAt, At, Stays
  <2>2. job'[<<s, e>>] = job[<<s, e>>]
    BY <1>1
  <2>3. QED
    BY <1>2, <1>5, <2>1, <2>2, PendingIs
<1>7. OpenDays(s)' = OpenDays(s) /\ (Recent(s)' <=> Recent(s))
  BY <1>1, <1>6, OpenDaysAre DEF Recent
<1>8. (Covered(s) <=> success) /\ (at = "settle" /\ success => Covered(s)')
  BY <1>0, <1>1, <1>2, <1>4, <1>5, CoveredIs DEF At, Stays
<1>9. CASE at = "settle" \/ ~success
  <2>1. s \in DueAgain' => s \in DueAgain
    BY <1>1, <1>7, <1>8, <1>9 DEF DueAgain, Recent
  <2>2. faults <= faults' /\ early' = early
    BY <1>1, <1>2, <1>3, NumbersAre
  <2>3. QED
    BY <1>2, <1>5, <1>7, <2>1, <2>2, NothingPending
<1>10. CASE faults' = faults + 1
  <2>1. /\ Cardinality(MayCharge) \in Nat /\ Cardinality(MayCharge') \in Nat
        /\ Cardinality(DueAgain) \in Nat /\ Cardinality(DueAgain') \in Nat
        /\ Cardinality(InTime) \in Nat /\ Cardinality(InTime') \in Nat
        /\ Cardinality(MayCharge') <= Cardinality(MayCharge)
        /\ Cardinality(DueAgain') <= Cardinality(DueAgain) + 1
        /\ Cardinality(InTime) <= Cardinality(InTime')
    <3>1. s \in InTime => s \in InTime'
      BY <1>7 DEF InTime
    <3>2. QED
      BY <1>2, <1>5, <1>7, <3>1, TurnIsSteady, CountsMove
  <2>2. FaultsPay'
    BY <1>1, <1>2, <1>10, <2>1, NumbersAre DEF RecurringInv, FaultsPay
  <2>3. QED
    BY <1>2, <1>5, <2>2, TurnKeepsTypes, TurnKeepsOrder DEF RecurringInv
<1>11. QED
  BY <1>3, <1>9, <1>10

(* The job of p is over, or waits again, and the row of s has changed. *)
Leaving(p, s, d, state) ==
    /\ s \in Schedules /\ d \in 0..LastDay /\ s = req[p].row /\ d = req[p].seen.day
    /\ req[p].at \in Working
    /\ Ends(p)
    /\ state \in {"waiting", "done"}
    /\ job' = [job EXCEPT ![<<s, d>>] = state]
    /\ UNCHANGED <<today, charged, early>>
    /\ faults' \in 0..MaxFaults
    /\ schedule' \in [Schedules -> ScheduleRow]
    /\ schedule'[s].state = "stored"
    /\ \A e \in Schedules : e # s => schedule'[e] = schedule[e]

LEMMA LeavingHolds ==
    ASSUME RecurringInv, NEW p \in Procs, NEW s, NEW d, NEW state, Leaving(p, s, d, state)
    PROVE  /\ Turn(p, s)
           /\ \A e \in 0..LastDay : e # d => (e \in OpenDays(s)' <=> e \in OpenDays(s))
           /\ d \in OpenDays(s)' <=> state = "waiting"
           /\ d \in OpenDays(s) <=> At(p, "charge")
           /\ Recent(s)' <=> Recent(s)
           /\ ~Covered(s)'
<1>1. /\ DOMAIN req' = Procs /\ \A q \in Procs : q # p => req'[q] = req[q]
      /\ req'[p].at = "idle"
  BY RecurringMoves DEF Leaving
<1>2. /\ s \in Schedules /\ d \in 0..LastDay /\ job[<<s, d>>] = "running" /\ schedule[s].state = "stored"
      /\ s = req[p].row /\ d = req[p].seen.day /\ req[p].at \in Working
  BY AtWork DEF Leaving
<1>3. /\ job' \in [Schedules \X (0..LastDay) -> {"none", "waiting", "running", "done"}]
      /\ job'[<<s, d>>] = state /\ state \in {"waiting", "done"}
      /\ \A e \in Schedules, f \in 0..LastDay : e # s \/ f # d => job'[<<e, f>>] = job[<<e, f>>]
  BY <1>2 DEF Leaving, RecurringInv, RecurringTyped
<1>4. RequestOK(p)'
  BY <1>1 DEF RequestOK, Edits, Working
<1>5. Turn(p, s)
  BY <1>1, <1>2, <1>3, <1>4 DEF Turn, Leaving, RecurringInv, RecurringTyped, Nightly, Working
<1>6. ASSUME NEW e \in 0..LastDay
      PROVE  /\ ~IsAt(p, "dispatch", s, e) /\ ~IsAt(p, "dispatch", s, e)' /\ ~IsAt(p, "charge", s, e)'
             /\ IsAt(p, "charge", s, e) <=> e = d /\ At(p, "charge")
  BY <1>1, <1>2 DEF IsAt, At, Working
<1>7. ASSUME NEW e \in 0..LastDay, e # d PROVE e \in OpenDays(s)' <=> e \in OpenDays(s)
  <2>1. /\ ~IsAt(p, "dispatch", s, e) /\ ~IsAt(p, "dispatch", s, e)'
        /\ ~IsAt(p, "charge", s, e)' /\ ~IsAt(p, "charge", s, e)
        /\ job'[<<s, e>>] = job[<<s, e>>]
    BY <1>2, <1>3, <1>6, <1>7
  <2>2. QED
    BY <1>2, <1>5, <2>1, PendingIs
<1>8. d \in OpenDays(s)' <=> state = "waiting"
  BY <1>2, <1>3, <1>5, <1>6, PendingIs
<1>9. d \in OpenDays(s) <=> At(p, "charge")
  BY <1>2, <1>5, <1>6, PendingIs
<1>10. ~Covered(s)'
  BY <1>1, <1>2 DEF Covered, RecurringInv, OneAtATime, At, Working
<1>11. QED
  BY <1>5, <1>7, <1>8, <1>9, <1>10 DEF Recent, Leaving

LEMMA SettleHolds ==
    ASSUME RecurringInv, NEW p \in Procs, Settle(p)
    PROVE  RecurringInv'
<1> DEFINE success == req[p].seen.success
<1>1. PICK s \in Schedules, d \in 0..LastDay : s = req[p].row /\ d = req[p].seen.day
  BY AtWork DEF Settle, At, Working
<1>2. /\ At(p, "settle") /\ req[p].at \in Working /\ success \in BOOLEAN
      /\ req[p].seen.row \in ScheduleRow /\ req[p].seen.row.next = schedule[s].next
      /\ schedule[s].state = "stored"
  BY <1>1, AtWork DEF Settle, At, Working
<1>3. UNCHANGED <<today, charged, early, faults>> /\ Ends(p) /\ job' = [job EXCEPT ![<<s, d>>] = "done"]
  BY <1>1 DEF Settle, Finished
<1>4. /\ schedule' \in [Schedules -> ScheduleRow]
      /\ schedule'[s].state = "stored"
      /\ schedule'[s].next = IF success THEN today + Interval ELSE schedule[s].next
      /\ \A e \in Schedules : e # s => schedule'[e] = schedule[e]
  <2> DEFINE next == NextCharge(p)
             fails == IF success THEN 0 ELSE req[p].seen.row.failed + 1
             on == success \/ req[p].seen.row.failed + 1 < 3
             new == [schedule[s] EXCEPT !.next = next, !.failed = fails, !.active = on]
  <2>1. /\ next \in 0..(LastDay + Interval)
        /\ next = IF success THEN today + Interval ELSE schedule[s].next
    BY <1>2, NumbersAre DEF NextCharge, ScheduleRow
  <2>2. fails \in Nat /\ on \in BOOLEAN
    BY <1>2 DEF ScheduleRow
  <2>3. schedule' = [schedule EXCEPT ![s] = new]
    BY <1>1 DEF Settle, RecurringInv, RecurringTyped
  <2> HIDE DEF next, fails, on
  <2>4. new \in ScheduleRow /\ new.state = schedule[s].state /\ new.next = next
    BY <2>1, <2>2, NumbersAre DEF ScheduleRow
  <2> HIDE DEF new
  <2>5. QED
    BY <1>2, <2>1, <2>3, <2>4 DEF RecurringInv, RecurringTyped
<1>5. Leaving(p, s, d, "done")
  BY <1>1, <1>2, <1>3, <1>4, NumbersAre DEF Leaving
<1>6. /\ Turn(p, s) /\ OpenDays(s)' = OpenDays(s)
      /\ Recent(s)' <=> Recent(s)
  <2>1. /\ Turn(p, s) /\ (Recent(s)' <=> Recent(s))
        /\ \A e \in 0..LastDay : e \in OpenDays(s)' <=> e \in OpenDays(s)
    BY <1>1, <1>2, <1>5, LeavingHolds DEF At
  <2>2. QED
    BY <2>1, OpenDaysAre
<1>7. s \in DueAgain' => s \in DueAgain
  <2>1. CASE success
    <3>1. ~(schedule'[s].next < charged'[s] + Interval)
      BY <1>1, <1>3, <1>4, <2>1, NumbersAre
    <3>2. QED
      BY <3>1 DEF DueAgain
  <2>2. CASE ~success
    <3>1. ~Covered(s)
      BY <1>1, <1>2, <1>6, <2>2, CoveredIs
    <3>2. QED
      BY <1>3, <1>4, <1>6, <2>2, <3>1 DEF DueAgain, Recent
  <2>3. QED
    BY <2>1, <2>2
<1>8. QED
  BY <1>1, <1>3, <1>6, <1>7, NothingPending, NumbersAre

LEMMA StrikeHolds ==
    ASSUME RecurringInv, NEW p \in Procs, Strike(p)
    PROVE  RecurringInv'
<1>1. PICK s \in Schedules, d \in 0..LastDay : s = req[p].row /\ d = req[p].seen.day
  BY AtWork DEF Strike, At, Working
<1>2. /\ At(p, "strike") /\ req[p].at \in Working
      /\ req[p].seen.row \in ScheduleRow /\ schedule[s].state = "stored"
  BY <1>1, AtWork DEF Strike, At, Working
<1>3. UNCHANGED <<today, charged, early, faults>> /\ Ends(p) /\ job' = [job EXCEPT ![<<s, d>>] = "done"]
  BY <1>1 DEF Strike, Finished
<1>4. /\ schedule' \in [Schedules -> ScheduleRow]
      /\ schedule'[s].state = "stored"
      /\ schedule'[s].next = schedule[s].next
      /\ \A e \in Schedules : e # s => schedule'[e] = schedule[e]
  <2> DEFINE fails == req[p].seen.row.failed + 1
             on == fails < 3
             new == [schedule[s] EXCEPT !.failed = fails, !.active = on]
  <2>1. schedule' = [schedule EXCEPT ![s] = new]
    BY <1>1 DEF Strike, RecurringInv, RecurringTyped
  <2>2. fails \in Nat /\ on \in BOOLEAN
    BY <1>2 DEF ScheduleRow
  <2> HIDE DEF fails, on
  <2>3. new \in ScheduleRow /\ new.state = schedule[s].state /\ new.next = schedule[s].next
    BY <2>2, NumbersAre DEF ScheduleRow
  <2> HIDE DEF new
  <2>4. QED
    BY <1>2, <2>1, <2>3 DEF RecurringInv, RecurringTyped
<1>5. Leaving(p, s, d, "done")
  BY <1>1, <1>2, <1>3, <1>4, NumbersAre DEF Leaving
<1>6. /\ Turn(p, s) /\ OpenDays(s)' = OpenDays(s)
      /\ Recent(s)' <=> Recent(s)
  <2>1. /\ Turn(p, s) /\ (Recent(s)' <=> Recent(s))
        /\ \A e \in 0..LastDay : e \in OpenDays(s)' <=> e \in OpenDays(s)
    BY <1>1, <1>2, <1>5, LeavingHolds DEF At
  <2>2. QED
    BY <2>1, OpenDaysAre
<1>7. ~Covered(s)
  BY <1>1, <1>2, <1>6, CoveredIs DEF At
<1>8. s \in DueAgain' => s \in DueAgain
  BY <1>3, <1>4, <1>6, <1>7 DEF DueAgain, Recent
<1>9. QED
  BY <1>1, <1>3, <1>6, <1>8, NothingPending, NumbersAre

LEMMA RecurringDiesHolds ==
    ASSUME RecurringInv, NEW p \in Procs, RecurringDies(p)
    PROVE  RecurringInv'
<1>1. /\ DOMAIN req' = Procs /\ \A q \in Procs : q # p => req'[q] = req[q]
      /\ req'[p].at = "idle" /\ Ends(p)
      /\ UNCHANGED <<schedule, today, charged, early>>
  BY RecurringMoves DEF RecurringDies, Dies
<1>2. RequestOK(p)'
  BY <1>1 DEF RequestOK, Edits, Working
<1>3. CASE req[p].at \in Working
  <2>1. PICK s \in Schedules, d \in 0..LastDay :
            s = req[p].row /\ d = req[p].seen.day /\ schedule[s].state = "stored"
    BY <1>3, AtWork
  <2>2. /\ job' = [job EXCEPT ![<<s, d>>] = "waiting"]
        /\ faults' = faults + 1 /\ faults' \in 0..MaxFaults
    BY <1>3, <2>1, NumbersAre DEF RecurringDies, Count
  <2>3. Leaving(p, s, d, "waiting")
    BY <1>1, <1>3, <2>1, <2>2, NumbersAre DEF Leaving, RecurringInv, RecurringTyped
  <2>4. /\ Turn(p, s) /\ (Recent(s)' <=> Recent(s)) /\ d \in OpenDays(s)'
        /\ \A e \in 0..LastDay : e # d => (e \in OpenDays(s)' <=> e \in OpenDays(s))
    BY <2>1, <2>3, LeavingHolds
  <2>5. OpenDays(s) \subseteq OpenDays(s)' /\ OpenDays(s)' \subseteq OpenDays(s) \cup {d}
    BY <2>4, OpenDaysAre
  <2>6. s \notin DueAgain'
    BY <2>4 DEF DueAgain
  <2>7. QED
    BY <1>1, <2>1, <2>2, <2>4, <2>5, <2>6, PaidFor
<1>4. CASE req[p].at = "dispatch"
  <2>1. PICK s \in Schedules, d \in 0..LastDay : s = req[p].row /\ d = req[p].seen.day
    BY <1>4 DEF RecurringInv, RecurringTyped, RecurringRequests, RequestOK
  <2>2. UNCHANGED <<job, faults>> /\ req[p].at \notin Working
    BY <1>4 DEF RecurringDies, Working
  <2>3. Turn(p, s)
    BY <1>1, <1>2, <1>4, <2>1, <2>2 DEF Turn, RecurringInv, RecurringTyped, Nightly, Working
  <2>4. (Recent(s)' <=> Recent(s)) /\ (Covered(s)' <=> Covered(s))
    BY <1>1, <2>1, <2>2, <2>3, CoveredIs DEF Recent, Working
  <2>5. ASSUME NEW e \in 0..LastDay
        PROVE  e \in OpenDays(s)' <=> e \in OpenDays(s) /\ ~(e = d /\ job[<<s, d>>] = "none")
    <3>1. /\ ~IsAt(p, "charge", s, e) /\ ~IsAt(p, "charge", s, e)' /\ ~IsAt(p, "dispatch", s, e)'
          /\ IsAt(p, "dispatch", s, e) <=> e = d
          /\ At(p, "dispatch") /\ job'[<<s, e>>] = job[<<s, e>>]
      BY <1>1, <1>4, <2>1, <2>2 DEF IsAt, At
    <3>2. job[<<s, d>>] = "none" => \A q \in Procs : ~IsAt(q, "charge", s, d)
      BY <2>1 DEF IsAt, At, RecurringInv, RecurringTyped, RecurringRequests, RequestOK, Working
    <3>3. CASE e = d
      BY <2>1, <2>3, <3>1, <3>2, <3>3, PendingIs
    <3>4. CASE e # d
      BY <2>1, <2>3, <3>1, <3>4, PendingIs
    <3>5. QED
      BY <3>3, <3>4
  <2>6. CASE job[<<s, d>>] = "none"
    <3>1. d \in OpenDays(s) /\ OpenDays(s)' \subseteq OpenDays(s) \ {d}
      <4>1. d \in OpenDays(s)
        BY <1>4, <2>1, <2>6 DEF OpenDays, IsAt, At
      <4>2. QED
        BY <2>5, <2>6, <4>1, OpenDaysAre
    <3>2. QED
      BY <1>1, <2>1, <2>2, <2>3, <2>4, <3>1, Dropped
  <2>7. CASE job[<<s, d>>] # "none"
    <3>1. OpenDays(s)' = OpenDays(s)
      BY <2>5, <2>7, OpenDaysAre
    <3>2. s \in DueAgain' => s \in DueAgain
      BY <1>1, <2>4, <3>1 DEF DueAgain, Recent
    <3>3. QED
      BY <1>1, <2>1, <2>2, <2>3, <2>4, <3>1, <3>2, NothingPending, NumbersAre
  <2>8. QED
    BY <2>6, <2>7
<1>5. CASE req[p].at \notin Nightly
  BY <1>1, <1>2, <1>5, QuietHolds DEF RecurringDies, Nightly, Working
<1>6. QED
  BY <1>3, <1>4, <1>5 DEF Nightly

-----------------------------------------------------------------------------
(* Early charges *)

LEMMA RecurringInitHolds == RecurringInit => RecurringInv
<1> SUFFICES ASSUME RecurringInit PROVE RecurringInv
  OBVIOUS
<1>1. \A p \in Procs : req[p].at = "idle"
  BY DEF RecurringInit, ReqInit, NoRequest
<1>2. RecurringTyped
  <2>1. \A p \in Procs : RequestOK(p)
    BY <1>1 DEF RequestOK, Edits, Working
  <2>2. NoSchedule \in ScheduleRow
    BY RecurringAssumption DEF NoSchedule, ScheduleRow
  <2>3. \A s \in Schedules : schedule[s] = NoSchedule /\ charged[s] = -Interval
    BY DEF RecurringInit
  <2>4. /\ today \in 0..LastDay /\ early \in Nat /\ faults \in 0..MaxFaults
        /\ charged \in [Schedules -> Int] /\ \A s \in Schedules : charged[s] <= today
    BY RecurringAssumption DEF RecurringInit
  <2>5. QED
    BY <2>1, <2>2, <2>3, <2>4 DEF RecurringTyped, RecurringInit, RecurringRequests, ReqInit, NoSchedule
<1>3. OneAtATime
  BY <1>1 DEF OneAtATime, RecurringInit, At, Working
<1>4. ASSUME NEW s \in Schedules PROVE OpenDays(s) = {} /\ ~Recent(s)
  <2>1. OpenDays(s) = {}
    BY <1>1 DEF OpenDays, IsAt, At, RecurringInit
  <2>2. QED
    BY <2>1, RecurringAssumption DEF Recent, RecurringInit
<1>5. MayCharge = {} /\ DueAgain = {} /\ InTime = {}
  BY <1>4 DEF MayCharge, DueAgain, InTime
<1>6. FaultsPay
  BY <1>5, FS_EmptySet DEF FaultsPay, RecurringInit
<1>7. QED
  BY <1>2, <1>3, <1>6 DEF RecurringInv

LEMMA RecurringStepHolds == RecurringInv /\ [RecurringNext]_recurringVars => RecurringInv'
<1> SUFFICES ASSUME RecurringInv, [RecurringNext]_recurringVars PROVE RecurringInv'
  OBVIOUS
<1>1. /\ today \in 0..LastDay /\ LastDay \in Nat /\ schedule \in [Schedules -> ScheduleRow]
  BY RecurringAssumption DEF RecurringInv, RecurringTyped
<1>2. ASSUME NEW s \in Schedules, CaptureAuthorizationCode(s) PROVE RecurringInv'
  <2> DEFINE new == [schedule[s] EXCEPT !.card = "current"]
  <2>1. /\ new \in ScheduleRow /\ new.state = schedule[s].state /\ new.next = schedule[s].next
        /\ new.active = schedule[s].active /\ new.paused = schedule[s].paused
    BY <1>1 DEF ScheduleRow
  <2>2. schedule' = [schedule EXCEPT ![s] = new]
    BY <1>2 DEF CaptureAuthorizationCode
  <2> HIDE DEF new
  <2>3. /\ schedule' \in [Schedules -> ScheduleRow]
        /\ \A e \in Schedules : /\ schedule'[e].state = schedule[e].state
                                /\ schedule'[e].next = schedule[e].next
                                /\ schedule'[e].active = schedule[e].active
                                /\ schedule'[e].paused = schedule[e].paused
    BY <1>1, <2>1, <2>2
  <2>4. QED
    BY <1>1, <1>2, <2>3, OutsideHolds DEF CaptureAuthorizationCode
<1>3. CASE ChangeAccount
  <2> DEFINE new(s) == [schedule[s] EXCEPT !.card = IF @ = "current" THEN "former" ELSE @]
  <2>1. ASSUME NEW s \in Schedules
        PROVE  /\ new(s) \in ScheduleRow /\ new(s).state = schedule[s].state
               /\ new(s).next = schedule[s].next /\ new(s).active = schedule[s].active
               /\ new(s).paused = schedule[s].paused
    BY <1>1 DEF ScheduleRow
  <2>2. schedule' = [s \in Schedules |-> new(s)]
    BY <1>3 DEF ChangeAccount
  <2> HIDE DEF new
  <2>3. /\ schedule' \in [Schedules -> ScheduleRow]
        /\ \A e \in Schedules : /\ schedule'[e].state = schedule[e].state
                                /\ schedule'[e].next = schedule[e].next
                                /\ schedule'[e].active = schedule[e].active
                                /\ schedule'[e].paused = schedule[e].paused
    BY <2>1, <2>2
  <2>4. QED
    BY <1>1, <1>3, <2>3, OutsideHolds DEF ChangeAccount
<1>4. CASE NextDay
  BY <1>1, <1>4, OutsideHolds DEF NextDay
<1>5. CASE UNCHANGED recurringVars
  BY <1>1, <1>5, OutsideHolds DEF recurringVars
<1>6. ASSUME NEW p \in Procs,
             \/ CreateRecurringGiving(p) \/ Cancel(p) \/ PauseOrResume(p)
             \/ AddJob(p) \/ ChargeAuthorization(p) \/ RecordCharge(p)
             \/ Settle(p) \/ Strike(p) \/ RecurringDies(p)
             \/ \E s \in Schedules :
                   \/ InsertSchedule(p, s) \/ CancelRecurringGiving(p, s)
                   \/ PauseRecurringGiving(p, s) \/ ResumeRecurringGiving(p, s)
                   \/ DispatchRecurringCharges(p, s)
                   \/ \E d \in 0..LastDay : TakeJob(p, s, d)
      PROVE  RecurringInv'
  BY <1>6, BeginningsHold, CancelHolds, PauseOrResumeHolds, AddJobHolds, ChargeHolds, RecordHolds,
     SettleHolds, StrikeHolds, RecurringDiesHolds, InsertScheduleHolds, DispatchHolds, TakeJobHolds
<1>7. QED
  BY <1>2, <1>3, <1>4, <1>5, <1>6 DEF RecurringNext

LEMMA InTimeIsPending ==
    ASSUME RecurringInv
    PROVE  Cardinality(InTime) <= Cardinality(MayCharge)
<1>1. \A s \in InTime : s \in Schedules /\ \E d \in 0..LastDay : d \in OpenDays(s)
  BY OpenDaysAre DEF InTime
<1> DEFINE f == [s \in InTime |-> <<s, CHOOSE d \in 0..LastDay : d \in OpenDays(s)>>]
<1>2. \A s \in InTime : f[s] \in MayCharge /\ f[s][1] = s
  BY <1>1 DEF MayCharge
<1>3. f \in Injection(InTime, MayCharge)
  <2>1. f \in [InTime -> MayCharge] /\ \A s, e \in InTime : f[s] = f[e] => s = e
    BY <1>2
  <2>2. QED
    BY <2>1 DEF Injection, IsInjective
<1>4. QED
  BY <1>3, DaysAreFinite, FS_Injection

(* For any schedules, requests, nights and faults: no card is charged      *)
(* early more often than something went wrong (dispatchRecurringCharges,   *)
(* processRecurringCharge).                                                *)
THEOREM EarlyChargesAreFaultsHolds == RecurringSpec => []EarlyChargesAreFaults
<1>1. RecurringSpec => []RecurringInv
  BY RecurringInitHolds, RecurringStepHolds, PTL DEF RecurringSpec
<1>2. ASSUME RecurringInv PROVE EarlyChargesAreFaults
  <2>1. early \in Nat /\ faults \in Nat /\ FaultsPay
    BY <1>2, RecurringAssumption DEF RecurringInv, RecurringTyped
  <2>2. QED
    BY <1>2, <2>1, InTimeIsPending, DaysAreFinite DEF FaultsPay, EarlyChargesAreFaults
<1>3. QED
  BY <1>1, <1>2, PTL

LEMMA RecurringInvSuffices == RecurringInv => RecurringTypeOK
<1> SUFFICES ASSUME RecurringInv PROVE RecurringTypeOK
  OBVIOUS
<1> DEFINE working == {p \in Procs : req[p].at \in Working}
<1>1. Cardinality(working) <= 1
  <2>1. CASE working = {}
    BY <2>1, FS_EmptySet
  <2>2. CASE working # {}
    <3>1. PICK p : p \in working
      BY <2>2
    <3>2. working = {p}
      BY <3>1 DEF RecurringInv, OneAtATime
    <3>3. Cardinality({p}) = 1
      BY FS_Singleton
    <3>4. QED
      BY <3>2, <3>3
  <2>3. QED
    BY <2>1, <2>2
<1>2. \A s \in Schedules : schedule[s] \in ScheduleRow
  BY NumbersAre
<1>3. QED
  BY <1>1, <1>2 DEF RecurringInv, RecurringTyped, OneAtATime, RecurringTypeOK, ScheduleRow

-----------------------------------------------------------------------------
(* The services, in turn *)

ServicesInv ==
    /\ part \in Parts
    /\ part = "factor" => AuthInv /\ AuthFits
    /\ part = "answers" => CacheInv /\ WritesPay /\ HintsTyped
    /\ part = "permissions" => PermissionInv /\ PermissionFits
    /\ part = "feed" => FeedInv
    /\ part = "broadcast" => AudienceInv /\ BroadcastFits
    /\ part = "webhook" => WebhookInv
    /\ part = "online" => GivingInv
    /\ part = "recurring" => RecurringInv

LEMMA ServicesInitHolds == Init => ServicesInv
<1> SUFFICES ASSUME Init PROVE ServicesInv
  OBVIOUS
<1>1. AuthInit /\ CacheInit /\ PermissionInit /\ FeedInit /\ BroadcastInit /\ WebhookInit
        /\ GivingInit /\ RecurringInit /\ part \in Parts
  BY DEF Init
<1>2. QED
  BY <1>1, AuthInitHolds, AuthFitsAtFirst, CacheInitHolds, CacheFitsAtFirst, PermissionInitHolds,
     PermissionFitsAtFirst, FeedInitOK, AudienceInit, BroadcastFitsAtFirst, WebhookInitHolds,
     GivingInitOK, RecurringInitHolds DEF ServicesInv

LEMMA ServicesStepHolds == ServicesInv /\ [Next]_vars => ServicesInv'
<1> SUFFICES ASSUME ServicesInv, [Next]_vars PROVE ServicesInv'
  OBVIOUS
<1>1. part' = part /\ part \in Parts
  BY DEF Next, vars, ServicesInv
<1>2. CASE part = "factor"
  <2>1. [AuthNext]_authVars
    BY <1>2 DEF Next, vars, OfFactor, authVars
  <2>2. QED
    BY <1>1, <1>2, <2>1, AuthStepHolds, AuthFitsNext DEF ServicesInv
<1>3. CASE part = "answers"
  <2>1. [CacheNext]_cacheVars
    BY <1>3 DEF Next, vars, OfAnswers, cacheVars
  <2>2. QED
    BY <1>1, <1>3, <2>1, CacheStepHolds, CacheFitsNext DEF ServicesInv
<1>4. CASE part = "permissions"
  <2>1. [PermissionNext]_permissionVars
    BY <1>4 DEF Next, vars, OfPermissions, permissionVars
  <2>2. QED
    BY <1>1, <1>4, <2>1, PermissionStepHolds, PermissionFitsNext DEF ServicesInv
<1>5. CASE part = "feed"
  <2>1. [FeedNext]_feedVars
    BY <1>5 DEF Next, vars
  <2>2. QED
    BY <1>1, <1>5, <2>1, FeedStepHolds DEF ServicesInv
<1>6. CASE part = "broadcast"
  <2>1. [BroadcastNext]_broadcastVars
    BY <1>6 DEF Next, vars, OfBroadcast, broadcastVars, broadcastState
  <2>2. QED
    BY <1>1, <1>6, <2>1, AudienceStep, BroadcastFitsNext DEF ServicesInv
<1>7. CASE part = "webhook"
  <2>1. [WebhookNext]_webhookVars
    BY <1>7 DEF Next, vars, OfWebhook, webhookVars
  <2>2. QED
    BY <1>1, <1>7, <2>1, WebhookStepHolds DEF ServicesInv
<1>8. CASE part = "online"
  <2>1. [GivingNext]_givingVars
    BY <1>8 DEF Next, vars, OfOnline, givingVars
  <2>2. QED
    BY <1>1, <1>8, <2>1, GivingStepHolds DEF ServicesInv
<1>9. CASE part = "recurring"
  <2>1. [RecurringNext]_recurringVars
    BY <1>9 DEF Next, vars, OfRecurring, recurringVars
  <2>2. QED
    BY <1>1, <1>9, <2>1, RecurringStepHolds DEF ServicesInv
<1>10. QED
  BY <1>1, <1>2, <1>3, <1>4, <1>5, <1>6, <1>7, <1>8, <1>9 DEF Parts

(* Whichever service it is, its rows, counters and requests have their     *)
(* types.                                                                  *)
THEOREM ServicesTyped == Spec => []TypeOK
<1>1. ServicesInv => TypeOK
  BY AuthInvSuffices, CacheInvSuffices, PermissionInvSuffices, FeedInvSuffices, BroadcastInvSuffices,
     WebhookInvSuffices, GivingInvSuffices, RecurringInvSuffices DEF ServicesInv, TypeOK, Parts
<1>2. QED
  BY <1>1, ServicesInitHolds, ServicesStepHolds, PTL DEF Spec
=============================================================================
