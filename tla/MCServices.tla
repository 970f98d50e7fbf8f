------------------------------- MODULE MCServices -------------------------------
(* Services that share no state, in turn: a behaviour is one of one part.     *)
EXTENDS Authenticator, ResponseCache, PermissionCache, SyncFeed, Broadcasts,
        WebhookDelivery, OnlineGiving, RecurringGiving, TLC

VARIABLE part

Parts == {"factor", "answers", "permissions", "feed", "broadcast", "webhook",
          "online", "recurring"}

(* The variables of each part; the requests are shared. *)
OfFactor == <<factor, revisions, approved, challenge, now, proven, spent, reused>>
OfAnswers == <<content, version, issued, entry, hint, answered>>
OfPermissions == <<role, granted, cached, raced, outdated>>
OfBroadcast == <<broadcast, recipient, message, sendJob, due, mishaps, settled>>
OfWebhook == <<subscription, allowed, delivery, postJob, endpoint, accidents>>
OfOnline == <<fund, gift, page, event, givingYear, contested>>
OfRecurring == <<schedule, job, today, charged, early, faults, cancelled>>

vars == <<OfFactor, OfAnswers, OfPermissions, feedVars, OfBroadcast, OfWebhook,
          OfOnline, OfRecurring, req, part>>

Init ==
    /\ part \in Parts
    /\ AuthInit /\ CacheInit /\ PermissionInit /\ FeedInit /\ BroadcastInit /\ WebhookInit
    /\ GivingInit /\ RecurringInit
    /\ part = "permissions" \/ role = "none"

Next ==
    /\ UNCHANGED part
    /\ \/ part = "factor" /\ AuthNext
          /\ UNCHANGED <<OfAnswers, OfPermissions, feedVars, OfBroadcast,
                         OfWebhook, OfOnline, OfRecurring>>
       \/ part = "answers" /\ CacheNext
          /\ UNCHANGED <<OfFactor, OfPermissions, feedVars, OfBroadcast,
                         OfWebhook, OfOnline, OfRecurring>>
       \/ part = "permissions" /\ PermissionNext
          /\ UNCHANGED <<OfFactor, OfAnswers, feedVars, OfBroadcast,
                         OfWebhook, OfOnline, OfRecurring>>
       \/ part = "feed" /\ FeedNext
          /\ UNCHANGED <<OfFactor, OfAnswers, OfPermissions, OfBroadcast,
                         OfWebhook, OfOnline, OfRecurring, req>>
       \/ part = "broadcast" /\ BroadcastNext
          /\ UNCHANGED <<OfFactor, OfAnswers, OfPermissions, feedVars,
                         OfWebhook, OfOnline, OfRecurring>>
       \/ part = "webhook" /\ WebhookNext
          /\ UNCHANGED <<OfFactor, OfAnswers, OfPermissions, feedVars,
                         OfBroadcast, OfOnline, OfRecurring>>
       \/ part = "online" /\ GivingNext
          /\ UNCHANGED <<OfFactor, OfAnswers, OfPermissions, feedVars,
                         OfBroadcast, OfWebhook, OfRecurring>>
       \/ part = "recurring" /\ RecurringNext
          /\ UNCHANGED <<OfFactor, OfAnswers, OfPermissions, feedVars,
                         OfBroadcast, OfWebhook, OfOnline>>

Spec == Init /\ [][Next]_vars

(* Of the part whose behaviour it is; the others are as they began. *)
TypeOK ==
    CASE part = "factor" -> AuthTypeOK
      [] part = "answers" -> CacheTypeOK
      [] part = "permissions" -> PermissionTypeOK
      [] part = "feed" -> FeedTypeOK
      [] part = "broadcast" -> BroadcastTypeOK
      [] part = "webhook" -> WebhookTypeOK
      [] part = "online" -> GivingTypeOK
      [] part = "recurring" -> RecurringTypeOK

(* The parts take their values from the same few names. *)
Symmetry == Permutations(Procs) \cup Permutations(Recipients)
=============================================================================
