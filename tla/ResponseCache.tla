----------------------------- MODULE ResponseCache -----------------------------
(***************************************************************************)
(* The cache of answers of one church, for one viewer and one query        *)
(* (src/common/interceptors/cache.interceptor.ts and                       *)
(* cache-version.interceptor.ts).  An entry is stored under the version    *)
(* that was current when the request came in; a write that succeeds sets a *)
(* version never used before.                                              *)
(***************************************************************************)
EXTENDS Integers, FiniteSets, Requests

CONSTANTS
    Replicas, \* processes of the server, each with its own version hint
    MaxWrites \* bound on the writes

ASSUME CacheAssumption == MaxWrites \in Nat /\ IsFiniteSet(Procs)

VARIABLES
    content, \* how many writes the database holds
    version, \* cache:ver:<church>, 0 when there is none
    issued,  \* versions made so far
    entry,   \* by version: the content the stored answer shows, or Absent
    hint,    \* versionHints, by replica
    answered \* history: the writes answered with their version set

cacheVars == <<content, version, issued, entry, hint, answered, req>>

Absent == -1
Versions == 0..MaxWrites

CacheInit ==
    /\ content = 0
    /\ version = 0
    /\ issued = 0
    /\ entry = [v \in Versions |-> Absent]
    /\ hint = [r \in Replicas |-> 0]
    /\ answered = 0
    /\ ReqInit

Reads(v, c) == [version |-> v, content |-> c]

(* readCache: one mget of the version there is and of the entry of the     *)
(* hint.                                                                   *)
Hit(r) == version = hint[r] /\ entry[version] # Absent

Get(p, r) ==
    /\ Idle(p)
    /\ hint' = [hint EXCEPT ![r] = version]
    /\ IF Hit(r) THEN UNCHANGED req ELSE Begins(p, "load", None, Reads(version, Absent))
    /\ UNCHANGED <<content, version, issued, entry, answered>>

(* The handler. *)
Load(p) ==
    /\ At(p, "load")
    /\ req' = [req EXCEPT ![p] = [at |-> "store", row |-> None,
                                  seen |-> Reads(@.seen.version, content)]]
    /\ UNCHANGED <<content, version, issued, entry, hint, answered>>

(* Slip: the key is made when the answer is there. *)
SlipKey(seen) == version

(* The key was made before the handler ran. *)
Key(seen) == seen.version

Store(p) ==
    /\ At(p, "store")
    /\ entry' = [entry EXCEPT ![Key(req[p].seen)] = req[p].seen.content]
    /\ Ends(p)
    /\ UNCHANGED <<content, version, issued, hint, answered>>

(* The handler of a write commits; its answer waits for the new version.   *)
Write(p) ==
    /\ content < MaxWrites
    /\ content' = content + 1
    /\ Begins(p, "bump", None, Reads(0, content'))
    /\ UNCHANGED <<version, issued, entry, hint, answered>>

Bump(p) ==
    /\ At(p, "bump") /\ issued < MaxWrites
    /\ issued' = issued + 1
    /\ version' = issued'
    /\ answered' = IF req[p].seen.content > answered THEN req[p].seen.content ELSE answered
    /\ Ends(p)
    /\ UNCHANGED <<content, entry, hint>>

(* Ten minutes at most; and a day without a write, which outlives every    *)
(* entry and every request.                                                *)
ExpireEntry(v) ==
    /\ entry' = [entry EXCEPT ![v] = Absent]
    /\ UNCHANGED <<content, version, issued, hint, answered, req>>

ExpireVersion ==
    /\ \A v \in Versions : entry[v] = Absent
    /\ \A p \in Procs : Idle(p)
    /\ version' = 0
    /\ UNCHANGED <<content, issued, entry, hint, answered, req>>

(* Redis fails, which is logged, or the process dies. *)
CacheDies(p) ==
    Dies(p) /\ UNCHANGED <<content, version, issued, entry, hint, answered>>

CacheNext ==
    \/ ExpireVersion
    \/ \E v \in Versions : ExpireEntry(v)
    \/ \E p \in Procs :
          \/ Load(p) \/ Store(p) \/ Write(p) \/ Bump(p) \/ CacheDies(p)
          \/ \E r \in Replicas : Get(p, r)

CacheSpec == CacheInit /\ [][CacheNext]_cacheVars

-----------------------------------------------------------------------------
CacheTypeOK ==
    /\ content \in 0..MaxWrites /\ issued \in 0..content /\ version \in 0..issued
    /\ entry \in [Versions -> Absent..MaxWrites]
    /\ hint \in [Replicas -> Versions]
    /\ answered \in 0..content

(* What the cache can serve holds every write whose answer was given with  *)
(* its version set, however reads, writes and late stores overlap: a       *)
(* member who has saved never sees the page of before (intercept).         *)
AnsweredWritesAreSeen ==
    entry[version] # Absent => entry[version] >= answered
=============================================================================
