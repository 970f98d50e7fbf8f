---------------------------- MODULE PermissionCache ----------------------------
(***************************************************************************)
(* The permissions of one role name in one church, and their cache         *)
(* (src/auth/services/permissions.service.ts).  A template has defaults    *)
(* that a church adds to; a role of the church's own has just what it was  *)
(* given.                                                                  *)
(***************************************************************************)
EXTENDS Requests

CONSTANTS
    Grants,  \* permissions
    Defaults \* those of the template

ASSUME PermissionAssumption == Defaults \subseteq Grants

VARIABLES
    role,     \* "none", "template" or "owned"
    granted,  \* role_permissions of an owned role, church_role_permissions of a template
    cached,   \* perms:<church>:<role>, or None
    raced,    \* history: requests whose answer was read before a change
    outdated  \* history: the cache was left behind by a race or by Redis

permissionVars == <<role, granted, cached, raced, outdated, req>>

PermissionInit ==
    /\ role \in {"none", "template"}
    /\ granted = {}
    /\ cached = None
    /\ raced = {}
    /\ outdated = FALSE
    /\ ReqInit

Resolve(kind) ==
    CASE kind = "none" -> {}
      [] kind = "template" -> Defaults \cup granted
      [] kind = "owned" -> granted

Saw(kind, set) == [kind |-> kind, set |-> set]
Continues(p, at, seen) == req' = [req EXCEPT ![p] = [at |-> at, row |-> None, seen |-> seen]]

(* getPermissionsForRole: a hit changes nothing. *)
GetPermissionsForRole(p) ==
    /\ cached = None
    /\ Begins(p, "role", None, Saw("none", {}))
    /\ UNCHANGED <<role, granted, cached, raced, outdated>>

FindRoleRecord(p) ==
    /\ At(p, "role")
    /\ Continues(p, IF role = "none" THEN "cache" ELSE "grants", Saw(role, {}))
    /\ UNCHANGED <<role, granted, cached, raced, outdated>>

ResolvePermissions(p) ==
    /\ At(p, "grants")
    /\ Continues(p, "cache", Saw("read", Resolve(req[p].seen.kind)))
    /\ UNCHANGED <<role, granted, cached, raced, outdated>>

Remember(p) ==
    /\ At(p, "cache")
    /\ cached' = req[p].seen.set
    /\ outdated' = (p \in raced)
    /\ raced' = raced \ {p}
    /\ Ends(p)
    /\ UNCHANGED <<role, granted>>

Reading == {p \in Procs : At(p, "cache")}

SetPermissionsForRole(p, set) ==
    /\ role # "none"
    /\ Begins(p, "replace", None, Saw(role, set))
    /\ UNCHANGED <<role, granted, cached, raced, outdated>>

ResetRoleToDefaults(p) ==
    /\ role = "template"
    /\ Begins(p, "replace", None, Saw(role, {}))
    /\ UNCHANGED <<role, granted, cached, raced, outdated>>

(* Slip: the cache is left to expire. *)
SlipReplace(p) ==
    /\ At(p, "replace")
    /\ granted' = req[p].seen.set
    /\ raced' = raced \cup Reading
    /\ Ends(p)
    /\ UNCHANGED <<role, cached, outdated>>

(* One transaction replaces the rows. *)
Replace(p) ==
    /\ At(p, "replace")
    /\ granted' = req[p].seen.set
    /\ raced' = raced \cup Reading
    /\ GoesTo(p, "invalidate")
    /\ UNCHANGED <<role, cached, outdated>>

InvalidateCache(p) ==
    /\ At(p, "invalidate")
    /\ cached' = None
    /\ outdated' = FALSE
    /\ Ends(p)
    /\ UNCHANGED <<role, granted, raced>>

(* createRole: the name is looked up, then the unique row is inserted; an  *)
(* empty answer that is cached already stays.                              *)
CreateRole(p, set) ==
    /\ role = "none"
    /\ Begins(p, "insert", None, Saw("owned", set))
    /\ UNCHANGED <<role, granted, cached, raced, outdated>>

InsertRole(p) ==
    /\ At(p, "insert")
    /\ IF role = "none"
         THEN /\ role' = "owned"
              /\ granted' = req[p].seen.set
              /\ outdated' = (outdated \/ cached # None)
              /\ raced' = raced \cup Reading
         ELSE UNCHANGED <<role, granted, outdated, raced>>
    /\ Ends(p)
    /\ UNCHANGED cached

(* A quarter of an hour. *)
Expire ==
    /\ cached' = None
    /\ outdated' = FALSE
    /\ UNCHANGED <<role, granted, raced, req>>

(* Redis fails, which is logged, or the process dies. *)
PermissionDies(p) ==
    /\ Dies(p)
    /\ outdated' = (outdated \/ (At(p, "invalidate") /\ cached # None))
    /\ raced' = raced \ {p}
    /\ UNCHANGED <<role, granted, cached>>

PermissionNext ==
    \/ Expire
    \/ \E p \in Procs :
          \/ GetPermissionsForRole(p) \/ FindRoleRecord(p) \/ ResolvePermissions(p) \/ Remember(p)
          \/ ResetRoleToDefaults(p) \/ Replace(p) \/ InvalidateCache(p) \/ InsertRole(p)
          \/ PermissionDies(p)
          \/ \E set \in SUBSET Grants : SetPermissionsForRole(p, set) \/ CreateRole(p, set)

PermissionSpec == PermissionInit /\ [][PermissionNext]_permissionVars

-----------------------------------------------------------------------------
PermissionTypeOK ==
    /\ role \in {"none", "template", "owned"}
    /\ granted \subseteq Grants
    /\ cached = None \/ cached \subseteq Grants
    /\ raced \subseteq Procs /\ outdated \in BOOLEAN

(* The cache disagrees with the rows only while a change is about to       *)
(* invalidate it, or when it was left behind: by an answer read before the *)
(* change and stored after the invalidation, by Redis, or by the creation  *)
(* of a role whose name was asked for before (getPermissionsForRole,       *)
(* invalidateCache).                                                       *)
StaleFollowsRaces ==
    cached # None /\ cached # Resolve(role) =>
        outdated \/ \E p \in Procs : At(p, "invalidate")
=============================================================================
