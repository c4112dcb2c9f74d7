------------------------------ MODULE Permissions -------------------------------
(* Roles, who holds them, and the cache of the permissions that follow, which  *)
(* decides every request: roles.service.ts, rbac-cache.service.ts, the role    *)
(* part of users.service.ts, jwt-auth.guard.ts, permissions.guard.ts.          *)
(*                                                                             *)
(* A change of roles is written to the database first and the cache is         *)
(* invalidated after it; a lookup that misses reads the database first and     *)
(* fills the cache after it.                                                   *)
EXTENDS Naturals, FiniteSets

CONSTANTS
  Users,
  Roles,        \* role ids
  SystemRoles,  \* the roles that cannot be changed or deleted
  Permits,      \* permissions
  Calls,        \* slots for requests in flight; each is used again and again
  Faults        \* {"abort"}: an await throws or the process dies

VARIABLES
  live,       \* the roles that exist
  grants,     \* RolePermission
  holds,      \* EmployeeRole
  cache,      \* rbac:user:*:roles, by user: the empty set, or the set of what is cached
  call,       \* the requests in flight
  assigned,   \* history: roles given and not taken back
  disturbed   \* history: two requests overlapped, or one stopped half-way

tables == <<live, grants, holds>>
vars   == <<tables, cache, call, assigned, disturbed>>

NoCall == [do |-> "idle", user |-> "nobody", role |-> "norole", perms |-> {}]

TypeOK ==
  /\ live \subseteq Roles /\ SystemRoles \subseteq live
  /\ grants \in [Roles -> SUBSET Permits]
  /\ holds \in [Users -> SUBSET live]
  /\ \A u \in Users : cache[u] = {} \/ \E p \in SUBSET Permits : cache[u] = {p}
  /\ call \in [Calls -> [do : {"idle", "load", "fill", "replace", "delete", "assign", "remove",
                               "drop_user", "list_keys", "drop_keys"},
                         user : Users \cup {"nobody"}, role : Roles \cup {"norole"},
                         perms : SUBSET (Permits \cup Users)]]
  /\ assigned \in [Users -> SUBSET Roles] /\ disturbed \in BOOLEAN

\* A company starts with its system roles, and one of them is its administrator's.
Init ==
  /\ live = SystemRoles
  /\ grants = [r \in Roles |-> IF r \in SystemRoles THEN Permits ELSE {}]
  /\ holds = [u \in Users |-> {}] /\ assigned = holds
  /\ cache = [u \in Users |-> {}]
  /\ call = [c \in Calls |-> NoCall] /\ disturbed = FALSE

\* loadPermissionsFromDb
Current(u) == UNION {grants[r] : r \in holds[u]}

Busy        == \E c \in Calls : call[c] # NoCall
At(c, step) == call[c].do = step
Finish(c)   == call' = [call EXCEPT ![c] = NoCall]

Start(c, next) ==
  /\ call[c] = NoCall
  /\ call' = [call EXCEPT ![c] = next]
  /\ disturbed' = (disturbed \/ Busy)
  /\ UNCHANGED <<tables, cache, assigned>>

\* What follows a write: the key of one user, or every key, is deleted.
ForgetUser(c) == call' = [call EXCEPT ![c].do = "drop_user"]
ForgetAll(c)  == call' = [call EXCEPT ![c].do = "list_keys"]

-------------------------------------------------------------------------------
(* JwtAuthGuard and getUserPermissions; a hit changes nothing                 *)

LookupMiss(c, u) ==
  /\ cache[u] = {}
  /\ Start(c, [NoCall EXCEPT !.do = "load", !.user = u])

LookupLoad(c) ==
  /\ At(c, "load")
  /\ call' = [call EXCEPT ![c].do = "fill", ![c].perms = Current(call[c].user)]
  /\ UNCHANGED <<tables, cache, assigned, disturbed>>

LookupFill(c) ==
  /\ At(c, "fill")
  /\ cache' = [cache EXCEPT ![call[c].user] = {call[c].perms}]
  /\ Finish(c)
  /\ UNCHANGED <<tables, assigned, disturbed>>

\* PermissionsGuard, for a request that needs the permissions in required.
Allowed(perms, required) == required \subseteq perms

-------------------------------------------------------------------------------
(* RolesService                                                               *)

createRole(r) ==
  /\ r \notin live
  /\ live' = live \cup {r}
  /\ UNCHANGED <<grants, holds, cache, call, assigned, disturbed>>

ReplaceCheck(c, r, perms) ==
  /\ r \in live \ SystemRoles
  /\ Start(c, [NoCall EXCEPT !.do = "replace", !.role = r, !.perms = perms])

\* Mutant: the cache is not invalidated.
ReplaceAndStop(c) ==
  /\ At(c, "replace")
  /\ grants' = [grants EXCEPT ![call[c].role] = IF call[c].role \in live THEN call[c].perms ELSE @]
  /\ Finish(c)
  /\ UNCHANGED <<live, holds, cache, assigned, disturbed>>

\* One transaction; without the role the foreign key refuses it.
ReplaceWrite(c) ==
  /\ At(c, "replace")
  /\ IF call[c].role \in live
     THEN grants' = [grants EXCEPT ![call[c].role] = call[c].perms] /\ ForgetAll(c)
     ELSE Finish(c) /\ UNCHANGED grants
  /\ UNCHANGED <<live, holds, cache, assigned, disturbed>>

\* Mutant: the employees who have the role are not counted.
DeleteHeld(c, r) ==
  /\ r \in live \ SystemRoles
  /\ Start(c, [NoCall EXCEPT !.do = "delete", !.role = r])

DeleteCheck(c, r) ==
  /\ r \in live \ SystemRoles /\ \A u \in Users : r \notin holds[u]
  /\ Start(c, [NoCall EXCEPT !.do = "delete", !.role = r])

\* Mutant: the rows that assign the role stay.
DeleteKeepsRows(c) ==
  /\ At(c, "delete")
  /\ live' = live \ {call[c].role} /\ grants' = [grants EXCEPT ![call[c].role] = {}]
  /\ ForgetAll(c)
  /\ UNCHANGED <<holds, cache, assigned, disturbed>>

\* The rows that assign the role go with it.
DeleteWrite(c) ==
  /\ At(c, "delete")
  /\ LET r == call[c].role IN
       /\ live' = live \ {r} /\ grants' = [grants EXCEPT ![r] = {}]
       /\ holds' = [u \in Users |-> holds[u] \ {r}]
  /\ ForgetAll(c)
  /\ UNCHANGED <<cache, assigned, disturbed>>

-------------------------------------------------------------------------------
(* UsersService.assignRoles and removeRole                                    *)

AssignCheck(c, u, r) == Start(c, [NoCall EXCEPT !.do = "assign", !.user = u, !.role = r])
RemoveCheck(c, u, r) ==
  r \in holds[u] /\ Start(c, [NoCall EXCEPT !.do = "remove", !.user = u, !.role = r])

AssignWrite(c) ==
  /\ At(c, "assign")
  /\ LET u == call[c].user r == call[c].role IN
       IF r \in live
       THEN /\ holds' = [holds EXCEPT ![u] = @ \cup {r}]
            /\ assigned' = [assigned EXCEPT ![u] = @ \cup {r}] /\ ForgetUser(c)
       ELSE Finish(c) /\ UNCHANGED <<holds, assigned>>
  /\ UNCHANGED <<live, grants, cache, disturbed>>

RemoveWrite(c) ==
  /\ At(c, "remove")
  /\ LET u == call[c].user r == call[c].role IN
       IF r \in holds[u]
       THEN /\ holds' = [holds EXCEPT ![u] = @ \ {r}]
            /\ assigned' = [assigned EXCEPT ![u] = @ \ {r}] /\ ForgetUser(c)
       ELSE Finish(c) /\ UNCHANGED <<holds, assigned>>
  /\ UNCHANGED <<live, grants, cache, disturbed>>

-------------------------------------------------------------------------------
(* Invalidation                                                               *)

invalidateUser(c) ==
  /\ At(c, "drop_user")
  /\ cache' = [cache EXCEPT ![call[c].user] = {}] /\ Finish(c)
  /\ UNCHANGED <<tables, assigned, disturbed>>

\* invalidateCompany lists the keys and deletes those it listed.
InvalidateList(c) ==
  /\ At(c, "list_keys")
  /\ call' = [call EXCEPT ![c] = [NoCall EXCEPT !.do = "drop_keys",
                                   !.perms = {u \in Users : cache[u] # {}}]]
  /\ UNCHANGED <<tables, cache, assigned, disturbed>>

InvalidateDrop(c) ==
  /\ At(c, "drop_keys")
  /\ cache' = [u \in Users |-> IF u \in call[c].perms THEN {} ELSE cache[u]] /\ Finish(c)
  /\ UNCHANGED <<tables, assigned, disturbed>>

\* The five minutes of an entry are over.
Expire(u) ==
  /\ cache[u] # {}
  /\ cache' = [cache EXCEPT ![u] = {}]
  /\ UNCHANGED <<tables, call, assigned, disturbed>>

Abort(c) ==
  /\ "abort" \in Faults /\ call[c] # NoCall
  /\ Finish(c) /\ disturbed' = TRUE
  /\ UNCHANGED <<tables, cache, assigned>>

Next ==
  \/ \E c \in Calls :
       \/ \E u \in Users : LookupMiss(c, u) \/ \E r \in Roles : AssignCheck(c, u, r) \/ RemoveCheck(c, u, r)
       \/ \E r \in Roles : DeleteCheck(c, r) \/ \E p \in SUBSET Permits : ReplaceCheck(c, r, p)
       \/ LookupLoad(c) \/ LookupFill(c) \/ ReplaceWrite(c) \/ DeleteWrite(c)
       \/ AssignWrite(c) \/ RemoveWrite(c) \/ invalidateUser(c)
       \/ InvalidateList(c) \/ InvalidateDrop(c) \/ Abort(c)
  \/ \E r \in Roles : createRole(r)
  \/ \E u \in Users : Expire(u)

Spec == Init /\ [][Next]_vars

-------------------------------------------------------------------------------
\* Between requests, if none overlapped and none stopped half-way, what is cached
\* for a user allows exactly what his roles allow now, and nobody has lost a role
\* that was not taken from him.
CacheIsCurrent ==
  ~disturbed /\ ~Busy =>
    \A u \in Users :
      /\ \A p \in cache[u], q \in Permits : Allowed(p, {q}) <=> q \in Current(u)
      /\ holds[u] = assigned[u]
===============================================================================
