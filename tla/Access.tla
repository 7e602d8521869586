------------------------------- MODULE Access -------------------------------
(***************************************************************************)
(* Who may do what on a project: memberships, roles, and the Redis copy of *)
(* each user's grants that every request is authorised from.               *)
(*                                                                         *)
(* A request loads its caller's grants (cache, else PostgreSQL, then a SET *)
(* with a time to live), checks, commits, and only then evicts: other      *)
(* requests, Redis failures and a killed process fall between any two of   *)
(* these.  PostgreSQL runs at READ COMMITTED and no row is read for        *)
(* update, so a check may be out of date when its transaction commits.     *)
(*                                                                         *)
(* The epoch in the cache key only grows and each request reads it before  *)
(* its GET or DEL, so a key of an earlier epoch is never read again: the   *)
(* cache holds the current epoch's entries and a bump empties it.          *)
(* Administrators are fixed here; Sessions has the accounts.               *)
(***************************************************************************)
EXTENDS Naturals, FiniteSets

CONSTANTS
    Users,        \* account ids
    Admins,       \* those with is_admin
    Projects,     \* project ids
    RoleIds,      \* role row ids, the system roles' among them
    SystemRoles,  \* system role -> its catalogue permissions; a system row's id is its name
    CustomNames,  \* names an administrator may give a role
    Permissions,  \* the catalogue
    Requests,     \* requests the API can have in flight
    TTL,          \* grant_cache_ttl_seconds, in ticks
    MaxOps,       \* bound: requests begun
    MaxFaults,    \* bound: failed Redis commands and killed requests
    None          \* SQL NULL, a missing key

SystemNames == DOMAIN SystemRoles
Names == SystemNames \cup CustomNames

ASSUME AccessAssumption ==
    /\ IsFiniteSet(Users) /\ IsFiniteSet(Projects) /\ Admins \subseteq Users
    /\ SystemNames \subseteq RoleIds /\ {"owner", "viewer"} \subseteq SystemNames
    /\ \A n \in SystemNames : SystemRoles[n] \subseteq Permissions
    /\ {"grant", "revoke"} \subseteq Permissions
    /\ TTL \in Nat \ {0} /\ MaxOps \in Nat /\ MaxFaults \in Nat
    /\ None \notin Users \cup Projects \cup RoleIds \cup Names \cup Nat

VARIABLES
    active,    \* accounts not deactivated
    projects,  \* projects created
    roles,     \* role id -> roles row with its live role_permissions rows
    members,   \* user -> project -> the pair's newest project_memberships row
    epoch,     \* askrepo:perm:epoch
    cache,     \* user -> the entry under the current epoch's key
    req,       \* request -> how far it is and what it has read
    budget     \* what is left of each bound

vars == <<active, projects, roles, members, epoch, cache, req, budget>>

-----------------------------------------------------------------------------
Role ==
    [state : {"absent", "live", "deleted"}, name : Names \cup {None},
     perms : SUBSET Permissions]

\* `row` counts the pair's rows: a soft-deleted membership granted again is a new row.
ProjectMembership == [role : RoleIds \cup {None}, row : Nat]

ProjectGrant == [role : Names, perms : SUBSET Permissions]
Grants == UNION {[P -> ProjectGrant] : P \in SUBSET Projects}

\* `ttl` 0 never expires.  `late` is no data of the program's: it marks an entry whose
\* snapshot had been overtaken when it was written, or whose eviction was lost.
Entry == [grants : Grants, ttl : 0..TTL, late : BOOLEAN]

\* `crossed` is no data either: another transaction has committed since this request
\* made the checks it is about to act on.
Request ==
    [stage : {"idle", "load", "write", "ready", "commit", "evict", "bump"},
     op : {"none", "grant", "change", "revoke", "create", "update", "delete", "deactivate"},
     actor : Users \cup {None}, grants : Grants, key : Nat \cup {None},
     user : Users \cup {None}, project : Projects \cup {None},
     role : RoleIds \cup {None}, seen : RoleIds \cup {None}, row : Nat,
     name : Names \cup {None}, perms : (SUBSET Permissions) \cup {None},
     old : SUBSET Permissions, crossed : BOOLEAN]

TypeOK ==
    /\ active \subseteq Users
    /\ projects \subseteq Projects
    /\ roles \in [RoleIds -> Role]
    /\ members \in [Users -> [Projects -> ProjectMembership]]
    /\ epoch \in Nat
    /\ \A u \in Users : cache[u] = None \/ cache[u] \in Entry
    /\ req \in [Requests -> Request]
    /\ budget \in [ops : Nat, faults : Nat]

NoGrants == [p \in {} |-> None]

Idle == [stage |-> "idle", op |-> "none", actor |-> None, grants |-> NoGrants, key |-> None,
         user |-> None, project |-> None, role |-> None, seen |-> None, row |-> 0,
         name |-> None, perms |-> None, old |-> {}, crossed |-> FALSE]

-----------------------------------------------------------------------------
\* Roles and memberships as the repositories select them.

LiveRole(k) == roles[k].state = "live"
GetByName(n) == {k \in RoleIds : LiveRole(k) /\ roles[k].name = n}
PermissionsFor(k) == roles[k].perms
GetFor(u, p) == members[u][p].role
IsMember(u, p) == GetFor(u, p) # None

MemberCount(k) == Cardinality({x \in Users \X Projects : GetFor(x[1], x[2]) = k})

\* A membership of a deleted role opens nothing; one of an empty role still opens the project.
LoadGrants(u) ==
    [p \in {x \in Projects : IsMember(u, x) /\ LiveRole(GetFor(u, x))} |->
        [role |-> roles[GetFor(u, p)].name, perms |-> PermissionsFor(GetFor(u, p))]]

HoldsOwner(u, p) ==
    IsMember(u, p) /\ LiveRole(GetFor(u, p)) /\ roles[GetFor(u, p)].name = "owner"

\* Mutant: owner rows are counted without reading through to the account.
LiveOwnersAnyAccount(p, excluding) == {u \in Users \ {excluding} : HoldsOwner(u, p)}

LiveOwners(p, excluding) == {u \in active \ {excluding} : HoldsOwner(u, p)}

SolelyOwnedBy(u) ==
    {p \in Projects : HoldsOwner(u, p) /\ LiveOwners(p, u) = {}}

OwnerlessProjects == {p \in projects : ~\E u \in active : HoldsOwner(u, p)}

\* The default permission set of each system role, whatever its row holds now.
ReconcilePermissions(k) == [roles[k] EXCEPT !.perms = SystemRoles[k]]
EnsureSystemRoles ==
    [k \in RoleIds |->
        IF k \notin SystemNames THEN roles[k]
        ELSE IF LiveRole(k) THEN ReconcilePermissions(k)
        ELSE [state |-> "live", name |-> k, perms |-> SystemRoles[k]]]

-----------------------------------------------------------------------------
\* What a request may do, from the snapshot it was handed.

IsAdmin(q) == q.actor \in Admins

RequirePermission(q, p, permission) ==
    IsAdmin(q) \/ (p \in DOMAIN q.grants /\ permission \in q.grants[p].perms)

RequireEditable(k) == LiveRole(k) /\ k \notin SystemNames

RefuseIfLastOwner(p, u) == LiveOwners(p, u) # {}

-----------------------------------------------------------------------------
\* The grant cache.

Spend(kind) == budget[kind] > 0 /\ budget' = [budget EXCEPT ![kind] = @ - 1]

\* Mutant: the snapshot is stored without a time to live.
SnapshotForever(u, g) == [grants |-> g, ttl |-> 0, late |-> g # LoadGrants(u)]

Snapshot(u, g) == [grants |-> g, ttl |-> TTL, late |-> g # LoadGrants(u)]

Read(u) == cache[u]

\* The middleware reads the account, then the epoch, then the entry.
LoadAuthenticatedUser(r, u) ==
    /\ req[r].stage = "idle" /\ u \in active
    /\ Spend("ops")
    /\ req' = [req EXCEPT ![r] =
                  IF Read(u) # None
                  THEN [Idle EXCEPT !.stage = "ready", !.actor = u, !.grants = Read(u).grants]
                  ELSE [Idle EXCEPT !.stage = "load", !.actor = u, !.key = epoch]]
    /\ UNCHANGED <<active, projects, roles, members, epoch, cache>>

\* Redis is down for the key: PostgreSQL answers and nothing is cached.
CacheUnreachable(r) ==
    /\ req[r].stage = "load" /\ req[r].key # None
    /\ Spend("faults")
    /\ req' = [req EXCEPT ![r].key = None]
    /\ UNCHANGED <<active, projects, roles, members, epoch, cache>>

Load(r) ==
    /\ req[r].stage = "load"
    /\ req' = [req EXCEPT ![r].grants = LoadGrants(req[r].actor),
                          ![r].stage = IF req[r].key = None THEN "ready" ELSE "write"]
    /\ UNCHANGED <<active, projects, roles, members, epoch, cache, budget>>

\* A key of a past epoch is an orphan: nobody reads what is stored there.
Write(r) ==
    /\ req[r].stage = "write"
    /\ LET u == req[r].actor IN
       cache' = IF req[r].key = epoch
                THEN [cache EXCEPT ![u] = Snapshot(u, req[r].grants)] ELSE cache
    /\ req' = [req EXCEPT ![r].stage = "ready", ![r].key = None]
    /\ UNCHANGED <<active, projects, roles, members, epoch, budget>>

WriteFails(r) ==
    /\ req[r].stage = "write"
    /\ Spend("faults")
    /\ req' = [req EXCEPT ![r].stage = "ready", ![r].key = None]
    /\ UNCHANGED <<active, projects, roles, members, epoch, cache>>

InvalidateUser(r) ==
    /\ req[r].stage = "evict"
    /\ cache' = [cache EXCEPT ![req[r].user] = None]
    /\ req' = [req EXCEPT ![r] = Idle]
    /\ UNCHANGED <<active, projects, roles, members, epoch, budget>>

BumpEpoch(r) ==
    /\ req[r].stage = "bump"
    /\ epoch' = epoch + 1
    /\ cache' = [u \in Users |-> None]
    /\ req' = [req EXCEPT ![r] = Idle]
    /\ UNCHANGED <<active, projects, roles, members, budget>>

\* The eviction fails, or the process dies before it: what is cached stays.
EvictionLost(r) ==
    /\ req[r].stage \in {"evict", "bump"}
    /\ Spend("faults")
    /\ cache' = [u \in Users |->
                    IF cache[u] # None /\ (req[r].stage = "bump" \/ u = req[r].user)
                    THEN [cache[u] EXCEPT !.late = TRUE] ELSE cache[u]]
    /\ req' = [req EXCEPT ![r] = Idle]
    /\ UNCHANGED <<active, projects, roles, members, epoch>>

\* Redis drops the entries whose time is up.
Tick ==
    /\ \E u \in Users : cache[u] # None /\ cache[u].ttl > 0
    /\ cache' = [u \in Users |->
                    IF cache[u] = None \/ cache[u].ttl = 0 THEN cache[u]
                    ELSE IF cache[u].ttl = 1 THEN None
                    ELSE [cache[u] EXCEPT !.ttl = @ - 1]]
    /\ UNCHANGED <<active, projects, roles, members, epoch, req, budget>>

-----------------------------------------------------------------------------
\* Handlers.  A read step checks and keeps what the commit will use; a commit step is
\* the transaction's end.  A request that is refused, or only reads, just ends.

End(r) ==
    /\ req[r].stage = "ready"
    /\ req' = [req EXCEPT ![r] = Idle]
    /\ UNCHANGED <<active, projects, roles, members, epoch, cache, budget>>

Checked(r, q) ==
    /\ req' = [req EXCEPT ![r] = [q EXCEPT !.stage = "commit", !.crossed = FALSE,
                                           !.grants = NoGrants]]
    /\ UNCHANGED <<active, projects, roles, members, epoch, cache, budget>>

\* The transaction of r commits and every other request under way is crossed by it.
Committed(r, q) ==
    req' = [x \in Requests |->
               IF x = r THEN q
               ELSE IF req[x].stage \in {"idle", "evict", "bump"} THEN req[x]
               ELSE [req[x] EXCEPT !.crossed = TRUE]]

ThenEvict(r, u) == Committed(r, [Idle EXCEPT !.stage = "evict", !.user = u])
ThenBump(r) == Committed(r, [Idle EXCEPT !.stage = "bump"])

GrantRead(r, p, u, n) ==
    /\ req[r].stage = "ready" /\ p \in projects
    /\ RequirePermission(req[r], p, "grant")
    /\ u \in active /\ ~IsMember(u, p)
    /\ \E k \in GetByName(n) :
          Checked(r, [req[r] EXCEPT !.op = "grant", !.user = u, !.project = p, !.role = k])

\* The partial unique index refuses the second of two grants; the request fails.
InsertMembership(u, p, k) ==
    members' = [members EXCEPT ![u][p] = [role |-> k, row |-> @.row + 1]]

GrantCommit(r) ==
    LET q == req[r] IN
    /\ q.stage = "commit" /\ q.op = "grant"
    /\ \/ /\ ~IsMember(q.user, q.project)
          /\ InsertMembership(q.user, q.project, q.role)
          /\ ThenEvict(r, q.user)
       \/ /\ IsMember(q.user, q.project)
          /\ req' = [req EXCEPT ![r] = Idle]
          /\ UNCHANGED members
    /\ UNCHANGED <<active, projects, roles, epoch, cache, budget>>

ChangeRoleRead(r, p, u, n) ==
    /\ req[r].stage = "ready"
    /\ RequirePermission(req[r], p, "grant")
    /\ IsMember(u, p) /\ u \in active
    /\ n # "owner" => RefuseIfLastOwner(p, u)
    /\ \E k \in GetByName(n) :
          Checked(r, [req[r] EXCEPT !.op = "change", !.user = u, !.project = p, !.role = k,
                                    !.seen = GetFor(u, p), !.row = members[u][p].row])

\* The write goes to the row that was read, and only if the role differs from it.
SetRole(q) ==
    members' = IF members[q.user][q.project].row = q.row /\ IsMember(q.user, q.project)
                  /\ q.role # q.seen
               THEN [members EXCEPT ![q.user][q.project].role = q.role] ELSE members

ChangeRoleCommit(r) ==
    /\ req[r].stage = "commit" /\ req[r].op = "change"
    /\ SetRole(req[r])
    /\ ThenEvict(r, req[r].user)
    /\ UNCHANGED <<active, projects, roles, epoch, cache, budget>>

RevokeRead(r, p, u) ==
    /\ req[r].stage = "ready"
    /\ RequirePermission(req[r], p, "revoke")
    /\ IsMember(u, p)
    /\ RefuseIfLastOwner(p, u)
    /\ Checked(r, [req[r] EXCEPT !.op = "revoke", !.user = u, !.project = p,
                                 !.row = members[u][p].row])

DeleteMembership(q) ==
    members' = IF members[q.user][q.project].row = q.row
               THEN [members EXCEPT ![q.user][q.project].role = None] ELSE members

\* Mutant: the member's cached grants are not evicted.
RevokeCommitUnevicted(r) ==
    /\ req[r].stage = "commit" /\ req[r].op = "revoke"
    /\ DeleteMembership(req[r])
    /\ Committed(r, Idle)
    /\ UNCHANGED <<active, projects, roles, epoch, cache, budget>>

RevokeCommit(r) ==
    /\ req[r].stage = "commit" /\ req[r].op = "revoke"
    /\ DeleteMembership(req[r])
    /\ ThenEvict(r, req[r].user)
    /\ UNCHANGED <<active, projects, roles, epoch, cache, budget>>

\* Project and owner membership in one transaction.
CreateProject(r, p) ==
    /\ req[r].stage = "ready" /\ p \notin projects
    /\ projects' = projects \cup {p}
    /\ \E k \in GetByName("owner") : InsertMembership(req[r].actor, p, k)
    /\ ThenEvict(r, req[r].actor)
    /\ UNCHANGED <<active, roles, epoch, cache, budget>>

CreateRoleRead(r, k, n) ==
    /\ req[r].stage = "ready" /\ IsAdmin(req[r])
    /\ roles[k].state = "absent" /\ GetByName(n) = {}
    /\ \A x \in Requests : req[x].op = "create" => req[x].role # k   \* ids are drawn fresh
    /\ Checked(r, [req[r] EXCEPT !.op = "create", !.role = k, !.name = n])

CreateRoleCommit(r) ==
    LET q == req[r] IN
    /\ q.stage = "commit" /\ q.op = "create"
    /\ roles' = IF GetByName(q.name) # {} THEN roles       \* uq_roles_name: the insert fails
                ELSE [roles EXCEPT ![q.role] =
                         [state |-> "live", name |-> q.name, perms |-> {}]]
    /\ Committed(r, Idle)
    /\ UNCHANGED <<active, projects, members, epoch, cache, budget>>

\* A rename holds the role's row lock until the transaction ends.
Renaming(k) == \E x \in Requests : req[x].op = "update" /\ req[x].role = k /\ req[x].name # None

UpdateRoleRead(r, k, n, S) ==
    /\ req[r].stage = "ready" /\ IsAdmin(req[r])
    /\ RequireEditable(k)
    /\ n # None => n # roles[k].name /\ GetByName(n) = {} /\ ~Renaming(k)
    /\ Checked(r, [req[r] EXCEPT !.op = "update", !.role = k, !.name = n, !.perms = S,
                                 !.old = PermissionsFor(k)])

\* The rows the bulk UPDATE saw are retired; rows another update has inserted since are
\* not, and an insert that repeats one of those violates the index.
ReplacePermissions(q) == IF q.perms = None THEN roles[q.role].perms
                         ELSE (roles[q.role].perms \ q.old) \cup q.perms
UpdateConflicts(q) ==
    \/ q.perms # None /\ (roles[q.role].perms \ q.old) \cap q.perms # {}
    \/ q.name # None /\ LiveRole(q.role) /\ GetByName(q.name) # {}

UpdateRoleCommit(r) ==
    LET q == req[r] IN
    /\ q.stage = "commit" /\ q.op = "update"
    /\ \/ /\ UpdateConflicts(q)
          /\ req' = [req EXCEPT ![r] = Idle]
          /\ UNCHANGED roles
       \/ /\ ~UpdateConflicts(q)
          /\ roles' = [roles EXCEPT ![q.role].perms = ReplacePermissions(q),
                                    ![q.role].name = IF q.name = None THEN @ ELSE q.name]
          /\ ThenBump(r)
    /\ UNCHANGED <<active, projects, members, epoch, cache, budget>>

DeleteRoleRead(r, k) ==
    /\ req[r].stage = "ready" /\ IsAdmin(req[r])
    /\ RequireEditable(k) /\ MemberCount(k) = 0
    /\ Checked(r, [req[r] EXCEPT !.op = "delete", !.role = k])

DeleteRoleCommit(r) ==
    /\ req[r].stage = "commit" /\ req[r].op = "delete"
    /\ roles' = [roles EXCEPT ![req[r].role].state = "deleted"]
    /\ ThenBump(r)
    /\ UNCHANGED <<active, projects, members, epoch, cache, budget>>

\* `python -m app.cli restore-system-roles`: one transaction, then the bump.
RestoreSystemRoles(r) ==
    /\ req[r].stage = "idle"
    /\ Spend("ops")
    /\ roles' = EnsureSystemRoles
    /\ ThenBump(r)
    /\ UNCHANGED <<active, projects, members, epoch, cache>>

DeactivateRead(r, u) ==
    /\ req[r].stage = "ready" /\ IsAdmin(req[r])
    /\ u \in active
    /\ u \in Admins => (active \cap Admins) \ {u} # {}
    /\ SolelyOwnedBy(u) = {}
    /\ Checked(r, [req[r] EXCEPT !.op = "deactivate", !.user = u])

\* Memberships stay, so that the account could be given back its exact access.
DeactivateCommit(r) ==
    /\ req[r].stage = "commit" /\ req[r].op = "deactivate"
    /\ active' = active \ {req[r].user}
    /\ Committed(r, Idle)
    /\ UNCHANGED <<projects, roles, members, epoch, cache, budget>>

-----------------------------------------------------------------------------
\* The migration has seeded the roles; a partial restore may have left the viewer's
\* permissions wrong.  Projects may already be there, with one or more owners.
Init ==
    /\ active = Users
    /\ \E S \in SUBSET SystemRoles["viewer"] :
          roles = [k \in RoleIds |->
                      IF k = "viewer" THEN [state |-> "live", name |-> k, perms |-> S]
                      ELSE IF k \in SystemNames
                      THEN [state |-> "live", name |-> k, perms |-> SystemRoles[k]]
                      ELSE [state |-> "absent", name |-> None, perms |-> {}]]
    /\ \E P \in SUBSET Projects, O \in (SUBSET Users) \ {{}} :
          /\ projects = P
          /\ members = [u \in Users |-> [p \in Projects |->
                           IF u \in O /\ p \in P THEN [role |-> "owner", row |-> 1]
                           ELSE [role |-> None, row |-> 0]]]
    /\ epoch = 0
    /\ cache = [u \in Users |-> None]
    /\ req = [r \in Requests |-> Idle]
    /\ budget = [ops |-> MaxOps, faults |-> MaxFaults]

Begin(r) == (\E u \in Users : LoadAuthenticatedUser(r, u)) \/ RestoreSystemRoles(r)

Authorise(r) == CacheUnreachable(r) \/ Load(r) \/ Write(r) \/ WriteFails(r)

Check(r) ==
    \/ \E p \in Projects, u \in Users : RevokeRead(r, p, u)
    \/ \E p \in Projects, u \in Users, n \in Names :
          GrantRead(r, p, u, n) \/ ChangeRoleRead(r, p, u, n)
    \/ \E p \in Projects : CreateProject(r, p)
    \/ \E k \in RoleIds, n \in CustomNames : CreateRoleRead(r, k, n)
    \/ \E k \in RoleIds, n \in Names \cup {None}, S \in (SUBSET Permissions) \cup {None} :
          UpdateRoleRead(r, k, n, S)
    \/ \E k \in RoleIds : DeleteRoleRead(r, k)
    \/ \E u \in Users : DeactivateRead(r, u)
    \/ End(r)

Commit(r) ==
    \/ GrantCommit(r) \/ ChangeRoleCommit(r) \/ RevokeCommit(r) \/ CreateRoleCommit(r)
    \/ UpdateRoleCommit(r) \/ DeleteRoleCommit(r) \/ DeactivateCommit(r)

Evict(r) == InvalidateUser(r) \/ BumpEpoch(r) \/ EvictionLost(r)

Next ==
    \/ \E r \in Requests : Begin(r) \/ Authorise(r) \/ Check(r) \/ Commit(r) \/ Evict(r)
    \/ Tick

Spec == Init /\ [][Next]_vars

\* A request the API accepted goes on until it ends, and time passes.
FairSpec ==
    /\ Spec
    /\ \A r \in Requests : WF_vars(Authorise(r) \/ Check(r) \/ Commit(r) \/ Evict(r))
    /\ WF_vars(Tick)

-----------------------------------------------------------------------------
EvictionPending(u) ==
    \E r \in Requests :
        req[r].stage = "bump" \/ (req[r].stage = "evict" /\ req[r].user = u)

\* What a user is authorised from is what PostgreSQL grants them, once the evictions of
\* the commits so far are done: core/grant_cache.py evicts after the commit, so the only
\* entries that may differ are one stored by a request whose read a commit overtook and
\* one whose eviction was lost.  Every state is well typed besides.
CacheFresh ==
    /\ TypeOK
    /\ \A u \in Users :
        cache[u] # None /\ ~cache[u].late /\ ~EvictionPending(u)
            => cache[u].grants = LoadGrants(u)

\* r's transaction commits in this step on checks nothing has overtaken.
CommitsOnFreshChecks(r) ==
    /\ req[r].stage \in {"ready", "commit"} /\ ~req[r].crossed
    /\ req'[r].stage \in {"idle", "evict", "bump"}

\* "Every live project keeps at least one live owner" (services/membership.py:243).
LastOwnerKept == \A p \in projects' : p \in OwnerlessProjects' => p \in OwnerlessProjects

Dangling(u, p) == IsMember(u, p) /\ ~LiveRole(GetFor(u, p))

\* Deleting a role never silently takes a member's access.
NoDanglingRole == \A u \in Users, p \in Projects : Dangling(u, p)' => Dangling(u, p)

\* No revocation, demotion, deactivation, creation, grant or role deletion whose checks
\* are still current leaves a project without an active owner or a membership pointing at
\* a deleted role.  Two that cross each other can: nothing is read for update.
CurrentChecksHold ==
    [][\A r \in Requests : CommitsOnFreshChecks(r) => LastOwnerKept /\ NoDanglingRole]_vars

\* After the last change every cached snapshot comes to agree with PostgreSQL, whatever
\* races and lost evictions there were: the time to live is the backstop.
CacheConverges ==
    <>[](\A u \in Users : cache[u] = None \/ cache[u].grants = LoadGrants(u))
=============================================================================
