---------------------------- MODULE AccessProofs ----------------------------
(***************************************************************************)
(* Proofs about Access: the grant cache and the checks of the membership   *)
(* and role handlers, for any number of accounts, projects, roles and      *)
(* requests in flight.                                                     *)
(***************************************************************************)
EXTENDS Access, FiniteSetTheorems, TLAPS

-----------------------------------------------------------------------------
(* The inductive invariant *)

\* The system roles are live under their own names, which no other row ever has.
RoleRows ==
    /\ \A k \in SystemNames : LiveRole(k) /\ roles[k].name = k
    /\ \A k \in RoleIds \ SystemNames : roles[k].name \notin SystemNames
    /\ \A k \in RoleIds : roles[k].state # "absent" => roles[k].name \in Names

\* No membership is of a role that was never created.
MemberRows ==
    \A u \in Users, p \in Projects :
        IsMember(u, p) => GetFor(u, p) \in RoleIds /\ roles[GetFor(u, p)].state # "absent"

\* What a request at each stage has in hand.
Wants(q) ==
    /\ q.stage \in {"load", "write", "ready"} => q.actor \in Users
    /\ q.stage = "evict" => q.user \in Users
    /\ q.op # "none" => q.stage = "commit"
    /\ q.op \in {"grant", "change"} =>
         q.role \in RoleIds /\ roles[q.role].state # "absent"
    /\ q.op \in {"grant", "change", "revoke"} => q.user \in Users /\ q.project \in Projects
    /\ q.op \in {"create", "update", "delete"} => q.role \in RoleIds \ SystemNames
    /\ q.op \in {"create", "update"} => q.name \notin SystemNames
    /\ q.op = "create" => q.name \in Names /\ roles[q.role].state = "absent"
    /\ q.op \in {"update", "delete"} => roles[q.role].state # "absent"
    /\ q.op = "deactivate" => q.user \in Users

\* What a request may rely on until another transaction commits: its caller is active, the
\* role it is about to give is live, another active owner stays, nobody has the role it
\* is about to delete.
Current(q) ==
    /\ q.stage \in {"load", "write", "ready"} => q.actor \in active
    /\ q.op \in {"grant", "change"} => LiveRole(q.role)
    /\ q.op = "change" /\ roles[q.role].name # "owner" => LiveOwners(q.project, q.user) # {}
    /\ q.op = "revoke" => LiveOwners(q.project, q.user) # {}
    /\ q.op = "delete" => \A u \in Users, p \in Projects : GetFor(u, p) # q.role
    /\ q.op = "deactivate" => SolelyOwnedBy(q.user) = {}

\* Two creations under way have drawn different ids.
FreshIds ==
    \A r, x \in Requests :
        req[r].op = "create" /\ req[x].op = "create" /\ r # x => req[r].role # req[x].role

TypeInv ==
    /\ TypeOK /\ cache \in [Users -> Entry \cup {None}]
    /\ RoleRows /\ MemberRows /\ FreshIds
    /\ \A r \in Requests : Wants(req[r]) /\ (~req[r].crossed => Current(req[r]))

CacheInv ==
    \A u \in Users : cache[u] # None /\ ~cache[u].late /\ ~EvictionPending(u)
                       => cache[u].grants = LoadGrants(u)

-----------------------------------------------------------------------------
(* Types *)

LEMMA GrantTypes ==
    ASSUME TypeInv, NEW u \in Users
    PROVE  LoadGrants(u) \in Grants /\ NoGrants \in Grants
<1> DEFINE D == {x \in Projects : IsMember(u, x) /\ LiveRole(GetFor(u, x))}
<1>1. ASSUME NEW p \in D
      PROVE  [role |-> roles[GetFor(u, p)].name, perms |-> PermissionsFor(GetFor(u, p))]
               \in ProjectGrant
  <2>1. GetFor(u, p) \in RoleIds /\ LiveRole(GetFor(u, p))
    BY DEF TypeInv, MemberRows
  <2>2. roles[GetFor(u, p)].name \in Names /\ roles[GetFor(u, p)].perms \subseteq Permissions
    BY <2>1 DEF TypeInv, RoleRows, LiveRole, TypeOK, Role
  <2> QED BY <2>2 DEF ProjectGrant, PermissionsFor
<1>2. LoadGrants(u) \in [D -> ProjectGrant]
  BY <1>1 DEF LoadGrants
<1>3. NoGrants \in [{} -> ProjectGrant]
  BY DEF NoGrants
<1>4. D \in SUBSET Projects /\ {} \in SUBSET Projects
  OBVIOUS
<1> HIDE DEF D
<1> QED BY <1>2, <1>3, <1>4 DEF Grants

LEMMA IdleTypes ==
    ASSUME TypeInv
    PROVE  Idle \in Request /\ Wants(Idle) /\ Idle.op = "none"
<1>1. NoGrants \in Grants
  <2>1. NoGrants \in [{} -> ProjectGrant] /\ {} \in SUBSET Projects
    BY DEF NoGrants
  <2> QED BY <2>1 DEF Grants
<1> QED BY <1>1 DEF Idle, Request, Wants

-----------------------------------------------------------------------------
(* Steps of one request *)

Tables == <<active, projects, roles, members>>

Handlers == \A r \in Requests : Wants(req[r]) /\ (~req[r].crossed => Current(req[r]))

\* A step in which r only learns something, or ends.
Private(r, q) ==
    /\ UNCHANGED Tables /\ req' = [req EXCEPT ![r] = q]
    /\ q \in Request /\ Wants(q) /\ (~q.crossed => Current(q))
    /\ q.op = "create" => \A x \in Requests : req[x].op = "create" => req[x].role # q.role

LEMMA PrivateTypes ==
    ASSUME TypeInv, NEW r \in Requests, NEW q, Private(r, q)
    PROVE  req' \in [Requests -> Request] /\ Handlers' /\ FreshIds' /\ RoleRows' /\ MemberRows'
<1>1. req \in [Requests -> Request] /\ UNCHANGED <<active, roles, members>>
  BY DEF TypeInv, TypeOK, Private, Tables
<1>2. req' \in [Requests -> Request] /\ req'[r] = q /\ \A x \in Requests : x # r => req'[x] = req[x]
  BY <1>1 DEF Private
<1>3. \A x \in Requests : Wants(req'[x]) /\ (~req'[x].crossed => Current(req'[x]))
  BY <1>2 DEF Private, TypeInv
<1>4. \A x \in Requests : Wants(req[x])'
  BY <1>1, <1>3 DEF Wants
<1>5. ASSUME NEW x \in Requests, ~req'[x].crossed PROVE Current(req[x])'
  <2>1. Current(req'[x])
    BY <1>3, <1>5
  <2>2. \A p \in Projects : \A u : LiveOwners(p, u)' = LiveOwners(p, u)
    BY <1>1 DEF LiveOwners, HoldsOwner, IsMember, GetFor, LiveRole
  <2>3. \A u : SolelyOwnedBy(u)' = SolelyOwnedBy(u)
    BY <1>1 DEF SolelyOwnedBy, LiveOwners, HoldsOwner, IsMember, GetFor, LiveRole
  <2>4. Wants(req'[x])
    BY <1>3
  <2> QED BY <1>1, <2>1, <2>2, <2>3, <2>4 DEF Current, Wants, LiveRole, GetFor
<1>6. FreshIds'
  BY <1>2 DEF FreshIds, Private, TypeInv
<1>7. RoleRows' /\ MemberRows'
  BY <1>1 DEF RoleRows, MemberRows, TypeInv, LiveRole, IsMember, GetFor
<1> QED BY <1>2, <1>4, <1>5, <1>6, <1>7 DEF Handlers

LEMMA BeginPrivate ==
    ASSUME TypeInv, NEW r \in Requests, NEW u \in Users, LoadAuthenticatedUser(r, u)
    PROVE  \E q : Private(r, q)
<1> DEFINE q == [Idle EXCEPT !.stage = "ready", !.actor = u, !.grants = Read(u).grants]
           l == [Idle EXCEPT !.stage = "load", !.actor = u, !.key = epoch]
<1>1. UNCHANGED Tables /\ u \in active
      /\ req' = [req EXCEPT ![r] = IF Read(u) # None THEN q ELSE l]
  BY DEF LoadAuthenticatedUser, Tables
<1>2. NoGrants \in Grants /\ epoch \in Nat
  BY GrantTypes DEF TypeInv, TypeOK
<1>3. CASE Read(u) # None
  <2>1. Read(u).grants \in Grants
    BY <1>3 DEF TypeInv, TypeOK, Entry, Read
  <2>2. q \in Request /\ q.op = "none" /\ q.stage = "ready" /\ q.actor = u
    BY <1>2, <2>1 DEF Idle, Request
  <2> HIDE DEF q, l
  <2>3. Wants(q) /\ Current(q)
    BY <1>1, <2>2 DEF Wants, Current
  <2> QED BY <1>1, <1>3, <2>2, <2>3 DEF Private
<1>4. CASE Read(u) = None
  <2>2. l \in Request /\ l.op = "none" /\ l.stage = "load" /\ l.actor = u
    BY <1>2 DEF Idle, Request
  <2> HIDE DEF q, l
  <2>3. Wants(l) /\ Current(l)
    BY <1>1, <2>2 DEF Wants, Current
  <2> QED BY <1>1, <1>4, <2>2, <2>3 DEF Private
<1> QED BY <1>3, <1>4

\* Authorising: the same caller, crossed or not as before.
LEMMA AuthorisePrivate ==
    ASSUME TypeInv, NEW r \in Requests, Authorise(r)
    PROVE  (\E q : Private(r, q)) /\ req[r].stage \in {"load", "write"}
<1>T. req \in [Requests -> Request] /\ req[r] \in Request /\ Wants(req[r])
      /\ (~req[r].crossed => Current(req[r]))
  BY DEF TypeInv, TypeOK
<1>0. SUFFICES ASSUME NEW q \in Request, req[r].stage \in {"load", "write"},
                      q.stage \in {"load", "write", "ready"}, q.actor = req[r].actor,
                      q.op = req[r].op, q.crossed = req[r].crossed
               PROVE  q.op = "none" /\ Wants(q) /\ (~q.crossed => Current(q))
  <2> DEFINE Same(q) == /\ q.stage \in {"load", "write", "ready"} /\ q.actor = req[r].actor
                        /\ q.op = req[r].op /\ q.crossed = req[r].crossed
  <2>1. CASE CacheUnreachable(r)
    <3> DEFINE q == [req[r] EXCEPT !.key = None]
    <3>1. req' = [req EXCEPT ![r] = q] /\ UNCHANGED Tables /\ req[r].stage = "load"
      BY <2>1, <1>T DEF CacheUnreachable, Tables
    <3>2. q \in Request
      BY <1>T, <3>1 DEF Request
    <3>3. Same(q)
      BY <1>T, <3>1 DEF Request
    <3> HIDE DEF q
    <3> QED BY <1>0, <3>1, <3>2, <3>3 DEF Private
  <2>2. CASE Load(r)
    <3> DEFINE s == IF req[r].key = None THEN "ready" ELSE "write"
               q == [req[r] EXCEPT !.grants = LoadGrants(req[r].actor), !.stage = s]
    <3>1. req' = [req EXCEPT ![r] = q] /\ UNCHANGED Tables /\ req[r].stage = "load"
      BY <2>2, <1>T DEF Load, Tables
    <3>2. LoadGrants(req[r].actor) \in Grants /\ s \in {"ready", "write"}
      BY <1>T, <3>1, GrantTypes DEF Wants
    <3> HIDE DEF s
    <3>3. q \in Request
      BY <1>T, <3>2 DEF Request
    <3>4. Same(q)
      BY <1>T, <3>2 DEF Request
    <3> HIDE DEF q
    <3> QED BY <1>0, <3>1, <3>3, <3>4 DEF Private
  <2>3. CASE Write(r) \/ WriteFails(r)
    <3> DEFINE q == [req[r] EXCEPT !.stage = "ready", !.key = None]
    <3>1. req' = [req EXCEPT ![r] = q] /\ UNCHANGED Tables /\ req[r].stage = "write"
      BY <2>3, <1>T DEF Write, WriteFails, Tables
    <3>2. q \in Request
      BY <1>T, <3>1 DEF Request
    <3>3. Same(q)
      BY <1>T, <3>1 DEF Request
    <3> HIDE DEF q
    <3> QED BY <1>0, <3>1, <3>2, <3>3 DEF Private
  <2> QED BY <2>1, <2>2, <2>3 DEF Authorise
<1> QED BY <1>T, <1>0 DEF Wants, Current

LEMMA EndPrivate ==
    ASSUME TypeInv, NEW r \in Requests, req' = [req EXCEPT ![r] = Idle], UNCHANGED Tables
    PROVE  Private(r, Idle)
  BY IdleTypes DEF Private, Idle, Current

-----------------------------------------------------------------------------
(* Checks *)

LEMMA RevokeReadPrivate ==
    ASSUME TypeInv, NEW r \in Requests, NEW p \in Projects, NEW u \in Users, RevokeRead(r, p, u)
    PROVE  \E q : Private(r, q)
<1> DEFINE q == [[req[r] EXCEPT !.op = "revoke", !.user = u, !.project = p, !.row = members[u][p].row]
                    EXCEPT !.stage = "commit", !.crossed = FALSE, !.grants = NoGrants]
<1>1. req[r] \in Request /\ members[u][p].row \in Nat /\ NoGrants \in Grants
  BY GrantTypes DEF TypeInv, TypeOK, ProjectMembership
<1>2. req' = [req EXCEPT ![r] = q] /\ UNCHANGED Tables /\ LiveOwners(p, u) # {}
  BY DEF RevokeRead, Checked, RefuseIfLastOwner, Tables
<1>3. q \in Request
  BY <1>1 DEF Request
<1>4. q.op = "revoke" /\ q.user = u /\ q.project = p /\ q.stage = "commit"
  BY <1>1 DEF Request
<1> HIDE DEF q
<1>5. Wants(q) /\ Current(q)
  BY <1>2, <1>4 DEF Wants, Current
<1> QED BY <1>2, <1>3, <1>4, <1>5 DEF Private

LEMMA GrantReadPrivate ==
    ASSUME TypeInv, NEW r \in Requests, NEW p \in Projects, NEW u \in Users, NEW n \in Names,
           GrantRead(r, p, u, n)
    PROVE  \E q : Private(r, q)
<1>0. PICK k \in GetByName(n) :
        Checked(r, [req[r] EXCEPT !.op = "grant", !.user = u, !.project = p, !.role = k])
  BY DEF GrantRead
<1> DEFINE q == [[req[r] EXCEPT !.op = "grant", !.user = u, !.project = p, !.role = k]
                    EXCEPT !.stage = "commit", !.crossed = FALSE, !.grants = NoGrants]
<1>1. req[r] \in Request /\ NoGrants \in Grants /\ k \in RoleIds /\ LiveRole(k)
  BY GrantTypes DEF TypeInv, TypeOK, GetByName
<1>2. req' = [req EXCEPT ![r] = q] /\ UNCHANGED Tables
  BY <1>0 DEF Checked, Tables
<1>3. q \in Request
  BY <1>1 DEF Request
<1>4. q.op = "grant" /\ q.user = u /\ q.project = p /\ q.role = k /\ q.stage = "commit"
  BY <1>1 DEF Request
<1> HIDE DEF q
<1>5. Wants(q) /\ Current(q)
  BY <1>1, <1>4 DEF Wants, Current, LiveRole
<1> QED BY <1>2, <1>3, <1>4, <1>5 DEF Private

LEMMA ChangeRoleReadPrivate ==
    ASSUME TypeInv, NEW r \in Requests, NEW p \in Projects, NEW u \in Users, NEW n \in Names,
           ChangeRoleRead(r, p, u, n)
    PROVE  \E q : Private(r, q)
<1>0. PICK k \in GetByName(n) :
        Checked(r, [req[r] EXCEPT !.op = "change", !.user = u, !.project = p, !.role = k,
                                  !.seen = GetFor(u, p), !.row = members[u][p].row])
  BY DEF ChangeRoleRead
<1> DEFINE q == [[req[r] EXCEPT !.op = "change", !.user = u, !.project = p, !.role = k,
                                !.seen = GetFor(u, p), !.row = members[u][p].row]
                    EXCEPT !.stage = "commit", !.crossed = FALSE, !.grants = NoGrants]
<1>1. /\ req[r] \in Request /\ NoGrants \in Grants
      /\ k \in RoleIds /\ LiveRole(k) /\ roles[k].name = n
      /\ GetFor(u, p) \in RoleIds \cup {None} /\ members[u][p].row \in Nat
  BY GrantTypes DEF TypeInv, TypeOK, GetByName, GetFor, ProjectMembership
<1>2. req' = [req EXCEPT ![r] = q] /\ UNCHANGED Tables
  BY <1>0 DEF Checked, Tables
<1>3. q \in Request
  BY <1>1 DEF Request
<1>4. q.op = "change" /\ q.user = u /\ q.project = p /\ q.role = k /\ q.stage = "commit"
  BY <1>1 DEF Request
<1> HIDE DEF q
<1>5. n # "owner" => LiveOwners(p, u) # {}
  BY DEF ChangeRoleRead, RefuseIfLastOwner
<1>6. Wants(q) /\ Current(q)
  BY <1>1, <1>4, <1>5 DEF Wants, Current, LiveRole
<1> QED BY <1>2, <1>3, <1>4, <1>6 DEF Private

LEMMA CreateRoleReadPrivate ==
    ASSUME TypeInv, NEW r \in Requests, NEW k \in RoleIds, NEW n \in CustomNames,
           CreateRoleRead(r, k, n)
    PROVE  \E q : Private(r, q)
<1> DEFINE q == [[req[r] EXCEPT !.op = "create", !.role = k, !.name = n]
                    EXCEPT !.stage = "commit", !.crossed = FALSE, !.grants = NoGrants]
<1>1. req[r] \in Request /\ NoGrants \in Grants /\ n \in Names /\ RoleRows
  BY GrantTypes, AccessAssumption DEF TypeInv, TypeOK, Names, Request, Wants, CreateRoleRead, IsAdmin
<1>2. /\ req' = [req EXCEPT ![r] = q] /\ UNCHANGED Tables
      /\ roles[k].state = "absent" /\ GetByName(n) = {}
      /\ \A x \in Requests : req[x].op = "create" => req[x].role # k
  BY DEF CreateRoleRead, Checked, Tables
<1>3. k \notin SystemNames /\ n \notin SystemNames
  BY <1>1, <1>2, AccessAssumption DEF RoleRows, LiveRole, GetByName
<1>4. q \in Request
  BY <1>1 DEF Request
<1>5. q.op = "create" /\ q.role = k /\ q.name = n /\ q.stage = "commit"
  BY <1>1 DEF Request
<1> HIDE DEF q
<1>6. Wants(q) /\ Current(q)
  BY <1>1, <1>2, <1>3, <1>5 DEF Wants, Current
<1> QED BY <1>2, <1>4, <1>5, <1>6 DEF Private

\* A request that sets out to its commit is still a request.
LEMMA SetOutTypes ==
    ASSUME NEW x \in Request, NoGrants \in Grants
    PROVE  [x EXCEPT !.stage = "commit", !.crossed = FALSE, !.grants = NoGrants] \in Request
  BY DEF Request

\* What update_role and deactivate fill a request in with.
LEMMA AskedTypes ==
    ASSUME NEW x \in Request, NEW k \in RoleIds, NEW n \in Names \cup {None},
           NEW S \in (SUBSET Permissions) \cup {None}, NEW P \in SUBSET Permissions,
           NEW u \in Users
    PROVE  /\ [x EXCEPT !.op = "update", !.role = k, !.name = n, !.perms = S, !.old = P] \in Request
           /\ [x EXCEPT !.op = "deactivate", !.user = u] \in Request
<1>1. [x EXCEPT !.op = "update", !.role = k, !.name = n, !.perms = S, !.old = P] \in Request
  BY DEF Request
<1>2. [x EXCEPT !.op = "deactivate", !.user = u] \in Request
  BY DEF Request
<1> QED BY <1>1, <1>2

LEMMA UpdateRoleReadPrivate ==
    ASSUME TypeInv, NEW r \in Requests, NEW k \in RoleIds, NEW n \in Names \cup {None},
           NEW S \in (SUBSET Permissions) \cup {None}, UpdateRoleRead(r, k, n, S)
    PROVE  \E q : Private(r, q)
<1> DEFINE asked == [req[r] EXCEPT !.op = "update", !.role = k, !.name = n, !.perms = S,
                                   !.old = PermissionsFor(k)]
           q == [asked EXCEPT !.stage = "commit", !.crossed = FALSE, !.grants = NoGrants]
<1>1. PICK u \in Users : TRUE
  BY AccessAssumption DEF UpdateRoleRead, IsAdmin
<1>2. /\ req[r] \in Request /\ NoGrants \in Grants /\ RoleRows
      /\ PermissionsFor(k) \in SUBSET Permissions
  BY <1>1, GrantTypes DEF TypeInv, TypeOK, Role, PermissionsFor
<1>3. /\ req' = [req EXCEPT ![r] = q] /\ UNCHANGED Tables
      /\ LiveRole(k) /\ k \notin SystemNames
      /\ n # None => GetByName(n) = {}
  BY DEF UpdateRoleRead, RequireEditable, Checked, Tables
<1>4. n \notin SystemNames
  BY <1>2, <1>3, AccessAssumption DEF RoleRows, GetByName, Names
<1>5. q \in Request
  <2>1. asked \in Request
    BY <1>1, <1>2, AskedTypes
  <2> HIDE DEF asked
  <2> QED BY <1>2, <2>1, SetOutTypes
<1>6. q.op = "update" /\ q.role = k /\ q.name = n /\ q.stage = "commit"
  BY <1>2 DEF Request
<1> HIDE DEF q
<1>7. Wants(q) /\ Current(q)
  BY <1>3, <1>4, <1>6 DEF Wants, Current, LiveRole
<1> QED BY <1>3, <1>5, <1>6, <1>7 DEF Private

\* COUNT(*) = 0 finds no row, on finite tables.
LEMMA NoMember ==
    ASSUME NEW k, MemberCount(k) = 0
    PROVE  \A u \in Users, p \in Projects : GetFor(u, p) # k
<1> DEFINE M == {x \in Users \X Projects : GetFor(x[1], x[2]) = k}
<1>1. IsFiniteSet(Users \X Projects)
  BY AccessAssumption, FS_Product
<1>2. IsFiniteSet(M)
  BY <1>1, FS_Subset
<1>3. M = {}
  BY <1>2, FS_EmptySet DEF MemberCount
<1>4. ASSUME NEW u \in Users, NEW p \in Projects, GetFor(u, p) = k PROVE FALSE
  <2>1. <<u, p>> \in M
    BY <1>4
  <2> QED BY <1>3, <2>1
<1> QED BY <1>4

LEMMA DeleteRoleReadPrivate ==
    ASSUME TypeInv, NEW r \in Requests, NEW k \in RoleIds, DeleteRoleRead(r, k)
    PROVE  \E q : Private(r, q)
<1> DEFINE q == [[req[r] EXCEPT !.op = "delete", !.role = k]
                    EXCEPT !.stage = "commit", !.crossed = FALSE, !.grants = NoGrants]
<1>1. PICK u \in Users : TRUE
  BY AccessAssumption DEF DeleteRoleRead, IsAdmin
<1>2. req[r] \in Request /\ NoGrants \in Grants
  BY <1>1, GrantTypes DEF TypeInv, TypeOK
<1>3. /\ req' = [req EXCEPT ![r] = q] /\ UNCHANGED Tables
      /\ LiveRole(k) /\ k \notin SystemNames /\ MemberCount(k) = 0
  BY DEF DeleteRoleRead, RequireEditable, Checked, Tables
<1>4. q \in Request
  BY <1>2 DEF Request
<1>5. q.op = "delete" /\ q.role = k /\ q.stage = "commit"
  BY <1>2 DEF Request
<1> HIDE DEF q
<1>6. Wants(q)
  BY <1>3, <1>5 DEF Wants, LiveRole
<1>7. Current(q)
  BY <1>3, <1>5, NoMember DEF Current
<1> QED BY <1>3, <1>4, <1>5, <1>6, <1>7 DEF Private

LEMMA DeactivateReadPrivate ==
    ASSUME TypeInv, NEW r \in Requests, NEW u \in Users, DeactivateRead(r, u)
    PROVE  \E q : Private(r, q)
<1> DEFINE q == [[req[r] EXCEPT !.op = "deactivate", !.user = u]
                    EXCEPT !.stage = "commit", !.crossed = FALSE, !.grants = NoGrants]
<1>1. req[r] \in Request /\ NoGrants \in Grants
  BY GrantTypes DEF TypeInv, TypeOK
<1>2. req' = [req EXCEPT ![r] = q] /\ UNCHANGED Tables /\ SolelyOwnedBy(u) = {}
  BY DEF DeactivateRead, Checked, Tables
<1>3. q \in Request
  <2> DEFINE asked == [req[r] EXCEPT !.op = "deactivate", !.user = u]
  <2>1. asked \in Request
    <3>1. PICK k \in RoleIds : TRUE
      BY AccessAssumption
    <3> QED BY <1>1, <3>1, AskedTypes
  <2> HIDE DEF asked
  <2> QED BY <1>1, <2>1, SetOutTypes DEF asked
<1>4. q.op = "deactivate" /\ q.user = u /\ q.stage = "commit"
  BY <1>1 DEF Request
<1> HIDE DEF q
<1>5. Wants(q) /\ Current(q)
  BY <1>2, <1>4 DEF Wants, Current
<1> QED BY <1>2, <1>3, <1>4, <1>5 DEF Private

-----------------------------------------------------------------------------
(* Commits *)

\* What a commit leaves of its own request.
After(q) ==
    \/ q = Idle \/ q = [Idle EXCEPT !.stage = "bump"]
    \/ \E u \in Users : q = [Idle EXCEPT !.stage = "evict", !.user = u]

LEMMA AfterTypes ==
    ASSUME TypeInv, NEW q, After(q)
    PROVE  /\ q \in Request /\ q.op = "none" /\ q.stage \in {"idle", "evict", "bump"}
           /\ q.stage = "evict" => q.user \in Users
<1>1. NoGrants \in Grants
  <2>1. NoGrants \in [{} -> ProjectGrant] /\ {} \in SUBSET Projects
    BY DEF NoGrants
  <2> QED BY <2>1 DEF Grants
<1>2. CASE q = Idle
  BY <1>1, <1>2 DEF Idle, Request
<1>3. CASE q = [Idle EXCEPT !.stage = "bump"]
  BY <1>1, <1>3 DEF Idle, Request
<1>4. ASSUME NEW u \in Users, q = [Idle EXCEPT !.stage = "evict", !.user = u]
      PROVE  q \in Request /\ q.op = "none" /\ q.stage = "evict" /\ q.user \in Users
  BY <1>1, <1>4 DEF Idle, Request
<1> QED BY <1>2, <1>3, <1>4 DEF After

\* No commit takes a role back to where it was never created, or another's fresh id.
RolesOnward(r) ==
    /\ \A k \in RoleIds : roles[k].state # "absent" => roles'[k].state # "absent"
    /\ \A x \in Requests : x # r /\ req[x].op = "create" => roles'[req[x].role].state = "absent"

\* A crossed request is still a request.
LEMMA CrossedTypes ==
    ASSUME NEW x \in Request
    PROVE  LET y == [x EXCEPT !.crossed = TRUE] IN y \in Request /\ y.crossed
<1>1. [x EXCEPT !.crossed = TRUE] \in Request
  BY DEF Request
<1>2. "crossed" \in DOMAIN x
  BY DEF Request
<1>3. [x EXCEPT !.crossed = TRUE].crossed
  BY <1>2
<1> QED BY <1>1, <1>3

\* Everyone else keeps what they had, under way and crossed or not under way.
LEMMA CommittedOthers ==
    ASSUME TypeInv, NEW r \in Requests, NEW q, After(q), Committed(r, q), NEW x \in Requests
    PROVE  /\ req'[x] \in Request
           /\ x = r => req'[x] = q
           /\ x # r => /\ req'[x].stage = req[x].stage /\ req'[x].op = req[x].op
                       /\ req'[x].actor = req[x].actor /\ req'[x].user = req[x].user
                       /\ req'[x].project = req[x].project /\ req'[x].role = req[x].role
                       /\ req'[x].name = req[x].name
                       /\ req'[x].crossed \/ req[x].stage \in {"idle", "evict", "bump"}
<1>1. req[x] \in Request
  BY DEF TypeInv, TypeOK
<1>2. CASE x = r
  BY <1>2, AfterTypes DEF Committed
<1>3. CASE x # r /\ req[x].stage \in {"idle", "evict", "bump"}
  BY <1>1, <1>3 DEF Committed
<1>4. CASE x # r /\ req[x].stage \notin {"idle", "evict", "bump"}
  <2>1. req'[x] = [req[x] EXCEPT !.crossed = TRUE]
    BY <1>4 DEF Committed
  <2>2. req'[x] \in Request /\ req'[x].crossed
    BY <1>1, <2>1, CrossedTypes
  <2>3. /\ req'[x].stage = req[x].stage /\ req'[x].op = req[x].op
        /\ req'[x].actor = req[x].actor /\ req'[x].user = req[x].user
    BY <1>1, <2>1 DEF Request
  <2>4. /\ req'[x].project = req[x].project /\ req'[x].role = req[x].role
        /\ req'[x].name = req[x].name
    BY <1>1, <2>1 DEF Request
  <2> QED BY <1>4, <2>2, <2>3, <2>4
<1> QED BY <1>2, <1>3, <1>4

LEMMA CommittedTypes ==
    ASSUME TypeInv, NEW r \in Requests, NEW q, After(q), Committed(r, q), RolesOnward(r)
    PROVE  req' \in [Requests -> Request] /\ Handlers' /\ FreshIds'
<1>1. req' = [x \in Requests |-> req'[x]]
  BY DEF Committed
<1>2. req' \in [Requests -> Request]
  BY <1>1, CommittedOthers
<1>3. ASSUME NEW x \in Requests PROVE Wants(req[x])' /\ (~req'[x].crossed => Current(req[x])')
  <2>1. CASE x = r
    BY <2>1, CommittedOthers, AfterTypes DEF Wants, Current
  <2>2. CASE x # r
    <3>1. Wants(req[x])
      BY DEF TypeInv
    <3>2. req[x].op \in {"grant", "change", "update", "delete"} => roles'[req[x].role].state # "absent"
      BY <3>1 DEF Wants, RolesOnward
    <3>3. req[x].op = "create" => roles'[req[x].role].state = "absent"
      BY <2>2 DEF RolesOnward
    <3>4. Wants(req[x])'
      BY <2>2, <3>1, <3>2, <3>3, CommittedOthers DEF Wants
    <3>5. ASSUME ~req'[x].crossed PROVE Current(req[x])'
      <4>1. req'[x].stage \in {"idle", "evict", "bump"} /\ req'[x].op = "none"
        BY <2>2, <3>1, <3>5, CommittedOthers DEF Wants
      <4> QED BY <4>1 DEF Current
    <3> QED BY <3>4, <3>5
  <2> QED BY <2>1, <2>2
<1>4. ASSUME NEW x \in Requests PROVE req'[x].op = "create" => x # r /\ req[x].op = "create" /\ req'[x].role = req[x].role
  BY CommittedOthers, AfterTypes
<1>5. FreshIds'
  BY <1>4 DEF FreshIds, TypeInv
<1> QED BY <1>2, <1>3, <1>5 DEF Handlers

RowsKept(r) ==
    /\ roles' \in [RoleIds -> Role] /\ members' \in [Users -> [Projects -> ProjectMembership]]
    /\ RoleRows' /\ MemberRows' /\ RolesOnward(r)

\* A transaction that writes at most the membership of one pair.
Wrote(u, p, k) ==
    \A v \in Users, y \in Projects : GetFor(v, y)' = IF v = u /\ y = p THEN k ELSE GetFor(v, y)

LEMMA RolesAlone ==
    ASSUME TypeInv, NEW r \in Requests, UNCHANGED roles
    PROVE  roles' \in [RoleIds -> Role] /\ RoleRows' /\ RolesOnward(r)
<1>1. ASSUME NEW x \in Requests PROVE Wants(req[x])
  BY DEF TypeInv
<1> QED BY <1>1 DEF TypeInv, TypeOK, RoleRows, LiveRole, RolesOnward, Wants

LEMMA MembershipWritten ==
    ASSUME TypeInv, NEW r \in Requests, NEW u \in Users, NEW p \in Projects,
           NEW m \in ProjectMembership,
           m.role # None => m.role \in RoleIds /\ roles[m.role].state # "absent",
           members' = [members EXCEPT ![u][p] = m], UNCHANGED roles
    PROVE  RowsKept(r) /\ Wrote(u, p, m.role)
<1>1. members \in [Users -> [Projects -> ProjectMembership]]
  BY DEF TypeInv, TypeOK
<1>2. \A v \in Users, y \in Projects : members'[v][y] = IF v = u /\ y = p THEN m ELSE members[v][y]
  BY <1>1
<1>3. members' \in [Users -> [Projects -> ProjectMembership]]
  BY <1>1
<1>4. Wrote(u, p, m.role)
  BY <1>2 DEF Wrote, GetFor
<1>5. MemberRows' 
  BY <1>4 DEF TypeInv, MemberRows, IsMember, Wrote
<1> QED BY <1>3, <1>4, <1>5, RolesAlone DEF RowsKept

LEMMA MembersAlone ==
    ASSUME TypeInv, NEW r \in Requests, UNCHANGED <<roles, members>>
    PROVE  RowsKept(r) /\ \A v \in Users, y \in Projects : GetFor(v, y)' = GetFor(v, y)
  BY RolesAlone DEF RowsKept, TypeInv, TypeOK, MemberRows, IsMember, GetFor

LEMMA InsertRows ==
    ASSUME TypeInv, NEW r \in Requests, NEW u \in Users, NEW p \in Projects, NEW k \in RoleIds,
           roles[k].state # "absent", InsertMembership(u, p, k), UNCHANGED roles
    PROVE  RowsKept(r) /\ Wrote(u, p, k)
<1> DEFINE m == [role |-> k, row |-> members[u][p].row + 1]
<1>1. members \in [Users -> [Projects -> ProjectMembership]]
  BY DEF TypeInv, TypeOK
<1>2. m \in ProjectMembership /\ m.role = k
  BY <1>1 DEF ProjectMembership
<1>3. members' = [members EXCEPT ![u][p] = m]
  BY <1>1 DEF InsertMembership
<1> HIDE DEF m
<1>4. m.role # None => m.role \in RoleIds /\ roles[m.role].state # "absent"
  BY <1>2
<1>5. RowsKept(r) /\ Wrote(u, p, m.role)
  BY <1>2, <1>3, <1>4, MembershipWritten
<1> QED BY <1>2, <1>5

LEMMA RoleSetRows ==
    ASSUME TypeInv, NEW r \in Requests, NEW u \in Users, NEW p \in Projects,
           NEW k \in RoleIds \cup {None}, k # None => roles[k].state # "absent",
           members' = [members EXCEPT ![u][p].role = k], UNCHANGED roles
    PROVE  RowsKept(r) /\ Wrote(u, p, k)
<1> DEFINE m == [members[u][p] EXCEPT !.role = k]
<1>1. members \in [Users -> [Projects -> ProjectMembership]] /\ None \notin RoleIds
  BY AccessAssumption DEF TypeInv, TypeOK
<1>2. m \in ProjectMembership /\ m.role = k
  BY <1>1 DEF ProjectMembership
<1>3. members' = [members EXCEPT ![u][p] = m]
  BY <1>1
<1> HIDE DEF m
<1>4. m.role # None => m.role \in RoleIds /\ roles[m.role].state # "absent"
  BY <1>2
<1>5. RowsKept(r) /\ Wrote(u, p, m.role)
  BY <1>2, <1>3, <1>4, MembershipWritten
<1> QED BY <1>2, <1>5

\* A transaction that writes one custom role, or the system roles' permissions.
LEMMA RoleWritten ==
    ASSUME TypeInv, NEW r \in Requests, NEW k \in RoleIds \ SystemNames, NEW v \in Role,
           roles' = [roles EXCEPT ![k] = v], UNCHANGED members,
           v.state # "absent", v.name \in Names \ SystemNames,
           \A x \in Requests : x # r /\ req[x].op = "create" => req[x].role # k
    PROVE  RowsKept(r)
<1>1. roles \in [RoleIds -> Role] /\ members \in [Users -> [Projects -> ProjectMembership]]
  BY DEF TypeInv, TypeOK
<1>2. /\ roles' \in [RoleIds -> Role] /\ roles'[k] = v
      /\ \A j \in RoleIds : j # k => roles'[j] = roles[j]
  BY <1>1
<1>3. RoleRows'
  BY <1>2, AccessAssumption DEF TypeInv, RoleRows, LiveRole
<1>4. MemberRows'
  BY <1>2 DEF TypeInv, MemberRows, IsMember, GetFor
<1>5. ASSUME NEW x \in Requests, x # r, req[x].op = "create" PROVE roles'[req[x].role].state = "absent"
  <2>1. req[x].role \in RoleIds /\ roles[req[x].role].state = "absent" /\ req[x].role # k
    BY <1>5 DEF TypeInv, Wants
  <2> QED BY <1>2, <2>1
<1> QED BY <1>1, <1>2, <1>3, <1>4, <1>5 DEF RowsKept, RolesOnward

\* The transaction that leaves u's role in p at k, with u's entry to be evicted.
MembershipCommit(r, u, p, k) ==
    /\ u \in Users /\ p \in Projects
    /\ UNCHANGED <<active, roles>> /\ RowsKept(r) /\ Wrote(u, p, k) /\ ThenEvict(r, u)

LEMMA GrantCommitted ==
    ASSUME TypeInv, NEW r \in Requests, GrantCommit(r)
    PROVE  \/ Private(r, Idle)
           \/ /\ MembershipCommit(r, req[r].user, req[r].project, req[r].role)
              /\ ~IsMember(req[r].user, req[r].project) /\ UNCHANGED projects
<1>1. /\ req[r].user \in Users /\ req[r].project \in Projects
      /\ req[r].role \in RoleIds /\ roles[req[r].role].state # "absent"
  BY DEF TypeInv, Wants, GrantCommit
<1>2. CASE ~IsMember(req[r].user, req[r].project)
  <2>1. InsertMembership(req[r].user, req[r].project, req[r].role) /\ ThenEvict(r, req[r].user)
        /\ UNCHANGED <<active, roles, projects>>
    BY <1>2 DEF GrantCommit
  <2> QED BY <1>1, <1>2, <2>1, InsertRows DEF MembershipCommit
<1>3. CASE IsMember(req[r].user, req[r].project)
  <2>1. req' = [req EXCEPT ![r] = Idle] /\ UNCHANGED Tables
    BY <1>3 DEF GrantCommit, Tables
  <2> QED BY <2>1, EndPrivate
<1> QED BY <1>2, <1>3

LEMMA ChangeRoleCommitted ==
    ASSUME TypeInv, NEW r \in Requests, ChangeRoleCommit(r)
    PROVE  UNCHANGED projects /\ \E k \in {req[r].role, GetFor(req[r].user, req[r].project)} :
                                   MembershipCommit(r, req[r].user, req[r].project, k)
<1>1. /\ req[r].user \in Users /\ req[r].project \in Projects
      /\ req[r].role \in RoleIds /\ roles[req[r].role].state # "absent"
  BY DEF TypeInv, Wants, ChangeRoleCommit
<1>2. ThenEvict(r, req[r].user) /\ UNCHANGED <<active, roles, projects>>
  BY DEF ChangeRoleCommit
<1>3. CASE members' = [members EXCEPT ![req[r].user][req[r].project].role = req[r].role]
  <2>1. RowsKept(r) /\ Wrote(req[r].user, req[r].project, req[r].role)
    BY <1>1, <1>2, <1>3, RoleSetRows
  <2> QED BY <1>1, <1>2, <2>1 DEF MembershipCommit
<1>4. CASE UNCHANGED members
  BY <1>1, <1>2, <1>4, MembersAlone DEF MembershipCommit, Wrote
<1> QED BY <1>3, <1>4 DEF ChangeRoleCommit, SetRole

LEMMA RevokeCommitted ==
    ASSUME TypeInv, NEW r \in Requests, RevokeCommit(r)
    PROVE  UNCHANGED projects /\ \E k \in {None, GetFor(req[r].user, req[r].project)} :
                                   MembershipCommit(r, req[r].user, req[r].project, k)
<1>1. req[r].user \in Users /\ req[r].project \in Projects
  BY DEF TypeInv, Wants, RevokeCommit
<1>2. ThenEvict(r, req[r].user) /\ UNCHANGED <<active, roles, projects>>
  BY DEF RevokeCommit
<1>3. CASE members' = [members EXCEPT ![req[r].user][req[r].project].role = None]
  <2>1. RowsKept(r) /\ Wrote(req[r].user, req[r].project, None)
    BY <1>1, <1>2, <1>3, RoleSetRows
  <2> QED BY <1>1, <1>2, <2>1 DEF MembershipCommit
<1>4. CASE UNCHANGED members
  BY <1>1, <1>2, <1>4, MembersAlone DEF MembershipCommit, Wrote
<1> QED BY <1>3, <1>4 DEF RevokeCommit, DeleteMembership

LEMMA CreateProjectCommitted ==
    ASSUME TypeInv, NEW r \in Requests, NEW p \in Projects, CreateProject(r, p)
    PROVE  MembershipCommit(r, req[r].actor, p, "owner") /\ projects' = projects \cup {p}
<1>1. req[r].actor \in Users
  BY DEF TypeInv, Wants, CreateProject
<1>2. PICK k \in GetByName("owner") : InsertMembership(req[r].actor, p, k)
  BY DEF CreateProject
<1>3. k = "owner" /\ k \in RoleIds /\ roles[k].state # "absent"
  BY AccessAssumption DEF GetByName, TypeInv, RoleRows, LiveRole
<1>4. UNCHANGED <<active, roles>> /\ ThenEvict(r, req[r].actor) /\ projects' = projects \cup {p}
  BY DEF CreateProject
<1>5. RowsKept(r) /\ Wrote(req[r].actor, p, k)
  BY <1>1, <1>2, <1>3, <1>4, InsertRows
<1> QED BY <1>1, <1>3, <1>4, <1>5 DEF MembershipCommit

\* The transactions on roles.
RoleCommit(r) == UNCHANGED <<active, projects, members>> /\ RowsKept(r)

LEMMA CreateRoleCommitted ==
    ASSUME TypeInv, NEW r \in Requests, CreateRoleCommit(r)
    PROVE  /\ RoleCommit(r) /\ Committed(r, Idle)
           /\ \A k \in RoleIds : roles[k].state # "absent" => roles'[k] = roles[k]
<1> DEFINE v == [state |-> "live", name |-> req[r].name, perms |-> {}]
<1>1. /\ req[r].role \in RoleIds \ SystemNames /\ roles[req[r].role].state = "absent"
      /\ req[r].name \in Names \ SystemNames /\ req[r].op = "create"
  BY DEF TypeInv, Wants, CreateRoleCommit
<1>2. \A x \in Requests : x # r /\ req[x].op = "create" => req[x].role # req[r].role
  BY <1>1 DEF TypeInv, FreshIds
<1>3. UNCHANGED <<active, projects, members>> /\ Committed(r, Idle)
      /\ (UNCHANGED roles \/ roles' = [roles EXCEPT ![req[r].role] = v])
  BY DEF CreateRoleCommit
<1>4. v \in Role /\ v.state # "absent" /\ v.name \in Names \ SystemNames
  BY <1>1 DEF Role
<1>5. roles \in [RoleIds -> Role]
  BY DEF TypeInv, TypeOK
<1>6. CASE UNCHANGED roles
  BY <1>3, <1>6, MembersAlone DEF RoleCommit
<1>7. CASE roles' = [roles EXCEPT ![req[r].role] = v]
  <2> HIDE DEF v
  <2>1. RowsKept(r)
    BY <1>1, <1>2, <1>3, <1>4, <1>7, RoleWritten
  <2>2. \A k \in RoleIds : roles[k].state # "absent" => roles'[k] = roles[k]
    BY <1>1, <1>5, <1>7
  <2> QED BY <1>3, <2>1, <2>2 DEF RoleCommit
<1> QED BY <1>3, <1>6, <1>7

LEMMA NotFresh ==
    ASSUME TypeInv, NEW r \in Requests, NEW k \in RoleIds, roles[k].state # "absent"
    PROVE  \A x \in Requests : x # r /\ req[x].op = "create" => req[x].role # k
  BY DEF TypeInv, Wants

LEMMA UpdateRoleCommitted ==
    ASSUME TypeInv, NEW r \in Requests, UpdateRoleCommit(r)
    PROVE  \/ Private(r, Idle)
           \/ /\ RoleCommit(r) /\ ThenBump(r)
              /\ \A k \in RoleIds : roles'[k].state = roles[k].state
<1>1. /\ req[r] \in Request /\ req[r].role \in RoleIds \ SystemNames
      /\ roles[req[r].role].state # "absent" /\ req[r].name \notin SystemNames
      /\ roles \in [RoleIds -> Role] /\ RoleRows
  BY DEF TypeInv, TypeOK, Wants, UpdateRoleCommit
<1>2. CASE UpdateConflicts(req[r])
  <2>1. req' = [req EXCEPT ![r] = Idle] /\ UNCHANGED Tables
    BY <1>2 DEF UpdateRoleCommit, Tables
  <2> QED BY <2>1, EndPrivate
<1>3. CASE ~UpdateConflicts(req[r])
  <2> DEFINE k == req[r].role
             S == ReplacePermissions(req[r])
             n == IF req[r].name = None THEN roles[k].name ELSE req[r].name
             v == [[roles[k] EXCEPT !.perms = S] EXCEPT !.name = n]
  <2>1. UNCHANGED <<active, projects, members>> /\ ThenBump(r)
        /\ roles' = [roles EXCEPT ![k].perms = S, ![k].name = IF req[r].name = None THEN @ ELSE req[r].name]
    BY <1>3 DEF UpdateRoleCommit
  <2>2. S \in SUBSET Permissions
    BY <1>1 DEF ReplacePermissions, Request, Role
  <2>3. n \in Names \ SystemNames
    BY <1>1 DEF RoleRows, Request
  <2>4. roles' = [roles EXCEPT ![k] = v]
    <3> HIDE DEF S
    <3>1. roles'[k] = v
      BY <1>1, <2>1
    <3>2. roles' = [roles EXCEPT ![k] = roles'[k]]
      <4>1. PICK f : f = [roles EXCEPT ![k].perms = S]
        OBVIOUS
      <4>2. roles' = [f EXCEPT ![k].name = IF req[r].name = None THEN @ ELSE req[r].name]
        BY <2>1, <4>1
      <4> QED BY <1>1, <4>1, <4>2
    <3> QED BY <3>1, <3>2
  <2>5. v \in Role /\ v.state = roles[k].state /\ v.name = n
    <3> HIDE DEF S, n
    <3> QED BY <1>1, <2>2, <2>3 DEF Role
  <2>6. k \in RoleIds \ SystemNames /\ roles[k].state # "absent"
    BY <1>1
  <2> HIDE DEF k, v, S, n
  <2>7. /\ v.state # "absent" /\ v.name \in Names \ SystemNames
        /\ \A x \in Requests : x # r /\ req[x].op = "create" => req[x].role # k
    BY <2>3, <2>5, <2>6, NotFresh
  <2>8. RowsKept(r)
    BY <2>1, <2>4, <2>5, <2>6, <2>7, RoleWritten
  <2>9. \A i \in RoleIds : roles'[i].state = roles[i].state
    BY <1>1, <2>4, <2>5
  <2> QED BY <2>1, <2>8, <2>9 DEF RoleCommit
<1> QED BY <1>2, <1>3

LEMMA DeleteRoleCommitted ==
    ASSUME TypeInv, NEW r \in Requests, DeleteRoleCommit(r)
    PROVE  /\ RoleCommit(r) /\ ThenBump(r)
           /\ \A k \in RoleIds : k # req[r].role => roles'[k].state = roles[k].state
<1>1. /\ req[r].role \in RoleIds \ SystemNames
      /\ roles[req[r].role].state # "absent" /\ roles \in [RoleIds -> Role] /\ RoleRows
  BY DEF TypeInv, TypeOK, Wants, DeleteRoleCommit
<1>2. PICK k \in RoleIds \ SystemNames : k = req[r].role
  BY <1>1
<1>3. PICK v : v = [roles[k] EXCEPT !.state = "deleted"]
  OBVIOUS
<1>4. v \in Role /\ v.state = "deleted" /\ v.name = roles[k].name
  BY <1>1, <1>3 DEF Role
<1>5. roles' = [roles EXCEPT ![k] = v] /\ UNCHANGED <<active, projects, members>> /\ ThenBump(r)
  BY <1>1, <1>2, <1>3 DEF DeleteRoleCommit
<1>6. v.name \in Names \ SystemNames
  BY <1>1, <1>2, <1>4 DEF RoleRows
<1>7. RowsKept(r)
  BY <1>1, <1>2, <1>4, <1>5, <1>6, NotFresh, RoleWritten
<1> QED BY <1>1, <1>2, <1>5, <1>7 DEF RoleCommit

LEMMA RestoreCommitted ==
    ASSUME TypeInv, NEW r \in Requests, RestoreSystemRoles(r)
    PROVE  RoleCommit(r) /\ ThenBump(r)
<1>1. roles \in [RoleIds -> Role] /\ RoleRows
  BY DEF TypeInv, TypeOK
<1>2. ASSUME NEW k \in RoleIds
      PROVE  /\ roles'[k] \in Role /\ roles'[k].state = roles[k].state
             /\ roles'[k].name = roles[k].name
  <2>1. CASE k \notin SystemNames
    <3>1. roles'[k] = roles[k]
      BY <2>1 DEF RestoreSystemRoles, EnsureSystemRoles
    <3> QED BY <1>1, <3>1
  <2>2. CASE k \in SystemNames
    <3>1. roles'[k] = [roles[k] EXCEPT !.perms = SystemRoles[k]]
      BY <1>1, <2>2 DEF RestoreSystemRoles, EnsureSystemRoles, ReconcilePermissions, RoleRows
    <3> QED BY <1>1, <2>2, <3>1, AccessAssumption DEF Role
  <2> QED BY <2>1, <2>2
<1>3. roles' \in [RoleIds -> Role]
  <2>1. roles' = [k \in RoleIds |-> roles'[k]]
    BY DEF RestoreSystemRoles, EnsureSystemRoles
  <2> QED BY <1>2, <2>1
<1>4. UNCHANGED <<active, projects, members>> /\ ThenBump(r)
  BY DEF RestoreSystemRoles
<1>5. RoleRows'
  BY <1>1, <1>2, AccessAssumption DEF RoleRows, LiveRole
<1>6. MemberRows'
  BY <1>2, <1>4 DEF TypeInv, MemberRows, IsMember, GetFor
<1>7. RolesOnward(r)
  BY <1>2 DEF RolesOnward, TypeInv, Wants
<1> QED BY <1>3, <1>4, <1>5, <1>6, <1>7 DEF RoleCommit, RowsKept, TypeInv, TypeOK

-----------------------------------------------------------------------------
(* Types are kept *)

LEMMA CheckPrivate ==
    ASSUME TypeInv, NEW r \in Requests, Check(r)
    PROVE  \/ /\ req[r].stage = "ready" /\ UNCHANGED <<epoch, cache, budget>>
              /\ \E q : Private(r, q)
           \/ \E p \in Projects : CreateProject(r, p)
<1>1. ASSUME NEW p \in Projects, NEW u \in Users, RevokeRead(r, p, u)
      PROVE  req[r].stage = "ready" /\ UNCHANGED <<epoch, cache, budget>> /\ \E q : Private(r, q)
  BY <1>1, RevokeReadPrivate DEF RevokeRead, Checked
<1>2. ASSUME NEW p \in Projects, NEW u \in Users, NEW n \in Names, GrantRead(r, p, u, n)
      PROVE  req[r].stage = "ready" /\ UNCHANGED <<epoch, cache, budget>> /\ \E q : Private(r, q)
  BY <1>2, GrantReadPrivate DEF GrantRead, Checked
<1>3. ASSUME NEW p \in Projects, NEW u \in Users, NEW n \in Names, ChangeRoleRead(r, p, u, n)
      PROVE  req[r].stage = "ready" /\ UNCHANGED <<epoch, cache, budget>> /\ \E q : Private(r, q)
  BY <1>3, ChangeRoleReadPrivate DEF ChangeRoleRead, Checked
<1>4. ASSUME NEW k \in RoleIds, NEW n \in CustomNames, CreateRoleRead(r, k, n)
      PROVE  req[r].stage = "ready" /\ UNCHANGED <<epoch, cache, budget>> /\ \E q : Private(r, q)
  BY <1>4, CreateRoleReadPrivate DEF CreateRoleRead, Checked
<1>5. ASSUME NEW k \in RoleIds, NEW n \in Names \cup {None},
             NEW S \in (SUBSET Permissions) \cup {None}, UpdateRoleRead(r, k, n, S)
      PROVE  req[r].stage = "ready" /\ UNCHANGED <<epoch, cache, budget>> /\ \E q : Private(r, q)
  BY <1>5, UpdateRoleReadPrivate DEF UpdateRoleRead, Checked
<1>6. ASSUME NEW k \in RoleIds, DeleteRoleRead(r, k)
      PROVE  req[r].stage = "ready" /\ UNCHANGED <<epoch, cache, budget>> /\ \E q : Private(r, q)
  BY <1>6, DeleteRoleReadPrivate DEF DeleteRoleRead, Checked
<1>7. ASSUME NEW u \in Users, DeactivateRead(r, u)
      PROVE  req[r].stage = "ready" /\ UNCHANGED <<epoch, cache, budget>> /\ \E q : Private(r, q)
  BY <1>7, DeactivateReadPrivate DEF DeactivateRead, Checked
<1>8. ASSUME End(r)
      PROVE  req[r].stage = "ready" /\ UNCHANGED <<epoch, cache, budget>> /\ \E q : Private(r, q)
  BY <1>8, EndPrivate DEF End, Tables
<1> QED BY <1>1, <1>2, <1>3, <1>4, <1>5, <1>6, <1>7, <1>8 DEF Check

LEMMA EvictPrivate ==
    ASSUME TypeInv, NEW r \in Requests, Evict(r)
    PROVE  Private(r, Idle)
<1>1. req' = [req EXCEPT ![r] = Idle] /\ UNCHANGED Tables
  BY DEF Evict, InvalidateUser, BumpEpoch, EvictionLost, Tables
<1> QED BY <1>1, EndPrivate

LEMMA CommitRows ==
    ASSUME TypeInv, NEW r \in Requests, NEW q, After(q), Committed(r, q), RowsKept(r)
    PROVE  /\ roles' \in [RoleIds -> Role] /\ members' \in [Users -> [Projects -> ProjectMembership]]
           /\ req' \in [Requests -> Request]
           /\ Handlers' /\ FreshIds' /\ RoleRows' /\ MemberRows'
  BY CommittedTypes DEF RowsKept

LEMMA ThenAfter ==
    ASSUME TypeInv, NEW r \in Requests, RowsKept(r),
           \/ ThenBump(r) \/ Committed(r, Idle) \/ \E u \in Users : ThenEvict(r, u)
    PROVE  /\ roles' \in [RoleIds -> Role] /\ members' \in [Users -> [Projects -> ProjectMembership]]
           /\ req' \in [Requests -> Request]
           /\ Handlers' /\ FreshIds' /\ RoleRows' /\ MemberRows'
<1>1. After(Idle) /\ After([Idle EXCEPT !.stage = "bump"])
      /\ \A u \in Users : After([Idle EXCEPT !.stage = "evict", !.user = u])
  BY DEF After
<1>2. CASE Committed(r, Idle)
  BY <1>1, <1>2, CommitRows
<1>3. CASE ThenBump(r)
  BY <1>1, <1>3, CommitRows DEF ThenBump
<1>4. ASSUME NEW u \in Users, ThenEvict(r, u) 
      PROVE  \E q : After(q) /\ Committed(r, q)
  BY <1>1, <1>4 DEF ThenEvict
<1> QED BY <1>2, <1>3, <1>4, CommitRows

LEMMA RowsNext ==
    ASSUME TypeInv, [Next]_vars
    PROVE  /\ roles' \in [RoleIds -> Role] /\ members' \in [Users -> [Projects -> ProjectMembership]]
           /\ req' \in [Requests -> Request]
           /\ Handlers' /\ FreshIds' /\ RoleRows' /\ MemberRows'
<1>T. /\ roles \in [RoleIds -> Role] /\ members \in [Users -> [Projects -> ProjectMembership]]
      /\ req \in [Requests -> Request]
      /\ Handlers /\ FreshIds /\ RoleRows /\ MemberRows
  BY DEF TypeInv, TypeOK, Handlers
<1>0. ASSUME NEW r \in Requests, NEW q, Private(r, q)
      PROVE  /\ roles' \in [RoleIds -> Role] /\ members' \in [Users -> [Projects -> ProjectMembership]]
             /\ req' \in [Requests -> Request]
             /\ Handlers' /\ FreshIds' /\ RoleRows' /\ MemberRows'
  <2>1. UNCHANGED <<roles, members>>
    BY <1>0 DEF Private, Tables
  <2> QED BY <1>0, <1>T, <2>1, PrivateTypes
<1>1. CASE Tick \/ UNCHANGED vars
  <2>1. UNCHANGED <<active, roles, members, req>>
    BY <1>1 DEF Tick, vars
  <2>2. Handlers'
    <3>1. \A q : Wants(q) => Wants(q)'
      BY <2>1 DEF Wants
    <3>2. \A q : Current(q) => Current(q)'
      BY <2>1 DEF Current, LiveRole, GetFor, LiveOwners, HoldsOwner, SolelyOwnedBy, IsMember
    <3> QED BY <1>T, <2>1, <3>1, <3>2 DEF Handlers
  <2>3. FreshIds' /\ RoleRows' /\ MemberRows'
    BY <1>T, <2>1 DEF FreshIds, RoleRows, MemberRows, LiveRole, IsMember, GetFor
  <2> QED BY <1>T, <2>1, <2>2, <2>3
<1>2. ASSUME NEW r \in Requests, NEW u \in Users, LoadAuthenticatedUser(r, u)
      PROVE  \E q : Private(r, q)
  BY <1>2, BeginPrivate
<1>3. ASSUME NEW r \in Requests, RestoreSystemRoles(r)
      PROVE  RowsKept(r) /\ ThenBump(r)
  BY <1>3, RestoreCommitted DEF RoleCommit
<1>4. ASSUME NEW r \in Requests, Commit(r)
      PROVE  \/ Private(r, Idle)
             \/ RowsKept(r) /\ (ThenBump(r) \/ Committed(r, Idle) \/ \E u \in Users : ThenEvict(r, u))
  <2>1. CASE GrantCommit(r)
    BY <2>1, GrantCommitted DEF MembershipCommit
  <2>2. CASE ChangeRoleCommit(r)
    BY <2>2, ChangeRoleCommitted DEF MembershipCommit
  <2>3. CASE RevokeCommit(r)
    BY <2>3, RevokeCommitted DEF MembershipCommit
  <2>4. CASE CreateRoleCommit(r)
    BY <2>4, CreateRoleCommitted DEF RoleCommit
  <2>5. CASE UpdateRoleCommit(r)
    BY <2>5, UpdateRoleCommitted DEF RoleCommit
  <2>6. CASE DeleteRoleCommit(r)
    BY <2>6, DeleteRoleCommitted DEF RoleCommit
  <2>7. CASE DeactivateCommit(r)
    BY <2>7, MembersAlone DEF DeactivateCommit
  <2> QED BY <1>4, <2>1, <2>2, <2>3, <2>4, <2>5, <2>6, <2>7 DEF Commit
<1>5. ASSUME NEW r \in Requests, NEW p \in Projects, CreateProject(r, p)
      PROVE  RowsKept(r) /\ \E u \in Users : ThenEvict(r, u)
  BY <1>5, CreateProjectCommitted DEF MembershipCommit
<1>6. ASSUME NEW r \in Requests, Begin(r) \/ Authorise(r) \/ Check(r) \/ Commit(r) \/ Evict(r)
      PROVE  \/ \E q : Private(r, q)
             \/ RowsKept(r) /\ (ThenBump(r) \/ Committed(r, Idle) \/ \E u \in Users : ThenEvict(r, u))
  BY <1>2, <1>3, <1>4, <1>5, <1>6, AuthorisePrivate, CheckPrivate, EvictPrivate DEF Begin
<1>7. ASSUME NEW r \in Requests,
             RowsKept(r) /\ (ThenBump(r) \/ Committed(r, Idle) \/ \E u \in Users : ThenEvict(r, u))
      PROVE  /\ roles' \in [RoleIds -> Role] /\ members' \in [Users -> [Projects -> ProjectMembership]]
             /\ req' \in [Requests -> Request]
             /\ Handlers' /\ FreshIds' /\ RoleRows' /\ MemberRows'
  BY <1>7, ThenAfter
<1> QED BY <1>0, <1>1, <1>6, <1>7 DEF Next

LEMMA EntriesNext ==
    ASSUME TypeInv, [Next]_vars
    PROVE  cache' \in [Users -> Entry \cup {None}] /\ epoch' \in Nat
<1>T. cache \in [Users -> Entry \cup {None}] /\ epoch \in Nat /\ req \in [Requests -> Request]
  BY DEF TypeInv, TypeOK
<1>1. CASE UNCHANGED <<cache, epoch>>
  BY <1>T, <1>1
<1>2. ASSUME NEW r \in Requests, Write(r) PROVE cache' \in [Users -> Entry \cup {None}] /\ UNCHANGED epoch
  <2>1. UNCHANGED epoch /\ req[r].actor \in Users /\ req[r].grants \in Grants
    BY <1>2, <1>T DEF Write, TypeInv, Wants, Request
  <2>2. Snapshot(req[r].actor, req[r].grants) \in Entry
    BY <2>1, AccessAssumption DEF Snapshot, Entry
  <2> QED BY <1>T, <1>2, <2>1, <2>2 DEF Write
<1>3. ASSUME NEW r \in Requests, InvalidateUser(r) \/ BumpEpoch(r)
      PROVE  cache' \in [Users -> Entry \cup {None}] /\ epoch' \in Nat
  BY <1>3, <1>T DEF InvalidateUser, BumpEpoch
<1>4. ASSUME NEW r \in Requests, EvictionLost(r)
      PROVE  cache' \in [Users -> Entry \cup {None}] /\ UNCHANGED epoch
  <2>1. ASSUME NEW u \in Users PROVE cache'[u] \in Entry \cup {None}
    <3>1. cache[u] \in Entry => [cache[u] EXCEPT !.late = TRUE] \in Entry
      BY DEF Entry
    <3>2. cache'[u] = IF cache[u] # None /\ (req[r].stage = "bump" \/ u = req[r].user)
                      THEN [cache[u] EXCEPT !.late = TRUE] ELSE cache[u]
      BY <1>4 DEF EvictionLost
    <3> QED BY <1>T, <3>1, <3>2
  <2>2. cache' = [u \in Users |-> cache'[u]]
    BY <1>4 DEF EvictionLost
  <2> QED BY <1>4, <2>1, <2>2 DEF EvictionLost
<1>5. CASE Tick
  <2>1. ASSUME NEW u \in Users PROVE cache'[u] \in Entry \cup {None}
    <3>1. ASSUME cache[u] \in Entry, cache[u].ttl # 0 PROVE [cache[u] EXCEPT !.ttl = @ - 1] \in Entry
      <4>1. cache[u].ttl \in 0..TTL /\ TTL \in Nat
        BY <3>1, AccessAssumption DEF Entry
      <4>2. cache[u].ttl - 1 \in 0..TTL
        BY <3>1, <4>1
      <4> QED BY <3>1, <4>2, Zenon DEF Entry
    <3>2. cache'[u] = IF cache[u] = None \/ cache[u].ttl = 0 THEN cache[u]
                      ELSE IF cache[u].ttl = 1 THEN None ELSE [cache[u] EXCEPT !.ttl = @ - 1]
      BY <1>5 DEF Tick
    <3> QED BY <1>T, <3>1, <3>2
  <2>2. cache' = [u \in Users |-> cache'[u]]
    BY <1>5 DEF Tick
  <2> QED BY <1>5, <1>T, <2>1, <2>2 DEF Tick
<1>6. ASSUME NEW r \in Requests, Begin(r) PROVE UNCHANGED <<cache, epoch>>
  BY <1>6 DEF Begin, LoadAuthenticatedUser, RestoreSystemRoles
<1>7. ASSUME NEW r \in Requests, Commit(r) PROVE UNCHANGED <<cache, epoch>>
  BY <1>7 DEF Commit, GrantCommit, ChangeRoleCommit, RevokeCommit, CreateRoleCommit,
              UpdateRoleCommit, DeleteRoleCommit, DeactivateCommit
<1>8. ASSUME NEW r \in Requests, Check(r) PROVE UNCHANGED <<cache, epoch>>
  BY <1>8, CheckPrivate DEF CreateProject
<1>9. ASSUME NEW r \in Requests, Authorise(r), ~Write(r) PROVE UNCHANGED <<cache, epoch>>
  BY <1>9 DEF Authorise, CacheUnreachable, Load, WriteFails
<1>10. ASSUME NEW r \in Requests, Begin(r) \/ Authorise(r) \/ Check(r) \/ Commit(r) \/ Evict(r)
       PROVE  cache' \in [Users -> Entry \cup {None}] /\ epoch' \in Nat
  BY <1>T, <1>1, <1>2, <1>3, <1>4, <1>6, <1>7, <1>8, <1>9, <1>10 DEF Evict
<1>11. CASE UNCHANGED vars
  BY <1>1, <1>11 DEF vars
<1> QED BY <1>5, <1>10, <1>11 DEF Next

LEMMA SpendTypes ==
    ASSUME TypeInv, NEW kind \in {"ops", "faults"}, Spend(kind)
    PROVE  budget' \in [ops : Nat, faults : Nat]
<1>1. budget \in [ops : Nat, faults : Nat] /\ budget[kind] > 0
  BY DEF TypeInv, TypeOK, Spend
<1>2. CASE kind = "ops"
  <2>1. budget.ops - 1 \in Nat
    BY <1>1, <1>2
  <2>2. budget' = [budget EXCEPT !.ops = budget.ops - 1]
    BY <1>2 DEF Spend
  <2> QED BY <1>1, <2>1, <2>2
<1>3. CASE kind = "faults"
  <2>1. budget.faults - 1 \in Nat
    BY <1>1, <1>3
  <2>2. budget' = [budget EXCEPT !.faults = budget.faults - 1]
    BY <1>3 DEF Spend
  <2> QED BY <1>1, <2>1, <2>2
<1> QED BY <1>2, <1>3

LEMMA BudgetNext ==
    ASSUME TypeInv, [Next]_vars
    PROVE  budget' \in [ops : Nat, faults : Nat] /\ active' \subseteq Users /\ projects' \subseteq Projects
<1>T. budget \in [ops : Nat, faults : Nat] /\ active \subseteq Users /\ projects \subseteq Projects
  BY DEF TypeInv, TypeOK
<1>1. ASSUME NEW r \in Requests, Begin(r)
      PROVE  Spend("ops") /\ UNCHANGED <<active, projects>>
  BY <1>1 DEF Begin, LoadAuthenticatedUser, RestoreSystemRoles
<1>2. ASSUME NEW r \in Requests, Authorise(r)
      PROVE  (Spend("faults") \/ UNCHANGED budget) /\ UNCHANGED <<active, projects>>
  BY <1>2 DEF Authorise, CacheUnreachable, Load, Write, WriteFails
<1>3. ASSUME NEW r \in Requests, Check(r)
      PROVE  UNCHANGED <<budget, active>> /\ (UNCHANGED projects \/ \E p \in Projects : projects' = projects \cup {p})
  BY <1>3, CheckPrivate DEF CreateProject, Private, Tables
<1>4. ASSUME NEW r \in Requests, Commit(r)
      PROVE  UNCHANGED <<budget, projects>> /\ active' \subseteq active
  BY <1>4 DEF Commit, GrantCommit, ChangeRoleCommit, RevokeCommit, CreateRoleCommit,
              UpdateRoleCommit, DeleteRoleCommit, DeactivateCommit
<1>5. ASSUME NEW r \in Requests, Evict(r)
      PROVE  (Spend("faults") \/ UNCHANGED budget) /\ UNCHANGED <<active, projects>>
  BY <1>5 DEF Evict, InvalidateUser, BumpEpoch, EvictionLost
<1>6. CASE Tick \/ UNCHANGED vars
  BY <1>T, <1>6 DEF Tick, vars
<1> QED BY <1>T, <1>1, <1>2, <1>3, <1>4, <1>5, <1>6, SpendTypes DEF Next

LEMMA TypeNext ==
    ASSUME TypeInv, [Next]_vars
    PROVE  TypeInv'
<1>1. \A u \in Users : cache'[u] = None \/ cache'[u] \in Entry
  BY EntriesNext
<1> QED BY <1>1, RowsNext, EntriesNext, BudgetNext DEF TypeInv, TypeOK, Handlers

LEMMA TypeInit == Init => TypeInv
<1> SUFFICES ASSUME Init PROVE TypeInv
  OBVIOUS
<1>0. NoGrants \in Grants
  <2>1. NoGrants \in [{} -> ProjectGrant] /\ {} \in SUBSET Projects
    BY DEF NoGrants
  <2> QED BY <2>1 DEF Grants
<1>1. Idle \in Request /\ Idle.op = "none" /\ Idle.stage = "idle"
  BY <1>0 DEF Idle, Request
<1>2. req \in [Requests -> Request] /\ \A r \in Requests : req[r] = Idle
  BY <1>1 DEF Init
<1>3. /\ \A k \in RoleIds : roles[k] \in Role
      /\ \A k \in SystemNames : LiveRole(k) /\ roles[k].name = k
      /\ \A k \in RoleIds \ SystemNames : roles[k].state = "absent" /\ roles[k].name = None
  <2>1. PICK S \in SUBSET SystemRoles["viewer"] :
          roles = [k \in RoleIds |->
                      IF k = "viewer" THEN [state |-> "live", name |-> k, perms |-> S]
                      ELSE IF k \in SystemNames
                      THEN [state |-> "live", name |-> k, perms |-> SystemRoles[k]]
                      ELSE [state |-> "absent", name |-> None, perms |-> {}]]
    BY DEF Init
  <2>2. S \subseteq Permissions /\ \A k \in SystemNames : SystemRoles[k] \subseteq Permissions /\ k \in Names
    BY AccessAssumption DEF Names
  <2>3. ASSUME NEW k \in RoleIds, k \in SystemNames
        PROVE  \E P \in SUBSET Permissions : roles[k] = [state |-> "live", name |-> k, perms |-> P]
    BY <2>1, <2>2, <2>3
  <2>4. ASSUME NEW k \in RoleIds, k \notin SystemNames
        PROVE  roles[k] = [state |-> "absent", name |-> None, perms |-> {}]
    BY <2>1, <2>4, AccessAssumption
  <2>5. ASSUME NEW k \in RoleIds, k \in SystemNames
        PROVE  roles[k] \in Role /\ LiveRole(k) /\ roles[k].name = k
    <3>1. PICK P \in SUBSET Permissions : roles[k] = [state |-> "live", name |-> k, perms |-> P]
      BY <2>3, <2>5
    <3> QED BY <2>2, <2>5, <3>1 DEF Role, LiveRole
  <2>6. ASSUME NEW k \in RoleIds, k \notin SystemNames
        PROVE  roles[k] \in Role /\ roles[k].state = "absent" /\ roles[k].name = None
    BY <2>4, <2>6 DEF Role
  <2> QED BY <2>5, <2>6, AccessAssumption
<1>4. roles \in [RoleIds -> Role]
  <2>1. roles = [k \in RoleIds |-> roles[k]]
    BY DEF Init
  <2> QED BY <1>3, <2>1
<1>5. RoleRows
  BY <1>3, AccessAssumption DEF RoleRows, Names, LiveRole
<1>6. /\ projects \subseteq Projects /\ members \in [Users -> [Projects -> ProjectMembership]]
      /\ \A u \in Users, p \in Projects : GetFor(u, p) \in {"owner", None}
  BY AccessAssumption DEF Init, ProjectMembership, GetFor
<1>7. MemberRows
  BY <1>6, <1>3, AccessAssumption DEF MemberRows, IsMember, LiveRole
<1>8. Wants(Idle) /\ Current(Idle)
  BY <1>1 DEF Wants, Current
<1>9. active \subseteq Users /\ epoch \in Nat /\ budget \in [ops : Nat, faults : Nat]
      /\ cache \in [Users -> Entry \cup {None}] /\ \A u \in Users : cache[u] = None
  BY AccessAssumption DEF Init
<1> QED BY <1>1, <1>2, <1>4, <1>5, <1>6, <1>7, <1>8, <1>9 DEF TypeInv, TypeOK, FreshIds

-----------------------------------------------------------------------------
(* The cache agrees with PostgreSQL once the evictions are done *)

LEMMA CommitStages ==
    ASSUME TypeInv, NEW r \in Requests, Committed(r, [Idle EXCEPT !.stage = "bump"])
    PROVE  req'[r].stage = "bump"
  BY DEF Committed, Idle

LEMMA EvictStages ==
    ASSUME TypeInv, NEW r \in Requests, NEW u \in Users, ThenEvict(r, u)
    PROVE  req'[r].stage = "evict" /\ req'[r].user = u
  BY DEF ThenEvict, Committed, Idle

\* A request that owes no eviction takes none away.
LEMMA PendingKept ==
    ASSUME TypeInv, NEW r \in Requests, req[r].stage \notin {"evict", "bump"},
           \/ \E q : req' = [req EXCEPT ![r] = q]
           \/ \E q : After(q) /\ Committed(r, q)
    PROVE  \A u \in Users : EvictionPending(u) => EvictionPending(u)'
<1>1. ASSUME NEW x \in Requests, x # r PROVE req'[x].stage = req[x].stage /\ req'[x].user = req[x].user
  <2>1. CASE \E q : req' = [req EXCEPT ![r] = q]
    BY <1>1, <2>1 DEF TypeInv, TypeOK
  <2>2. CASE \E q : After(q) /\ Committed(r, q)
    BY <1>1, <2>2, CommittedOthers
  <2> QED BY <2>1, <2>2
<1> QED BY <1>1 DEF EvictionPending

LEMMA SameGrants ==
    ASSUME UNCHANGED <<roles, members>>, NEW u \in Users
    PROVE  LoadGrants(u)' = LoadGrants(u)
  BY DEF LoadGrants, IsMember, LiveRole, GetFor, PermissionsFor

\* Only the member's own grants change with a membership.
LEMMA OthersGrants ==
    ASSUME NEW r, NEW u, NEW p, NEW k, MembershipCommit(r, u, p, k), NEW v \in Users, v # u
    PROVE  LoadGrants(v)' = LoadGrants(v)
<1>1. \A y \in Projects : GetFor(v, y)' = GetFor(v, y)
  BY DEF MembershipCommit, Wrote
<1>2. UNCHANGED roles
  BY DEF MembershipCommit
<1>3. {x \in Projects : IsMember(v, x) /\ LiveRole(GetFor(v, x))}'
        = {x \in Projects : IsMember(v, x) /\ LiveRole(GetFor(v, x))}
  BY <1>1, <1>2 DEF IsMember, LiveRole
<1> QED BY <1>1, <1>2, <1>3 DEF LoadGrants, PermissionsFor

\* A role just created is nobody's yet.
LEMMA CreateGrants ==
    ASSUME TypeInv, NEW r \in Requests, CreateRoleCommit(r), NEW u \in Users
    PROVE  LoadGrants(u)' = LoadGrants(u)
<1>1. UNCHANGED members /\ \A k \in RoleIds : roles[k].state # "absent" => roles'[k] = roles[k]
  BY CreateRoleCommitted DEF RoleCommit
<1>2. \A y \in Projects : GetFor(u, y)' = GetFor(u, y)
  BY <1>1 DEF GetFor
<1>3. \A y \in Projects : IsMember(u, y) => roles'[GetFor(u, y)] = roles[GetFor(u, y)]
  BY <1>1 DEF TypeInv, MemberRows
<1>4. {x \in Projects : IsMember(u, x) /\ LiveRole(GetFor(u, x))}'
        = {x \in Projects : IsMember(u, x) /\ LiveRole(GetFor(u, x))}
  BY <1>2, <1>3 DEF IsMember, LiveRole
<1> QED BY <1>2, <1>3, <1>4 DEF LoadGrants, PermissionsFor

\* A step that owes no eviction and leaves the entries alone keeps them fresh, if the
\* grants it changes are those of users it will evict.
LEMMA EntriesAlone ==
    ASSUME TypeInv, CacheInv, NEW r \in Requests, UNCHANGED cache,
           req[r].stage \notin {"evict", "bump"},
           \/ \E q : req' = [req EXCEPT ![r] = q]
           \/ \E q : After(q) /\ Committed(r, q),
           \A u \in Users : LoadGrants(u)' = LoadGrants(u) \/ EvictionPending(u)'
    PROVE  CacheInv'
  BY PendingKept DEF CacheInv

LEMMA CommitCache ==
    ASSUME TypeInv, CacheInv, NEW r \in Requests, Commit(r)
    PROVE  CacheInv'
<1>1. UNCHANGED cache /\ req[r].stage = "commit"
  BY DEF Commit, GrantCommit, ChangeRoleCommit, RevokeCommit, CreateRoleCommit,
         UpdateRoleCommit, DeleteRoleCommit, DeactivateCommit
<1>2. After(Idle) /\ After([Idle EXCEPT !.stage = "bump"])
      /\ \A u \in Users : After([Idle EXCEPT !.stage = "evict", !.user = u])
  BY DEF After
<1>3. CASE Private(r, Idle)
  BY <1>1, <1>3, SameGrants, EntriesAlone DEF Private, Tables
<1>4. ASSUME NEW u, NEW p, NEW k, MembershipCommit(r, u, p, k) PROVE CacheInv'
  <2>1. u \in Users /\ ThenEvict(r, u)
    BY <1>4 DEF MembershipCommit
  <2>2. EvictionPending(u)'
    BY <2>1, EvictStages DEF EvictionPending
  <2>3. \A v \in Users : LoadGrants(v)' = LoadGrants(v) \/ EvictionPending(v)'
    BY <1>4, <2>2, OthersGrants
  <2>4. \E q : After(q) /\ Committed(r, q)
    BY <1>2, <2>1 DEF ThenEvict
  <2> QED BY <1>1, <2>3, <2>4, EntriesAlone
<1>5. ASSUME ThenBump(r) PROVE CacheInv'
  <2>1. req'[r].stage = "bump"
    BY <1>5, CommitStages DEF ThenBump
  <2> QED BY <2>1 DEF CacheInv, EvictionPending
<1>6. CASE CreateRoleCommit(r)
  <2>1. Committed(r, Idle)
    BY <1>6, CreateRoleCommitted
  <2> QED BY <1>1, <1>2, <1>6, <2>1, CreateGrants, EntriesAlone
<1>7. CASE DeactivateCommit(r)
  <2>1. Committed(r, Idle) /\ UNCHANGED <<roles, members>>
    BY <1>7 DEF DeactivateCommit
  <2> QED BY <1>1, <1>2, <2>1, SameGrants, EntriesAlone
<1> QED BY <1>3, <1>4, <1>5, <1>6, <1>7, GrantCommitted, ChangeRoleCommitted, RevokeCommitted,
           UpdateRoleCommitted, DeleteRoleCommitted DEF Commit

LEMMA EvictCache ==
    ASSUME TypeInv, CacheInv, NEW r \in Requests, Evict(r)
    PROVE  CacheInv'
<1>T. /\ cache \in [Users -> Entry \cup {None}] /\ req \in [Requests -> Request]
      /\ Wants(req[r]) /\ UNCHANGED <<roles, members>> /\ req' = [req EXCEPT ![r] = Idle]
  BY EvictPrivate DEF TypeInv, TypeOK, Private, Tables
<1>1. CASE BumpEpoch(r)
  BY <1>1 DEF BumpEpoch, CacheInv
<1>2. CASE EvictionLost(r) /\ req[r].stage = "bump"
  <2>1. ASSUME NEW u \in Users, cache'[u] # None PROVE cache'[u].late
    <3>1. cache[u] # None /\ cache'[u] = [cache[u] EXCEPT !.late = TRUE]
      BY <1>2, <2>1 DEF EvictionLost
    <3>2. cache[u] \in Entry
      BY <1>T, <3>1
    <3> QED BY <3>1, <3>2 DEF Entry
  <2> QED BY <2>1 DEF CacheInv
<1>3. CASE req[r].stage = "evict" /\ (InvalidateUser(r) \/ EvictionLost(r))
  <2>1. ASSUME NEW u \in Users, cache'[u] # None, ~cache'[u].late
        PROVE  u # req[r].user /\ cache'[u] = cache[u]
    <3>1. CASE InvalidateUser(r)
      BY <1>T, <2>1, <3>1 DEF InvalidateUser, Wants
    <3>2. CASE EvictionLost(r) /\ u = req[r].user
      <4>1. cache[u] # None /\ cache'[u] = [cache[u] EXCEPT !.late = TRUE]
        BY <3>2, <2>1 DEF EvictionLost
      <4>2. cache[u] \in Entry
        BY <1>T, <4>1
      <4> QED BY <2>1, <4>1, <4>2 DEF Entry
    <3>3. CASE EvictionLost(r) /\ u # req[r].user
      BY <1>3, <3>3 DEF EvictionLost
    <3> QED BY <1>3, <3>1, <3>2, <3>3
  <2>2. ASSUME NEW u \in Users, u # req[r].user, EvictionPending(u) PROVE EvictionPending(u)'
    <3>1. PICK x \in Requests : req[x].stage = "bump" \/ (req[x].stage = "evict" /\ req[x].user = u)
      BY <2>2 DEF EvictionPending
    <3>2. x # r
      BY <1>3, <2>2, <3>1
    <3>3. req'[x] = req[x]
      BY <1>T, <3>2
    <3> QED BY <3>1, <3>3 DEF EvictionPending
  <2> QED BY <1>T, <2>1, <2>2, SameGrants DEF CacheInv
<1> QED BY <1>1, <1>2, <1>3 DEF Evict, InvalidateUser, EvictionLost

LEMMA WriteCache ==
    ASSUME TypeInv, CacheInv, NEW r \in Requests, Write(r)
    PROVE  CacheInv'
<1>T. /\ cache \in [Users -> Entry \cup {None}] /\ req[r].actor \in Users
      /\ UNCHANGED <<roles, members>>
      /\ req[r].stage = "write" /\ \E q : req' = [req EXCEPT ![r] = q]
  BY AuthorisePrivate DEF TypeInv, Wants, Write, Authorise, Private
<1>1. \A u \in Users : EvictionPending(u) => EvictionPending(u)'
  BY <1>T, PendingKept
<1>2. ASSUME NEW u \in Users, cache'[u] # None, ~cache'[u].late
      PROVE  cache'[u] = cache[u] \/ cache'[u].grants = LoadGrants(u)
  <2>1. cache'[u] = cache[u] \/ (u = req[r].actor /\ cache'[u] = Snapshot(u, req[r].grants))
    BY <1>T DEF Write
  <2>2. ASSUME cache'[u] = Snapshot(u, req[r].grants) PROVE cache'[u].grants = LoadGrants(u)
    <3>1. cache'[u].late = (req[r].grants # LoadGrants(u)) /\ cache'[u].grants = req[r].grants
      BY <2>2 DEF Snapshot
    <3> QED BY <1>2, <3>1
  <2> QED BY <2>1, <2>2
<1> QED BY <1>T, <1>1, <1>2, SameGrants DEF CacheInv

LEMMA TickCache ==
    ASSUME TypeInv, CacheInv, Tick
    PROVE  CacheInv'
<1>T. cache \in [Users -> Entry \cup {None}] /\ UNCHANGED <<roles, members, req>>
  BY DEF TypeInv, Tick
<1>1. ASSUME NEW u \in Users, cache'[u] # None
      PROVE  cache[u] # None /\ cache'[u].late = cache[u].late /\ cache'[u].grants = cache[u].grants
  <2>1. cache[u] # None /\ (cache'[u] = cache[u] \/ cache'[u] = [cache[u] EXCEPT !.ttl = @ - 1])
    BY <1>1 DEF Tick
  <2>2. cache[u] \in Entry
    BY <1>T, <2>1
  <2> QED BY <2>1, <2>2 DEF Entry
<1> QED BY <1>T, <1>1, SameGrants DEF CacheInv, EvictionPending

LEMMA CacheNext ==
    ASSUME TypeInv, CacheInv, [Next]_vars
    PROVE  CacheInv'
<1>1. CASE UNCHANGED vars
  BY <1>1, SameGrants DEF vars, CacheInv, EvictionPending
<1>2. ASSUME NEW r \in Requests, NEW u \in Users, LoadAuthenticatedUser(r, u) PROVE CacheInv'
  <2>1. UNCHANGED <<cache, roles, members>> /\ req[r].stage = "idle" /\ \E q : req' = [req EXCEPT ![r] = q]
    BY <1>2 DEF LoadAuthenticatedUser
  <2> QED BY <2>1, SameGrants, EntriesAlone
<1>3. ASSUME NEW r \in Requests, RestoreSystemRoles(r) PROVE CacheInv'
  <2>1. req'[r].stage = "bump"
    BY <1>3, CommitStages DEF RestoreSystemRoles, ThenBump
  <2> QED BY <2>1 DEF CacheInv, EvictionPending
<1>4. ASSUME NEW r \in Requests, Authorise(r), ~Write(r) PROVE CacheInv'
  <2>1. UNCHANGED <<cache, roles, members>> /\ req[r].stage \in {"load", "write"}
        /\ \E q : req' = [req EXCEPT ![r] = q]
    BY <1>4, AuthorisePrivate DEF Authorise, CacheUnreachable, Load, WriteFails, Private
  <2> QED BY <2>1, SameGrants, EntriesAlone
<1>5. ASSUME NEW r \in Requests, Check(r) PROVE CacheInv'
  <2>1. CASE req[r].stage = "ready" /\ UNCHANGED <<epoch, cache, budget>> /\ \E q : Private(r, q)
    <3>1. UNCHANGED <<roles, members>> /\ \E q : req' = [req EXCEPT ![r] = q]
      BY <2>1 DEF Private, Tables
    <3> QED BY <2>1, <3>1, SameGrants, EntriesAlone
  <2>2. ASSUME NEW p \in Projects, CreateProject(r, p) PROVE CacheInv'
    <3>1. MembershipCommit(r, req[r].actor, p, "owner") /\ UNCHANGED cache /\ req[r].stage = "ready"
      BY <2>2, CreateProjectCommitted DEF CreateProject
    <3>2. req[r].actor \in Users /\ ThenEvict(r, req[r].actor)
      BY <3>1 DEF MembershipCommit
    <3>3. CacheInv'
      <4>1. PICK a \in Users : a = req[r].actor
        BY <3>2
      <4>2. req'[r].stage = "evict" /\ req'[r].user = a
        BY <3>2, <4>1, EvictStages
      <4>3. EvictionPending(a)'
        BY <4>2 DEF EvictionPending
      <4>4. \A v \in Users : LoadGrants(v)' = LoadGrants(v) \/ EvictionPending(v)'
        BY <3>1, <4>1, <4>3, OthersGrants
      <4>5. After([Idle EXCEPT !.stage = "evict", !.user = a])
        BY DEF After
      <4> QED BY <3>1, <3>2, <4>1, <4>4, <4>5, EntriesAlone DEF ThenEvict
    <3> QED BY <3>3
  <2> QED BY <1>5, <2>1, <2>2, CheckPrivate
<1> QED BY <1>1, <1>2, <1>3, <1>4, <1>5, WriteCache, CommitCache, EvictCache, TickCache DEF Next, Begin

\* What a user is authorised from is what PostgreSQL grants them, unless an eviction is
\* still owed, the entry was stored late or its eviction was lost: core/grant_cache.py
\* with every commit of the membership and role services, for any TTL.
THEOREM CacheIsFresh == Spec => []CacheFresh
<1>1. Init => TypeInv /\ CacheInv
  <2> SUFFICES ASSUME Init PROVE CacheInv
    BY TypeInit
  <2> QED BY DEF Init, CacheInv
<1>2. TypeInv /\ CacheInv /\ [Next]_vars => (TypeInv /\ CacheInv)'
  BY TypeNext, CacheNext
<1>3. TypeInv /\ CacheInv => CacheFresh
  BY DEF TypeInv, CacheInv, CacheFresh
<1> QED BY <1>1, <1>2, <1>3, PTL DEF Spec

-----------------------------------------------------------------------------
(* Commits on current checks *)

\* Holding the owner role is holding the owner row: no other row bears its name.
LEMMA OwnerRow ==
    ASSUME TypeInv, NEW u \in Users, NEW p \in Projects
    PROVE  HoldsOwner(u, p) <=> GetFor(u, p) = "owner"
<1>1. "owner" \in SystemNames /\ "owner" \in RoleIds /\ None \notin RoleIds
  BY AccessAssumption
<1>2. ASSUME GetFor(u, p) = "owner" PROVE HoldsOwner(u, p)
  BY <1>1, <1>2 DEF HoldsOwner, IsMember, TypeInv, RoleRows
<1>3. ASSUME HoldsOwner(u, p) PROVE GetFor(u, p) = "owner"
  <2>1. GetFor(u, p) \in RoleIds /\ roles[GetFor(u, p)].name = "owner"
    BY <1>3 DEF HoldsOwner, TypeInv, MemberRows
  <2> QED BY <1>1, <2>1 DEF TypeInv, RoleRows
<1> QED BY <1>2, <1>3

LEMMA OwnerRowNext ==
    ASSUME TypeInv, [Next]_vars, NEW u \in Users, NEW p \in Projects
    PROVE  HoldsOwner(u, p)' <=> GetFor(u, p)' = "owner"
<1>0. RoleRows' /\ MemberRows'
  BY RowsNext
<1>1. "owner" \in SystemNames /\ "owner" \in RoleIds /\ None \notin RoleIds
  BY AccessAssumption
<1>2. ASSUME GetFor(u, p)' = "owner" PROVE HoldsOwner(u, p)'
  BY <1>0, <1>1, <1>2 DEF HoldsOwner, IsMember, RoleRows
<1>3. ASSUME HoldsOwner(u, p)' PROVE GetFor(u, p)' = "owner"
  <2>1. GetFor(u, p)' \in RoleIds /\ roles'[GetFor(u, p)'].name = "owner"
    BY <1>0, <1>3 DEF HoldsOwner, MemberRows
  <2> QED BY <1>0, <1>1, <2>1 DEF RoleRows
<1> QED BY <1>2, <1>3

\* It is enough that every owned project keeps an active account with the owner row.
LEMMA OwnersKept ==
    ASSUME TypeInv, [Next]_vars,
           \A p \in projects' : \/ p \in projects /\ ~\E u \in active : GetFor(u, p) = "owner"
                                \/ \E u \in active' : GetFor(u, p)' = "owner"
    PROVE  LastOwnerKept
<1>1. projects' \subseteq Projects /\ active' \subseteq Users /\ active \subseteq Users
  BY BudgetNext DEF TypeInv, TypeOK
<1>2. ASSUME NEW p \in projects', p \in OwnerlessProjects' PROVE p \in OwnerlessProjects
  <2>1. ~\E u \in active' : HoldsOwner(u, p)'
    BY <1>2 DEF OwnerlessProjects
  <2>2. ~\E u \in active' : GetFor(u, p)' = "owner"
    BY <1>1, <2>1, OwnerRowNext
  <2>3. p \in projects /\ ~\E u \in active : GetFor(u, p) = "owner"
    BY <2>2
  <2>4. ~\E u \in active : HoldsOwner(u, p)
    BY <1>1, <2>3, OwnerRow
  <2> QED BY <2>3, <2>4 DEF OwnerlessProjects
<1> QED BY <1>2 DEF LastOwnerKept

\* Another active owner than u, as the handlers look for one.
LEMMA AnotherOwner ==
    ASSUME TypeInv, NEW p \in Projects, NEW u, LiveOwners(p, u) # {}
    PROVE  \E v \in active : v # u /\ GetFor(v, p) = "owner"
<1>1. PICK v \in active : v # u /\ HoldsOwner(v, p)
  BY DEF LiveOwners
<1>2. v \in Users
  BY DEF TypeInv, TypeOK
<1> QED BY <1>1, <1>2, OwnerRow

\* A membership may go to k if it was not the owner's, becomes it, or another owner stays.
LEMMA MembershipSafe ==
    ASSUME TypeInv, [Next]_vars, NEW r \in Requests, NEW u, NEW p, NEW k,
           MembershipCommit(r, u, p, k),
           \/ UNCHANGED projects /\ (GetFor(u, p) = "owner" /\ k # "owner" => LiveOwners(p, u) # {})
           \/ projects' = projects \cup {p} /\ k = "owner" /\ u \in active,
           (k \in RoleIds /\ LiveRole(k)) \/ k = None \/ k = GetFor(u, p)
    PROVE  LastOwnerKept /\ NoDanglingRole
<1>1. u \in Users /\ p \in Projects /\ UNCHANGED <<active, roles>> /\ Wrote(u, p, k)
      /\ active \subseteq Users /\ projects \subseteq Projects
  BY DEF MembershipCommit, TypeInv, TypeOK
<1>2. ASSUME NEW y \in projects', y \in projects => \E v \in active : GetFor(v, y) = "owner"
      PROVE  \E v \in active' : GetFor(v, y)' = "owner"
  <2>1. CASE y \in projects
    <3>1. PICK v \in active : GetFor(v, y) = "owner"
      BY <1>2, <2>1
    <3>2. v \in Users /\ y \in Projects
      BY <1>1, <2>1
    <3>3. CASE v # u \/ y # p \/ k = "owner"
      <4>1. GetFor(v, y)' = "owner"
        BY <1>1, <3>1, <3>2, <3>3 DEF Wrote
      <4> QED BY <1>1, <4>1
    <3>4. CASE v = u /\ y = p /\ k # "owner"
      <4>1. LiveOwners(p, u) # {}
        BY <3>1, <3>4
      <4>2. PICK w \in active : w # u /\ GetFor(w, p) = "owner"
        BY <1>1, <4>1, AnotherOwner
      <4>3. w \in Users /\ GetFor(w, p)' = "owner"
        BY <1>1, <4>2 DEF Wrote
      <4> QED BY <1>1, <3>4, <4>3
    <3> QED BY <3>3, <3>4
  <2>2. CASE y \notin projects
    <3>1. y = p /\ k = "owner" /\ u \in active
      BY <2>2
    <3>2. GetFor(u, p)' = "owner"
      BY <1>1, <3>1 DEF Wrote
    <3> QED BY <1>1, <3>1, <3>2
  <2> QED BY <2>1, <2>2
<1>3. LastOwnerKept
  BY <1>2, OwnersKept
<1>4. ASSUME NEW v \in Users, NEW y \in Projects, Dangling(v, y)' PROVE Dangling(v, y)
  <2>1. GetFor(v, y)' # None /\ ~LiveRole(GetFor(v, y)')
    BY <1>1, <1>4 DEF Dangling, IsMember, LiveRole
  <2>2. GetFor(v, y)' = GetFor(v, y)
    BY <1>1, <2>1 DEF Wrote
  <2> QED BY <2>1, <2>2 DEF Dangling, IsMember
<1> QED BY <1>3, <1>4 DEF NoDanglingRole

\* A transaction on roles may not kill one that a member has.
LEMMA RoleSafe ==
    ASSUME TypeInv, [Next]_vars, NEW r \in Requests, RoleCommit(r),
           \A u \in Users, p \in Projects :
               IsMember(u, p) => roles'[GetFor(u, p)].state = roles[GetFor(u, p)].state
    PROVE  LastOwnerKept /\ NoDanglingRole
<1>1. UNCHANGED <<active, projects, members>> /\ active \subseteq Users /\ projects \subseteq Projects
  BY DEF RoleCommit, TypeInv, TypeOK
<1>2. \A u \in Users, p \in Projects : GetFor(u, p)' = GetFor(u, p)
  BY <1>1 DEF GetFor
<1>3. LastOwnerKept
  <2>1. ASSUME NEW p \in projects', \E u \in active : GetFor(u, p) = "owner"
        PROVE  \E u \in active' : GetFor(u, p)' = "owner"
    BY <1>1, <1>2, <2>1
  <2> QED BY <1>1, <2>1, OwnersKept
<1>4. NoDanglingRole
  BY <1>2 DEF NoDanglingRole, Dangling, IsMember, LiveRole
<1> QED BY <1>3, <1>4

LEMMA TablesSafe ==
    ASSUME UNCHANGED Tables
    PROVE  LastOwnerKept /\ NoDanglingRole
  BY DEF Tables, LastOwnerKept, NoDanglingRole, OwnerlessProjects, HoldsOwner, Dangling, IsMember,
         GetFor, LiveRole

LEMMA CommitSafe ==
    ASSUME TypeInv, [Next]_vars, NEW r \in Requests, ~req[r].crossed, Commit(r)
    PROVE  LastOwnerKept /\ NoDanglingRole
<1>T. Current(req[r]) /\ Wants(req[r])
  BY DEF TypeInv
<1>0. CASE Private(r, Idle)
  BY <1>0, TablesSafe DEF Private
<1>1. CASE GrantCommit(r) /\ ~Private(r, Idle)
  <2> DEFINE u == req[r].user
             p == req[r].project
             k == req[r].role
  <2>1. MembershipCommit(r, u, p, k) /\ ~IsMember(u, p) /\ UNCHANGED projects
    BY <1>1, GrantCommitted
  <2>2. k \in RoleIds /\ LiveRole(k)
    BY <1>1, <1>T DEF GrantCommit, Wants, Current
  <2>3. GetFor(u, p) # "owner"
    BY <2>1, AccessAssumption DEF IsMember
  <2> HIDE DEF u, p, k
  <2> QED BY <2>1, <2>2, <2>3, MembershipSafe
<1>2. CASE ChangeRoleCommit(r)
  <2>1. PICK k \in {req[r].role, GetFor(req[r].user, req[r].project)} :
          MembershipCommit(r, req[r].user, req[r].project, k)
    BY <1>2, ChangeRoleCommitted
  <2> DEFINE u == req[r].user
             p == req[r].project
  <2>2. UNCHANGED projects
    BY <1>2, ChangeRoleCommitted
  <2>3. req[r].role \in RoleIds /\ LiveRole(req[r].role)
        /\ (roles[req[r].role].name # "owner" => LiveOwners(p, u) # {})
    BY <1>2, <1>T DEF ChangeRoleCommit, Wants, Current
  <2>4. req[r].role # "owner" => roles[req[r].role].name # "owner"
    BY <2>3, AccessAssumption DEF TypeInv, RoleRows
  <2>5. GetFor(u, p) = "owner" /\ k # "owner" => LiveOwners(p, u) # {}
    BY <2>1, <2>3, <2>4
  <2>6. MembershipCommit(r, u, p, k) /\ ((k \in RoleIds /\ LiveRole(k)) \/ k = GetFor(u, p))
    BY <2>1, <2>3
  <2> HIDE DEF u, p
  <2> QED BY <2>2, <2>5, <2>6, MembershipSafe
<1>3. CASE RevokeCommit(r)
  <2>1. PICK k \in {None, GetFor(req[r].user, req[r].project)} :
          MembershipCommit(r, req[r].user, req[r].project, k)
    BY <1>3, RevokeCommitted
  <2>2. UNCHANGED projects /\ LiveOwners(req[r].project, req[r].user) # {}
    BY <1>3, <1>T, RevokeCommitted DEF RevokeCommit, Wants, Current
  <2> QED BY <2>1, <2>2, MembershipSafe
<1>4. CASE CreateRoleCommit(r)
  <2>1. RoleCommit(r) /\ \A k \in RoleIds : roles[k].state # "absent" => roles'[k] = roles[k]
    BY <1>4, CreateRoleCommitted
  <2>2. \A u \in Users, p \in Projects :
          IsMember(u, p) => roles'[GetFor(u, p)].state = roles[GetFor(u, p)].state
    BY <2>1 DEF TypeInv, MemberRows
  <2> QED BY <2>1, <2>2, RoleSafe
<1>5. CASE UpdateRoleCommit(r) /\ ~Private(r, Idle)
  <2>1. RoleCommit(r) /\ \A k \in RoleIds : roles'[k].state = roles[k].state
    BY <1>5, UpdateRoleCommitted
  <2>2. \A u \in Users, p \in Projects :
          IsMember(u, p) => roles'[GetFor(u, p)].state = roles[GetFor(u, p)].state
    BY <2>1 DEF TypeInv, MemberRows
  <2> QED BY <2>1, <2>2, RoleSafe
<1>6. CASE DeleteRoleCommit(r)
  <2>1. RoleCommit(r) /\ \A k \in RoleIds : k # req[r].role => roles'[k].state = roles[k].state
    BY <1>6, DeleteRoleCommitted
  <2>2. \A u \in Users, p \in Projects : GetFor(u, p) # req[r].role
    BY <1>6, <1>T DEF DeleteRoleCommit, Current
  <2>3. \A u \in Users, p \in Projects :
          IsMember(u, p) => roles'[GetFor(u, p)].state = roles[GetFor(u, p)].state
    BY <2>1, <2>2 DEF TypeInv, MemberRows
  <2> QED BY <2>1, <2>3, RoleSafe
<1>7. CASE DeactivateCommit(r)
  <2>1. /\ active' = active \ {req[r].user} /\ UNCHANGED <<projects, roles, members>>
        /\ SolelyOwnedBy(req[r].user) = {} /\ req[r].user \in Users
        /\ active \subseteq Users /\ projects \subseteq Projects
    BY <1>7, <1>T DEF DeactivateCommit, Current, Wants, TypeInv, TypeOK
  <2>2. ASSUME NEW p \in projects, NEW u \in active, GetFor(u, p) = "owner"
        PROVE  \E v \in active' : GetFor(v, p)' = "owner"
    <3>1. u \in Users /\ p \in Projects
      BY <2>1
    <3>2. CASE u # req[r].user
      <4>1. u \in active' /\ GetFor(u, p)' = "owner"
        BY <2>1, <2>2, <3>2 DEF GetFor
      <4> QED BY <4>1
    <3>3. CASE u = req[r].user
      <4>1. HoldsOwner(u, p)
        BY <2>2, <3>1, OwnerRow
      <4>2. LiveOwners(p, u) # {}
        BY <2>1, <3>1, <3>3, <4>1 DEF SolelyOwnedBy
      <4>3. PICK v \in active : v # u /\ GetFor(v, p) = "owner"
        BY <3>1, <4>2, AnotherOwner
      <4>4. v \in active' /\ GetFor(v, p)' = "owner"
        BY <2>1, <3>3, <4>3 DEF GetFor
      <4> QED BY <4>4
    <3> QED BY <3>2, <3>3
  <2>3. LastOwnerKept
    BY <2>1, <2>2, OwnersKept
  <2>4. NoDanglingRole
    BY <2>1 DEF NoDanglingRole, Dangling, IsMember, GetFor, LiveRole
  <2> QED BY <2>3, <2>4
<1> QED BY <1>0, <1>1, <1>2, <1>3, <1>4, <1>5, <1>6, <1>7 DEF Commit

LEMMA FreshChecksHold ==
    ASSUME TypeInv, [Next]_vars, NEW r \in Requests, CommitsOnFreshChecks(r)
    PROVE  LastOwnerKept /\ NoDanglingRole
<1>T. req \in [Requests -> Request]
  BY DEF TypeInv, TypeOK
<1>0. CASE UNCHANGED Tables
  BY <1>0, TablesSafe
<1>1. ASSUME NEW x \in Requests, ThenBump(x) \/ Committed(x, Idle) \/ \E u \in Users : ThenEvict(x, u)
      PROVE  x = r
  <2>1. \E q : After(q) /\ Committed(x, q)
    BY <1>1 DEF After, ThenBump, ThenEvict
  <2>2. x # r => req'[r].stage = req[r].stage
    BY <2>1, CommittedOthers
  <2> QED BY <2>2 DEF CommitsOnFreshChecks
<1>2. ASSUME NEW x \in Requests, Commit(x) PROVE LastOwnerKept /\ NoDanglingRole
  <2>1. CASE Private(x, Idle)
    BY <2>1, TablesSafe DEF Private
  <2>2. CASE ~Private(x, Idle)
    <3>1. ThenBump(x) \/ Committed(x, Idle) \/ \E u \in Users : ThenEvict(x, u)
      BY <1>2, <2>2, GrantCommitted, ChangeRoleCommitted, RevokeCommitted, CreateRoleCommitted,
         UpdateRoleCommitted, DeleteRoleCommitted DEF Commit, MembershipCommit, DeactivateCommit
    <3> QED BY <1>1, <1>2, <3>1, CommitSafe DEF CommitsOnFreshChecks
  <2> QED BY <2>1, <2>2
<1>3. ASSUME NEW x \in Requests, NEW p \in Projects, CreateProject(x, p)
      PROVE  LastOwnerKept /\ NoDanglingRole
  <2>1. MembershipCommit(x, req[x].actor, p, "owner") /\ projects' = projects \cup {p}
    BY <1>3, CreateProjectCommitted
  <2>2. x = r
    BY <1>1, <2>1 DEF MembershipCommit
  <2>3. req[x].actor \in active
    BY <1>3, <2>2 DEF TypeInv, Current, CommitsOnFreshChecks, CreateProject
  <2>4. "owner" \in RoleIds /\ LiveRole("owner")
    BY AccessAssumption DEF TypeInv, RoleRows
  <2> QED BY <2>1, <2>3, <2>4, MembershipSafe
<1>4. ASSUME NEW x \in Requests, RestoreSystemRoles(x) PROVE FALSE
  <2>1. x = r
    BY <1>1, <1>4 DEF RestoreSystemRoles
  <2> QED BY <1>4, <2>1 DEF RestoreSystemRoles, CommitsOnFreshChecks
<1>5. ASSUME NEW x \in Requests, \E q : Private(x, q) PROVE UNCHANGED Tables
  BY <1>5 DEF Private
<1>6. CASE Tick \/ UNCHANGED vars
  BY <1>0, <1>6 DEF Tick, vars, Tables
<1>7. ASSUME NEW x \in Requests, Begin(x) \/ Authorise(x) \/ Check(x) \/ Evict(x)
      PROVE  LastOwnerKept /\ NoDanglingRole
  BY <1>0, <1>3, <1>4, <1>5, <1>7, BeginPrivate, AuthorisePrivate, CheckPrivate, EvictPrivate DEF Begin
<1> QED BY <1>2, <1>6, <1>7 DEF Next

\* A commit whose checks nothing has overtaken leaves no project without an active owner
\* and no membership pointing at a deleted role: services/membership.py, services/role.py,
\* services/project.py and services/user.py, whatever the other requests are doing.
THEOREM ChecksHold == Spec => CurrentChecksHold
<1>1. TypeInv /\ [Next]_vars =>
        [\A r \in Requests : CommitsOnFreshChecks(r) => LastOwnerKept /\ NoDanglingRole]_vars
  BY FreshChecksHold
<1>2. Spec => []TypeInv
  BY TypeInit, TypeNext, PTL DEF Spec
<1> QED BY <1>1, <1>2, PTL DEF Spec, CurrentChecksHold
=============================================================================
