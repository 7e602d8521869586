------------------------------ MODULE Sessions ------------------------------
(***************************************************************************)
(* Accounts, refresh tokens, password-reset links and the per-address      *)
(* login budget: everything that decides who is signed in.                 *)
(*                                                                         *)
(* A request reads, works (bcrypt takes a good part of a second) and then  *)
(* commits, so most handlers are two steps with the values read carried in *)
(* between.  PostgreSQL runs at READ COMMITTED: a bulk UPDATE reaches the  *)
(* rows committed before it, never one another transaction is about to     *)
(* insert.  The ORM writes only the columns a request changed from what it *)
(* had loaded.  Only the reset link is read with FOR UPDATE.               *)
(*                                                                         *)
(* A client is a browser with one cookie jar; its tabs may have several    *)
(* requests out, and a response may be lost on its way back.  The per-IP   *)
(* limits can refuse a request before it changes anything and are left     *)
(* out, as are device labels and the audit rows, which nothing reads back. *)
(***************************************************************************)
EXTENDS Naturals, FiniteSets

CONSTANTS
    Users,       \* account ids
    Emails,      \* addresses
    Clients,     \* browsers
    Requests,    \* requests the API can have in flight
    Passwords,   \* what may be typed as a password
    Weak,        \* the passwords the policy refuses
    Temporary,   \* the password an administrator hands out
    Tokens,      \* refresh-token ids, each used once
    Links,       \* password-reset ids, each used once
    TTL,         \* refresh_token_ttl_days, in ticks
    Grace,       \* refresh_rotation_grace_seconds, in ticks
    LinkTTL,     \* password_reset_token_ttl_minutes, in ticks
    DeadGrace,   \* DEAD_TOKEN_GRACE, in ticks
    Window,      \* window_seconds of the login budget, in ticks
    LoginLimit,  \* login_rate_per_hour_email
    CostRaised,  \* whether bcrypt_cost was raised since the stored hashes were written
    MaxClock,    \* bound: ticks
    MaxOps,      \* bound: requests begun
    MaxOutages,  \* bound: Redis commands that fail
    None         \* SQL NULL

ASSUME SessionsAssumption ==
    /\ TTL \in Nat \ {0} /\ Grace \in Nat /\ LinkTTL \in Nat \ {0} /\ DeadGrace \in Nat
    /\ Window \in Nat \ {0} /\ LoginLimit \in Nat \ {0}
    /\ MaxClock \in Nat /\ MaxOps \in Nat /\ MaxOutages \in Nat
    /\ CostRaised \in BOOLEAN /\ IsFiniteSet(Requests)
    /\ Weak \subseteq Passwords /\ Temporary \in Passwords \ Weak
    /\ None \notin Users \cup Tokens \cup Links \cup Requests \cup Emails \cup Nat

VARIABLES
    clock,    \* the database's and the API hosts' common time
    users,    \* account id -> users row
    tokens,   \* token id -> refresh_tokens row
    links,    \* reset id -> password_reset_tokens row
    lock,     \* reset id -> the transaction holding its row lock
    fails,    \* address -> the Redis counter of failed logins
    cookie,   \* client -> the refresh token in its jar
    req,      \* request -> the handler it is in and what it has read
    budget    \* what is left of each bound

vars == <<clock, users, tokens, links, lock, fails, cookie, req, budget>>

-----------------------------------------------------------------------------
User ==
    [state : {"absent", "live", "deleted"}, email : Emails \cup {None},
     admin : BOOLEAN, must : BOOLEAN, pw : Passwords \cup {None}]

RefreshToken ==
    [state : {"unissued", "stored", "pruned"}, user : Users \cup {None},
     family : Tokens \cup {None}, expires : Nat, used : Nat \cup {None},
     revoked : BOOLEAN]

PasswordResetToken ==
    [state : {"unissued", "stored", "pruned"}, user : Users \cup {None},
     expires : Nat, used : Nat \cup {None}, revoked : BOOLEAN,
     mail : {"pending", "sent", "failed"}]

Handler ==
    [op : {"idle", "login", "badlogin", "reused", "orphan", "sibling", "rotate", "change",
           "request", "confirm", "reset", "admin", "deactivate", "create"},
     client : Clients \cup {None}, user : Users \cup {None}, id : Tokens \cup Links \cup {None},
     pw : Passwords \cup {None}, email : Emails \cup {None},
     seen : BOOLEAN,                       \* the flag column as it was loaded
     family : Tokens \cup {None}, expires : Nat]

Budget == [ops : Nat, outages : Nat]

TypeOK ==
    /\ clock \in Nat
    /\ users \in [Users -> User]
    /\ tokens \in [Tokens -> RefreshToken]
    /\ links \in [Links -> PasswordResetToken]
    /\ lock \in [Links -> Requests \cup {None}]
    /\ fails \in [Emails -> [window : Nat, count : Nat]]
    /\ cookie \in [Clients -> Tokens \cup {None}]
    /\ req \in [Requests -> Handler]
    /\ budget \in Budget

Idle == [op |-> "idle", client |-> None, user |-> None, id |-> None, pw |-> None,
         email |-> None, seen |-> FALSE, family |-> None, expires |-> 0]

-----------------------------------------------------------------------------
\* Accounts, tokens and links as the repositories select them.

Live(u) == users[u].state = "live"
GetByEmail(e) == {u \in Users : Live(u) /\ users[u].email = e}
ActiveAdmins(excluding) == {u \in Users : Live(u) /\ users[u].admin /\ u # excluding}

Stored(t) == tokens[t].state = "stored"
Expired(t) == tokens[t].expires <= clock
Head(t) == Stored(t) /\ ~tokens[t].revoked /\ tokens[t].used = None /\ ~Expired(t)
Family(f) == {t \in Tokens : Stored(t) /\ tokens[t].family = f}

\* A session is listed, and its event stream stays open, while its chain has a head.
FamilyIsLive(f) == \E t \in Family(f) : Head(t)

Usable(i) ==
    /\ links[i].state = "stored" /\ links[i].used = None /\ ~links[i].revoked
    /\ links[i].expires > clock

RevokeFamily(f) ==
    [t \in Tokens |-> IF t \in Family(f) THEN [tokens[t] EXCEPT !.revoked = TRUE]
                                         ELSE tokens[t]]

RevokeAll(u, except) ==
    [t \in Tokens |-> IF Stored(t) /\ tokens[t].user = u /\ tokens[t].family # except
                      THEN [tokens[t] EXCEPT !.revoked = TRUE] ELSE tokens[t]]

MarkUsed(table, t) == [table EXCEPT ![t].used = clock]

\* A new row; the first token of a chain names the family.
CreateToken(table, t, u, f, expires) ==
    [table EXCEPT ![t] = [state |-> "stored", user |-> u, family |-> f,
                          expires |-> expires, used |-> None, revoked |-> FALSE]]

Fresh == {t \in Tokens : tokens[t].state = "unissued"}
NextToken == CHOOSE t \in Fresh : TRUE

\* Mutant: a rotation starts a family of its own.
IssueNewFamily(table, u, parent, expires) ==
    CreateToken(table, NextToken, u, NextToken, expires)

\* _issue: with no parent a new family; with one the parent's.
Issue(table, u, parent, expires) ==
    LET t == NextToken IN
    CreateToken(table, t, u, IF parent = None THEN t ELSE parent, expires)

CheckPassword(p) == p \notin Weak

-----------------------------------------------------------------------------
\* Redis: one counter per address and window.  A command that fails is let pass.

CurrentWindow == clock \div Window
Outage == budget.outages > 0
Count(e) == IF fails[e].window = CurrentWindow THEN fails[e].count ELSE 0
Hit(e) == [fails EXCEPT ![e] = [window |-> CurrentWindow, count |-> Count(e) + 1]]
ResetCount(e) == [fails EXCEPT ![e] = [window |-> CurrentWindow, count |-> 0]]

\* Mutant: the check lets one attempt too many through.
CheckEmailAtLimit(e, up) == (IF up THEN Count(e) ELSE 0) <= LoginLimit

\* get_count answers 0 when Redis cannot.
CheckEmail(e, up) == (IF up THEN Count(e) ELSE 0) < LoginLimit

Begun(n) == [budget EXCEPT !.ops = @ - 1, !.outages = @ - n]
Lost(n) == [budget EXCEPT !.outages = @ - n]
Slip(up) == IF up THEN 0 ELSE 1

-----------------------------------------------------------------------------
\* The request's identity: the bearer token names an account that is still live.
Authenticated(u) == Live(u)

\* Outside /auth an account that must change its password gets no further.
Gated(u) == Live(u) /\ ~users[u].must

RequireAdmin(a) == Gated(a) /\ users[a].admin

Begin(r, h) == req[r].op = "idle" /\ budget.ops > 0 /\ req' = [req EXCEPT ![r] = h]
End(r) == req' = [req EXCEPT ![r] = Idle]

\* The response's cookie reaches the client's jar, or the response is lost.
Respond(c, value) == cookie' = [cookie EXCEPT ![c] = value] \/ cookie' = cookie

-----------------------------------------------------------------------------
\* POST /auth/login

LoginRead(r, c, e, p) ==
    \E up \in {TRUE} \cup {~Outage} :
    /\ CheckEmail(e, up)
    /\ LET found == {u \in GetByEmail(e) : users[u].pw = p} IN
       IF found = {}
       THEN Begin(r, [Idle EXCEPT !.op = "badlogin", !.email = e])
       ELSE \E u \in found :
              Begin(r, [Idle EXCEPT !.op = "login", !.client = c, !.user = u, !.pw = p,
                                    !.email = e])
    /\ budget' = Begun(Slip(up))
    /\ UNCHANGED <<clock, users, tokens, links, lock, fails, cookie>>

\* A failure is counted, never refused for being one too many.
RecordFailure(r) ==
    \E up \in {TRUE} \cup {~Outage} :
    /\ req[r].op = "badlogin"
    /\ fails' = IF up THEN Hit(req[r].email) ELSE fails
    /\ budget' = Lost(Slip(up))
    /\ End(r)
    /\ UNCHANGED <<clock, users, tokens, links, lock, cookie>>

\* A hash written at a lower cost is rewritten from the password just typed.
LoginCommit(r) ==
    \E up \in {TRUE} \cup {~Outage} :
    LET h == req[r] IN
    /\ h.op = "login" /\ Fresh # {}
    /\ tokens' = Issue(tokens, h.user, None, clock + TTL)
    /\ users' = IF CostRaised THEN [users EXCEPT ![h.user].pw = h.pw] ELSE users
    /\ fails' = IF up THEN ResetCount(h.email) ELSE fails
    /\ budget' = Lost(Slip(up))
    /\ Respond(h.client, NextToken)
    /\ End(r)
    /\ UNCHANGED <<clock, links, lock>>

-----------------------------------------------------------------------------
\* POST /auth/refresh

\* Mutant: only the spent mark is looked at, not the revocation.
VerdictWithoutRevocation(t) ==
    IF tokens[t].used = None
    THEN IF Live(tokens[t].user) THEN "rotate" ELSE "orphan"
    ELSE IF clock - tokens[t].used > Grace THEN "reused"
         ELSE IF Live(tokens[t].user) THEN "sibling" ELSE "orphan"

\* What the presented token's row decides.  An unknown or an expired token is refused
\* with nothing written.
Verdict(t) ==
    IF tokens[t].revoked THEN "reused"
    ELSE IF tokens[t].used = None
         THEN IF Live(tokens[t].user) THEN "rotate" ELSE "orphan"
         ELSE IF clock - tokens[t].used > Grace THEN "reused"
              ELSE IF Live(tokens[t].user) THEN "sibling" ELSE "orphan"

RefreshRead(r, c) ==
    LET t == cookie[c] IN
    /\ t # None
    /\ Stored(t) /\ ~Expired(t)
    /\ Begin(r, [Idle EXCEPT !.op = Verdict(t), !.client = c, !.user = tokens[t].user,
                             !.id = t, !.family = tokens[t].family,
                             !.expires = tokens[t].expires])
    /\ budget' = Begun(0)
    /\ UNCHANGED <<clock, users, tokens, links, lock, fails, cookie>>

\* A replay ends the family and clears the cookie; a deactivated account ends the family.
RefreshRefuse(r) ==
    LET h == req[r] IN
    /\ h.op \in {"reused", "orphan"}
    /\ tokens' = RevokeFamily(h.family)
    /\ IF h.op = "reused" THEN Respond(h.client, None) ELSE cookie' = cookie
    /\ End(r)
    /\ UNCHANGED <<clock, users, links, lock, fails, budget>>

\* Two tabs raced: a second successor, no longer lived than the token presented.
RefreshSibling(r) ==
    LET h == req[r] IN
    /\ h.op = "sibling" /\ Fresh # {}
    /\ tokens' = Issue(tokens, h.user, h.family, h.expires)
    /\ Respond(h.client, NextToken)
    /\ End(r)
    /\ UNCHANGED <<clock, users, links, lock, fails, budget>>

\* The presented token is spent and its successor stored in one transaction.  If the
\* row was pruned meanwhile the UPDATE finds nothing and the request fails.
RefreshRotate(r) ==
    LET h == req[r] IN
    /\ h.op = "rotate" /\ Fresh # {}
    /\ IF Stored(h.id)
       THEN /\ tokens' = Issue(MarkUsed(tokens, h.id), h.user, h.family, clock + TTL)
            /\ Respond(h.client, NextToken)
       ELSE UNCHANGED <<tokens, cookie>>
    /\ End(r)
    /\ UNCHANGED <<clock, users, links, lock, fails, budget>>

-----------------------------------------------------------------------------
\* Signing out.

Logout(c) ==
    LET t == cookie[c] IN
    /\ budget.ops > 0 /\ t # None
    /\ tokens' = IF Stored(t) THEN [tokens EXCEPT ![t].revoked = TRUE] ELSE tokens
    /\ Respond(c, None)
    /\ budget' = Begun(0)
    /\ UNCHANGED <<clock, users, links, lock, fails, req>>

LogoutAll(c, u) ==
    /\ budget.ops > 0 /\ Authenticated(u)
    /\ tokens' = RevokeAll(u, None)
    /\ Respond(c, None)
    /\ budget' = Begun(0)
    /\ UNCHANGED <<clock, users, links, lock, fails, req>>

\* DELETE /me/sessions/{id}: only a family of the caller's own.
RevokeSession(u, f) ==
    /\ budget.ops > 0 /\ Gated(u)
    /\ \E t \in Family(f) : tokens[t].user = u
    /\ tokens' = RevokeFamily(f)
    /\ budget' = Begun(0)
    /\ UNCHANGED <<clock, users, links, lock, fails, cookie, req>>

-----------------------------------------------------------------------------
\* POST /auth/change-password.  The caller's access token names the family spared.

ChangeRead(r, u, p, f) ==
    /\ Authenticated(u) /\ CheckPassword(p)
    /\ f \in {None} \cup {tokens[t].family : t \in {x \in Tokens : tokens[x].user = u}}
    /\ Begin(r, [Idle EXCEPT !.op = "change", !.user = u, !.pw = p, !.family = f,
                             !.seen = users[u].must])
    /\ budget' = Begun(0)
    /\ UNCHANGED <<clock, users, tokens, links, lock, fails, cookie>>

\* must_change_password is written only when it was loaded as true.
Chosen(row, h) == [row EXCEPT !.pw = h.pw, !.must = IF h.seen THEN FALSE ELSE @]

ChangeCommit(r) ==
    LET h == req[r] IN
    /\ h.op = "change"
    /\ users' = [users EXCEPT ![h.user] = Chosen(@, h)]
    /\ tokens' = RevokeAll(h.user, h.family)
    /\ End(r)
    /\ UNCHANGED <<clock, links, lock, fails, cookie, budget>>

-----------------------------------------------------------------------------
\* Self-service password reset.

\* revoke_live_for_user: the rows it updates stay locked until the commit, and it waits
\* for rows another transaction has locked.
ResetRequest(r, e) ==
    \E u \in GetByEmail(e) :
    LET older == {i \in Links : Usable(i) /\ links[i].user = u} IN
    /\ \A i \in older : lock[i] = None
    /\ lock' = [i \in Links |-> IF i \in older THEN r ELSE lock[i]]
    /\ Begin(r, [Idle EXCEPT !.op = "request", !.user = u])
    /\ budget' = Begun(0)
    /\ UNCHANGED <<clock, users, tokens, links, fails, cookie>>

Release(r) == lock' = [i \in Links |-> IF lock[i] = r THEN None ELSE lock[i]]

ResetRequestCommit(r) ==
    LET h == req[r] IN
    /\ h.op = "request"
    /\ \E n \in {i \in Links : links[i].state = "unissued"} :
         links' = [i \in Links |->
                     IF i = n THEN [state |-> "stored", user |-> h.user, used |-> None,
                                    expires |-> clock + LinkTTL, revoked |-> FALSE,
                                    mail |-> "pending"]
                     ELSE IF lock[i] = r THEN [links[i] EXCEPT !.revoked = TRUE]
                     ELSE links[i]]
    /\ Release(r) /\ End(r)
    /\ UNCHANGED <<clock, users, tokens, fails, cookie, budget>>

\* One send after the response, never retried.
DeliverPasswordReset(i) ==
    /\ links[i].state = "stored" /\ links[i].mail = "pending"
    /\ \E outcome \in {"sent", "failed"} : links' = [links EXCEPT ![i].mail = outcome]
    /\ UNCHANGED <<clock, users, tokens, lock, fails, cookie, req, budget>>

\* Mutant: the link is read without its row lock.
ConfirmReadUnlocked(r, i, p) ==
    /\ links[i].mail = "sent" /\ Usable(i)
    /\ Live(links[i].user) /\ CheckPassword(p)
    /\ Begin(r, [Idle EXCEPT !.op = "confirm", !.user = links[i].user, !.id = i, !.pw = p,
                             !.seen = users[links[i].user].must])
    /\ budget' = Begun(0)
    /\ UNCHANGED <<clock, users, tokens, links, lock, fails, cookie>>

\* get_usable_by_hash ... FOR UPDATE
ConfirmRead(r, i, p) ==
    /\ links[i].mail = "sent" /\ Usable(i) /\ lock[i] = None
    /\ Live(links[i].user) /\ CheckPassword(p)
    /\ lock' = [lock EXCEPT ![i] = r]
    /\ Begin(r, [Idle EXCEPT !.op = "confirm", !.user = links[i].user, !.id = i, !.pw = p,
                             !.seen = users[links[i].user].must])
    /\ budget' = Begun(0)
    /\ UNCHANGED <<clock, users, tokens, links, fails, cookie>>

ConfirmCommit(r) ==
    LET h == req[r] IN
    /\ h.op = "confirm"
    /\ users' = [users EXCEPT ![h.user] = Chosen(@, h)]
    /\ links' = [links EXCEPT ![h.id].used = clock]
    /\ tokens' = RevokeAll(h.user, None)
    /\ Release(r) /\ End(r)
    /\ UNCHANGED <<clock, fails, cookie, budget>>

-----------------------------------------------------------------------------
\* Accounts, managed by an administrator.

\* reset_password: a temporary password, to be changed at the next login.
AdminResetRead(r, a, u) ==
    /\ RequireAdmin(a) /\ Live(u)
    /\ Begin(r, [Idle EXCEPT !.op = "reset", !.user = u, !.seen = users[u].must])
    /\ budget' = Begun(0)
    /\ UNCHANGED <<clock, users, tokens, links, lock, fails, cookie>>

AdminResetCommit(r) ==
    LET h == req[r] IN
    /\ h.op = "reset"
    /\ users' = [users EXCEPT ![h.user].pw = Temporary,
                              ![h.user].must = IF h.seen THEN @ ELSE TRUE]
    /\ tokens' = RevokeAll(h.user, None)
    /\ End(r)
    /\ UNCHANGED <<clock, links, lock, fails, cookie, budget>>

\* _guard_last_admin, as it stood when it was read.
GuardLastAdmin(u) == ~users[u].admin \/ ActiveAdmins(u) # {}

\* PATCH isAdmin; a flag equal to the loaded one is not written.
UpdateRead(r, a, u, flag) ==
    /\ RequireAdmin(a) /\ Live(u) /\ users[u].admin # flag
    /\ flag \/ GuardLastAdmin(u)
    /\ Begin(r, [Idle EXCEPT !.op = "admin", !.user = u, !.seen = flag])
    /\ budget' = Begun(0)
    /\ UNCHANGED <<clock, users, tokens, links, lock, fails, cookie>>

UpdateCommit(r) ==
    LET h == req[r] IN
    /\ h.op = "admin"
    /\ users' = [users EXCEPT ![h.user].admin = h.seen]
    /\ End(r)
    /\ UNCHANGED <<clock, tokens, links, lock, fails, cookie, budget>>

\* The guard on projects left without an owner belongs to Access.
DeactivateRead(r, a, u) ==
    /\ RequireAdmin(a) /\ Live(u) /\ GuardLastAdmin(u)
    /\ Begin(r, [Idle EXCEPT !.op = "deactivate", !.user = u])
    /\ budget' = Begun(0)
    /\ UNCHANGED <<clock, users, tokens, links, lock, fails, cookie>>

DeactivateCommit(r) ==
    LET h == req[r] IN
    /\ h.op = "deactivate"
    /\ users' = [users EXCEPT ![h.user].state = "deleted"]
    /\ tokens' = RevokeAll(h.user, None)
    /\ End(r)
    /\ UNCHANGED <<clock, links, lock, fails, cookie, budget>>

CreateRead(r, a, e) ==
    /\ RequireAdmin(a) /\ GetByEmail(e) = {}
    /\ Begin(r, [Idle EXCEPT !.op = "create", !.email = e])
    /\ budget' = Begun(0)
    /\ UNCHANGED <<clock, users, tokens, links, lock, fails, cookie>>

\* uq_users_email_active: at most one live row per address; the loser is answered 409.
UniqueEmail(e) == GetByEmail(e) = {}

CreateCommit(r) ==
    LET h == req[r] IN
    /\ h.op = "create"
    /\ IF UniqueEmail(h.email)
       THEN \E u \in {x \in Users : users[x].state = "absent"} :
              users' = [users EXCEPT ![u] = [state |-> "live", email |-> h.email,
                          admin |-> FALSE, must |-> TRUE, pw |-> Temporary]]
       ELSE users' = users
    /\ End(r)
    /\ UNCHANGED <<clock, tokens, links, lock, fails, cookie, budget>>

-----------------------------------------------------------------------------
\* The worker's tick.

PruneTokens ==
    LET dead == {t \in Tokens : Stored(t) /\ (tokens[t].expires < clock \/ tokens[t].revoked)} IN
    /\ dead # {}
    /\ tokens' = [t \in Tokens |-> IF t \in dead THEN [tokens[t] EXCEPT !.state = "pruned"]
                                                 ELSE tokens[t]]
    /\ UNCHANGED <<clock, users, links, lock, fails, cookie, req, budget>>

PruneLinks ==
    LET Old(x) == x + DeadGrace < clock
        dead == {i \in Links : /\ links[i].state = "stored" /\ lock[i] = None
                               /\ \/ Old(links[i].expires)
                                  \/ links[i].used # None /\ Old(links[i].used)} IN
    /\ dead # {}
    /\ links' = [i \in Links |-> IF i \in dead THEN [links[i] EXCEPT !.state = "pruned"]
                                               ELSE links[i]]
    /\ UNCHANGED <<clock, users, tokens, lock, fails, cookie, req, budget>>

Tick ==
    /\ clock < MaxClock
    /\ clock' = clock + 1
    /\ UNCHANGED <<users, tokens, links, lock, fails, cookie, req, budget>>

-----------------------------------------------------------------------------
\* seed-admins has run: one administrator, with the password they have since chosen.
Init ==
    /\ clock = 0
    /\ \E u \in Users, e \in Emails, p \in Passwords \ (Weak \cup {Temporary}) :
         users = [x \in Users |->
                    IF x = u THEN [state |-> "live", email |-> e, admin |-> TRUE,
                                   must |-> FALSE, pw |-> p]
                    ELSE [state |-> "absent", email |-> None, admin |-> FALSE,
                          must |-> FALSE, pw |-> None]]
    /\ tokens = [t \in Tokens |-> [state |-> "unissued", user |-> None, family |-> None,
                                   expires |-> 0, used |-> None, revoked |-> FALSE]]
    /\ links = [i \in Links |-> [state |-> "unissued", user |-> None, expires |-> 0,
                                 used |-> None, revoked |-> FALSE, mail |-> "pending"]]
    /\ lock = [i \in Links |-> None]
    /\ fails = [e \in Emails |-> [window |-> 0, count |-> 0]]
    /\ cookie = [c \in Clients |-> None]
    /\ req = [r \in Requests |-> Idle]
    /\ budget = [ops |-> MaxOps, outages |-> MaxOutages]

AuthRead(r) ==
    \/ \E c \in Clients, e \in Emails, p \in Passwords : LoginRead(r, c, e, p)
    \/ \E c \in Clients : RefreshRead(r, c)
    \/ \E u \in Users, p \in Passwords, f \in Tokens \cup {None} : ChangeRead(r, u, p, f)
    \/ \E e \in Emails : ResetRequest(r, e)
    \/ \E i \in Links, p \in Passwords : ConfirmRead(r, i, p)

AdminRead(r) ==
    \E a \in Users :
        \/ \E u \in Users : AdminResetRead(r, a, u) \/ DeactivateRead(r, a, u)
        \/ \E u \in Users, flag \in BOOLEAN : UpdateRead(r, a, u, flag)
        \/ \E e \in Emails : CreateRead(r, a, e)

Commit(r) ==
    \/ RecordFailure(r) \/ LoginCommit(r)
    \/ RefreshRefuse(r) \/ RefreshSibling(r) \/ RefreshRotate(r)
    \/ ChangeCommit(r) \/ ResetRequestCommit(r) \/ ConfirmCommit(r)
    \/ AdminResetCommit(r) \/ UpdateCommit(r) \/ DeactivateCommit(r) \/ CreateCommit(r)

SignOut ==
    \/ \E c \in Clients : Logout(c)
    \/ \E c \in Clients, u \in Users : LogoutAll(c, u)
    \/ \E u \in Users, f \in Tokens : RevokeSession(u, f)

Next ==
    \/ \E r \in Requests : AuthRead(r) \/ AdminRead(r) \/ Commit(r)
    \/ SignOut
    \/ \E i \in Links : DeliverPasswordReset(i)
    \/ PruneTokens \/ PruneLinks
    \/ Tick

Spec == Init /\ [][Next]_vars

-----------------------------------------------------------------------------
\* A token that a refresh would still exchange: an unspent one, or a spent one inside
\* the grace window.
Exchangeable(t) ==
    /\ Stored(t) /\ ~Expired(t) /\ ~tokens[t].revoked
    /\ tokens[t].used = None \/ clock - tokens[t].used <= Grace

Dead(f) ==
    /\ \A t \in Family(f) : ~Exchangeable(t)
    /\ \A r \in Requests : ~(req[r].op \in {"rotate", "sibling"} /\ req[r].family = f)

\* A session that has ended - signed out, revoked, expired, or killed by a replay - and
\* that no refresh already under way belongs to never comes back: auth.py refresh may
\* not exchange a revoked, an expired or a long-spent token by any path.
EndedStaysEnded ==
    [][\A f \in Tokens : tokens[f].state # "unissued" /\ Dead(f) => Dead(f)']_vars

\* Rotation and the worker's pruning never sign anybody out: a session listed as live
\* stops being live only when one of its tokens is revoked or time passes.
OnlyRevocationSignsOut ==
    [][\A f \in Tokens : FamilyIsLive(f) /\ ~FamilyIsLive(f)' =>
         \/ \E t \in Family(f) : ~tokens[t].revoked /\ tokens'[t].revoked
         \/ clock' # clock]_vars

\* A reset link sets a password at most once, however many confirms race for it, and
\* never after a newer request superseded it: what the row lock taken by
\* get_usable_by_hash is for.
LinkSpentOnce ==
    [][\A i \in Links : links'[i].used # links[i].used =>
         links[i].used = None /\ ~links[i].revoked]_vars

\* The failed-login counter passes its limit by no more than the attempts that were
\* already past the check, plus one for every Redis command that failed; and every state
\* is well typed.
LoginBudget ==
    /\ TypeOK
    /\ \A e \in Emails :
        Count(e) <= LoginLimit + Cardinality(Requests) - 1 + (MaxOutages - budget.outages)
=============================================================================
