--------------------------- MODULE SessionsProofs ---------------------------
(***************************************************************************)
(* Proofs about Sessions: who is signed in, for any number of accounts,    *)
(* browsers, requests in flight, tokens and reset links.                   *)
(***************************************************************************)
EXTENDS Sessions, FiniteSetTheorems, TLAPS

-----------------------------------------------------------------------------
(* The inductive invariant *)

Refreshing == {"reused", "orphan", "sibling", "rotate"}

\* What a handler carries from its read to its commit.
Carries(h) ==
    /\ h \in Handler
    /\ h.op = "login" => /\ h.client \in Clients /\ h.user \in Users
                         /\ h.pw \in Passwords /\ h.email \in Emails
    /\ h.op \in {"badlogin", "create"} => h.email \in Emails
    /\ h.op \in Refreshing => /\ h.client \in Clients /\ h.user \in Users
                              /\ h.id \in Tokens /\ h.family \in Tokens
    /\ h.op \in {"change", "confirm"} => h.user \in Users /\ h.pw \in Passwords
    /\ h.op \in {"request", "reset", "admin", "deactivate"} => h.user \in Users
    /\ h.op = "confirm" => h.id \in Links

\* An issued token belongs to an account and a family.
TokenRows ==
    \A t \in Tokens : tokens[t].state # "unissued" =>
        tokens[t].user \in Users /\ tokens[t].family \in Tokens

LinkRows ==
    \A i \in Links : IF links[i].state = "unissued" THEN links[i].used = None
                     ELSE links[i].user \in Users

\* A refresh under way names the family of the token it was shown.
RefreshReq ==
    \A r \in Requests : req[r].op \in Refreshing =>
        tokens[req[r].id].state # "unissued" /\ tokens[req[r].id].family = req[r].family

\* A confirm under way holds the lock of a link that is neither spent nor superseded.
ConfirmReq ==
    \A r \in Requests : req[r].op = "confirm" =>
        LET i == req[r].id IN
        /\ lock[i] = r /\ links[i].state # "unissued"
        /\ links[i].used = None /\ ~links[i].revoked

TypeInv == TypeOK /\ (\A r \in Requests : Carries(req[r])) /\ TokenRows /\ LinkRows

-----------------------------------------------------------------------------
(* Budgets and counters *)

LEMMA SlipBound ==
    ASSUME TypeOK, NEW up \in {TRUE} \cup {~Outage}
    PROVE  /\ Slip(up) \in {0, 1} /\ Slip(up) <= budget.outages /\ up \in BOOLEAN
           /\ up <=> Slip(up) = 0
<1>1. budget.outages \in Nat
  BY DEF TypeOK, Budget
<1>4. up \in BOOLEAN
  BY DEF Outage
<1>2. CASE up
  BY <1>1, <1>2 DEF Slip
<1>3. CASE ~up
  <2>1. Outage
    BY <1>3
  <2>2. Slip(up) = 1
    BY <1>3 DEF Slip
  <2>3. 1 <= budget.outages
    BY <1>1, <2>1 DEF Outage
  <2> QED BY <1>3, <1>4, <2>2, <2>3
<1> QED BY <1>2, <1>3, <1>4

LEMMA BudgetStep ==
    ASSUME TypeOK, NEW n \in {0, 1}, n <= budget.outages
    PROVE  /\ Lost(n) \in Budget /\ Lost(n).outages = budget.outages - n
           /\ budget.ops > 0 => Begun(n) \in Budget /\ Begun(n).outages = budget.outages - n
<1>1. budget \in Budget /\ budget.outages - n \in Nat /\ budget.ops \in Nat
  BY DEF TypeOK, Budget
<1>2. Lost(n) \in Budget /\ Lost(n).outages = budget.outages - n
  BY <1>1, Zenon DEF Lost, Budget
<1>3. ASSUME budget.ops > 0 PROVE budget.ops - 1 \in Nat
  BY <1>1, <1>3
<1>4. ASSUME budget.ops > 0
      PROVE  Begun(n) \in Budget /\ Begun(n).outages = budget.outages - n
  BY <1>1, <1>3, <1>4, Zenon DEF Begun, Budget
<1> QED BY <1>2, <1>4

LEMMA DivMonotone ==
    ASSUME NEW n \in Nat, NEW w \in Nat \ {0}
    PROVE  n \div w \in Nat /\ n \div w <= (n + 1) \div w
  OBVIOUS

LEMMA CounterStep ==
    ASSUME TypeOK, NEW e \in Emails
    PROVE  /\ CurrentWindow \in Nat /\ Count(e) \in Nat
           /\ Hit(e) \in [Emails -> [window : Nat, count : Nat]]
           /\ ResetCount(e) \in [Emails -> [window : Nat, count : Nat]]
<1>1. CurrentWindow \in Nat
  BY DivMonotone, SessionsAssumption DEF TypeOK, CurrentWindow
<1>2. Count(e) \in Nat
  BY DEF TypeOK, Count
<1> QED BY <1>1, <1>2 DEF TypeOK, Hit, ResetCount

-----------------------------------------------------------------------------
(* Requests: a step begins one, ends one or leaves them all alone *)

\* What a request that is beginning knows of the token or the link it was shown.
Informed(r, h) ==
    /\ Carries(h) /\ h.op # "idle"
    /\ h.op \in Refreshing => Stored(h.id) /\ tokens[h.id].family = h.family
    /\ h.op \in {"rotate", "sibling"} => Exchangeable(h.id)
    /\ h.op = "confirm" => Usable(h.id) /\ lock[h.id] = None /\ lock'[h.id] = r

LEMMA IdleCarries == Carries(Idle)
  BY DEF Carries, Idle, Handler, Refreshing

Begins(r) == \E h : Begin(r, h) /\ Informed(r, h)

\* Every read of a request leaves it with what it may rely on at its commit.
LEMMA ReadsInformed ==
    ASSUME TypeInv, NEW r \in Requests, AuthRead(r) \/ AdminRead(r)
    PROVE  Begins(r)
<1>T. /\ TypeOK /\ TokenRows /\ LinkRows /\ \A u \in Users : users[u].must \in BOOLEAN
  BY DEF TypeInv, TypeOK, User
<1>1. ASSUME NEW c \in Clients, NEW e \in Emails, NEW p \in Passwords, LoginRead(r, c, e, p)
      PROVE  Begins(r)
  <2> DEFINE b == [Idle EXCEPT !.op = "badlogin", !.email = e]
             h(u) == [Idle EXCEPT !.op = "login", !.client = c, !.user = u, !.pw = p, !.email = e]
  <2>1. Begin(r, b) \/ \E u \in Users : Begin(r, h(u))
    BY <1>1 DEF LoginRead, GetByEmail
  <2>2. Informed(r, b) /\ \A u \in Users : Informed(r, h(u))
    <3>1. Carries(b) /\ b.op = "badlogin"
      BY DEF Carries, Idle, Handler, Refreshing
    <3>2. \A u \in Users : Carries(h(u)) /\ h(u).op = "login"
      BY DEF Carries, Idle, Handler, Refreshing
    <3> HIDE DEF b, h
    <3> QED BY <3>1, <3>2 DEF Informed, Refreshing
  <2> HIDE DEF b, h
  <2> QED BY <2>1, <2>2 DEF Begins
<1>2. ASSUME NEW c \in Clients, RefreshRead(r, c) PROVE Begins(r)
  <2>1. PICK t \in Tokens : t = cookie[c] /\ Stored(t) /\ ~Expired(t)
    BY <1>2, <1>T DEF RefreshRead, TypeOK
  <2> DEFINE h == [Idle EXCEPT !.op = Verdict(t), !.client = c, !.user = tokens[t].user,
                             !.id = t, !.family = tokens[t].family,
                             !.expires = tokens[t].expires]
  <2>2. Begin(r, h)
    BY <1>2, <2>1 DEF RefreshRead
  <2>3. /\ tokens[t].user \in Users /\ tokens[t].family \in Tokens /\ tokens[t].expires \in Nat
        /\ tokens[t].used \in Nat \cup {None} /\ clock \in Nat
    BY <1>T, <2>1 DEF TokenRows, Stored, TypeOK, RefreshToken
  <2>4. Verdict(t) \in Refreshing
        /\ (Verdict(t) \in {"rotate", "sibling"} => Exchangeable(t))
    BY <2>1, <2>3, SessionsAssumption DEF Verdict, Refreshing, Exchangeable
  <2>5. Carries(h) /\ h.op = Verdict(t) /\ h.id = t /\ h.family = tokens[t].family
    BY <2>3, <2>4 DEF Carries, Idle, Handler, Refreshing
  <2> HIDE DEF h
  <2>6. Informed(r, h)
    BY <2>1, <2>4, <2>5 DEF Informed, Refreshing
  <2> QED BY <2>2, <2>6 DEF Begins
<1>3. ASSUME NEW u \in Users, NEW p \in Passwords, NEW f \in Tokens \cup {None}, ChangeRead(r, u, p, f)
      PROVE  Begins(r)
  <2> DEFINE h == [Idle EXCEPT !.op = "change", !.user = u, !.pw = p, !.family = f,
                             !.seen = users[u].must]
  <2>1. Begin(r, h)
    BY <1>3 DEF ChangeRead
  <2>2. Carries(h) /\ h.op = "change"
    BY <1>T DEF Carries, Idle, Handler, Refreshing
  <2> HIDE DEF h
  <2> QED BY <2>1, <2>2 DEF Begins, Informed, Refreshing
<1>4. ASSUME NEW e \in Emails, ResetRequest(r, e) PROVE Begins(r)
  <2>1. PICK u \in Users : Begin(r, [Idle EXCEPT !.op = "request", !.user = u])
    BY <1>4 DEF ResetRequest, GetByEmail
  <2> DEFINE h == [Idle EXCEPT !.op = "request", !.user = u]
  <2>2. Begin(r, h) /\ Carries(h) /\ h.op = "request"
    BY <2>1 DEF Carries, Idle, Handler, Refreshing
  <2> HIDE DEF h
  <2> QED BY <2>2 DEF Begins, Informed, Refreshing
<1>5. ASSUME NEW i \in Links, NEW p \in Passwords, ConfirmRead(r, i, p) PROVE Begins(r)
  <2> DEFINE h == [Idle EXCEPT !.op = "confirm", !.user = links[i].user, !.id = i, !.pw = p,
                             !.seen = users[links[i].user].must]
  <2>1. Begin(r, h) /\ Usable(i) /\ lock[i] = None /\ lock'[i] = r
    BY <1>5, <1>T DEF ConfirmRead, TypeOK
  <2>2. links[i].user \in Users
    BY <1>T, <2>1 DEF LinkRows, Usable
  <2>3. Carries(h) /\ h.op = "confirm" /\ h.id = i
    BY <1>T, <2>2 DEF Carries, Idle, Handler, Refreshing
  <2> HIDE DEF h
  <2> QED BY <2>1, <2>3 DEF Begins, Informed, Refreshing
<1>6. ASSUME NEW a \in Users, NEW u \in Users, AdminResetRead(r, a, u) PROVE Begins(r)
  <2> DEFINE h == [Idle EXCEPT !.op = "reset", !.user = u, !.seen = users[u].must]
  <2>1. Begin(r, h)
    BY <1>6 DEF AdminResetRead
  <2>2. Carries(h) /\ h.op = "reset"
    BY <1>T DEF Carries, Idle, Handler, Refreshing
  <2> HIDE DEF h
  <2> QED BY <2>1, <2>2 DEF Begins, Informed, Refreshing
<1>7. ASSUME NEW a \in Users, NEW u \in Users, DeactivateRead(r, a, u) PROVE Begins(r)
  <2> DEFINE h == [Idle EXCEPT !.op = "deactivate", !.user = u]
  <2>1. Begin(r, h)
    BY <1>7 DEF DeactivateRead
  <2>2. Carries(h) /\ h.op = "deactivate"
    BY <1>T DEF Carries, Idle, Handler, Refreshing
  <2> HIDE DEF h
  <2> QED BY <2>1, <2>2 DEF Begins, Informed, Refreshing
<1>8. ASSUME NEW a \in Users, NEW u \in Users, NEW flag \in BOOLEAN, UpdateRead(r, a, u, flag)
      PROVE  Begins(r)
  <2> DEFINE h == [Idle EXCEPT !.op = "admin", !.user = u, !.seen = flag]
  <2>1. Begin(r, h)
    BY <1>8 DEF UpdateRead
  <2>2. Carries(h) /\ h.op = "admin"
    BY <1>T DEF Carries, Idle, Handler, Refreshing
  <2> HIDE DEF h
  <2> QED BY <2>1, <2>2 DEF Begins, Informed, Refreshing
<1>9. ASSUME NEW a \in Users, NEW e \in Emails, CreateRead(r, a, e) PROVE Begins(r)
  <2> DEFINE h == [Idle EXCEPT !.op = "create", !.email = e]
  <2>1. Begin(r, h)
    BY <1>9 DEF CreateRead
  <2>2. Carries(h) /\ h.op = "create"
    BY DEF Carries, Idle, Handler, Refreshing
  <2> HIDE DEF h
  <2> QED BY <2>1, <2>2 DEF Begins, Informed, Refreshing
<1> QED BY <1>1, <1>2, <1>3, <1>4, <1>5, <1>6, <1>7, <1>8, <1>9 DEF AuthRead, AdminRead

LEMMA CommitsEnd ==
    ASSUME NEW r \in Requests, Commit(r)
    PROVE  End(r) /\ req[r].op # "idle"
  BY DEF Commit, RecordFailure, LoginCommit, RefreshRefuse, RefreshSibling, RefreshRotate,
         ChangeCommit, ResetRequestCommit, ConfirmCommit, AdminResetCommit, UpdateCommit,
         DeactivateCommit, CreateCommit

LEMMA RequestStep ==
    ASSUME TypeInv, [Next]_vars
    PROVE  \/ req' = req
           \/ \E r \in Requests : Begins(r)
           \/ \E r \in Requests : End(r) /\ Commit(r)
<1>1. CASE UNCHANGED vars
  BY <1>1 DEF vars
<1>2. ASSUME NEW r \in Requests, AuthRead(r) \/ AdminRead(r) \/ Commit(r)
      PROVE  Begins(r) \/ (End(r) /\ Commit(r))
  BY <1>2, ReadsInformed, CommitsEnd
<1>3. CASE SignOut \/ (\E i \in Links : DeliverPasswordReset(i)) \/ PruneTokens \/ PruneLinks \/ Tick
  BY <1>3 DEF SignOut, Logout, LogoutAll, RevokeSession, DeliverPasswordReset, PruneTokens,
              PruneLinks, Tick
<1> QED BY <1>1, <1>2, <1>3 DEF Next

LEMMA RequestTypes ==
    ASSUME TypeInv, [Next]_vars
    PROVE  req' \in [Requests -> Handler] /\ \A r \in Requests : Carries(req[r])'
<1>1. /\ req \in [Requests -> Handler] /\ \A r \in Requests : Carries(req[r])
  BY DEF TypeInv, TypeOK
<1>2. CASE req' = req
  BY <1>1, <1>2
<1>3. ASSUME NEW r \in Requests, NEW h, Carries(h), req' = [req EXCEPT ![r] = h]
      PROVE  req' \in [Requests -> Handler] /\ \A x \in Requests : Carries(req'[x])
  BY <1>1, <1>3 DEF Carries
<1>4. ASSUME req' \in [Requests -> Handler] /\ \A x \in Requests : Carries(req'[x])
      PROVE  \A r \in Requests : Carries(req[r])'
  BY <1>4 DEF Carries
<1> QED BY <1>2, <1>3, <1>4, RequestStep, IdleCarries DEF Begins, Begin, Informed, End

-----------------------------------------------------------------------------
(* Tokens: what one step can do to a row *)

\* The transactions that store a token: a login its own family's first, a refresh one
\* more of the family it was shown.
Successor(t, f) ==
    \/ f = t
    \/ \E r \in Requests : req[r].op \in {"rotate", "sibling"} /\ req[r].family = f

NewRow(u, f, x) ==
    [state |-> "stored", user |-> u, family |-> f, expires |-> x, used |-> None, revoked |-> FALSE]

Created(t) ==
    /\ tokens[t].state = "unissued"
    /\ \E u \in Users, f \in Tokens, x \in Nat : Successor(t, f) /\ tokens'[t] = NewRow(u, f, x)

Revoked(t) == Stored(t) /\ tokens'[t] = [tokens[t] EXCEPT !.revoked = TRUE]

Pruned(t) ==
    /\ Stored(t) /\ (tokens[t].expires < clock \/ tokens[t].revoked)
    /\ tokens'[t] = [tokens[t] EXCEPT !.state = "pruned"]

\* A rotation spends the token it was shown and stores a head for its family.
Spent(t) ==
    /\ Stored(t) /\ tokens'[t] = [tokens[t] EXCEPT !.used = clock]
    /\ \E r \in Requests : req[r].op = "rotate" /\ req[r].id = t
    /\ \E n \in Tokens, u \in Users :
         tokens'[n] = NewRow(u, tokens[t].family, clock + TTL) /\ clock' = clock

TokenStep(t) ==
    tokens'[t] = tokens[t] \/ Created(t) \/ Revoked(t) \/ Pruned(t) \/ Spent(t)

LEMMA FreshToken == Fresh # {} => NextToken \in Fresh
  BY DEF NextToken

LEMMA RevokeFamilySteps ==
    ASSUME NEW f, tokens' = RevokeFamily(f), NEW t \in Tokens
    PROVE  TokenStep(t)
  BY DEF RevokeFamily, Family, TokenStep, Revoked

LEMMA RevokeAllSteps ==
    ASSUME NEW u, NEW f, tokens' = RevokeAll(u, f), NEW t \in Tokens
    PROVE  TokenStep(t)
  BY DEF RevokeAll, TokenStep, Revoked

LEMMA IssueSteps ==
    ASSUME TypeInv, NEW u \in Users, NEW f \in Tokens \cup {None}, NEW x \in Nat, Fresh # {},
           tokens' = Issue(tokens, u, f, x), NEW t \in Tokens,
           f # None => \E r \in Requests : req[r].op \in {"rotate", "sibling"} /\ req[r].family = f
    PROVE  TokenStep(t)
<1>1. NextToken \in Tokens /\ tokens[NextToken].state = "unissued" /\ tokens \in [Tokens -> RefreshToken]
  BY FreshToken DEF Fresh, TypeInv, TypeOK
<1> DEFINE n == NextToken
           g == IF f = None THEN n ELSE f
<1>2. tokens' = [tokens EXCEPT ![n] = NewRow(u, g, x)]
  BY DEF Issue, CreateToken, NewRow
<1>3. g \in Tokens /\ Successor(n, g)
  BY <1>1 DEF Successor
<1> HIDE DEF n, g
<1>4. CASE t = n
  BY <1>1, <1>2, <1>3, <1>4 DEF TokenStep, Created, n
<1>5. CASE t # n
  BY <1>1, <1>2, <1>5 DEF TokenStep
<1> QED BY <1>4, <1>5

LEMMA TokenSteps ==
    ASSUME TypeInv, RefreshReq, [Next]_vars
    PROVE  (\A t \in Tokens : TokenStep(t)) /\ tokens' = [t \in Tokens |-> tokens'[t]]
<1>T. /\ TypeOK /\ (\A r \in Requests : Carries(req[r])) /\ TokenRows
      /\ clock \in Nat /\ clock + TTL \in Nat
  BY SessionsAssumption DEF TypeInv, TypeOK
<1>F. tokens \in [Tokens -> RefreshToken]
  BY <1>T DEF TypeOK
<1> USE SessionsAssumption
<1>1. ASSUME NEW r \in Requests, LoginCommit(r)
      PROVE  (\A t \in Tokens : TokenStep(t)) /\ tokens' = [t \in Tokens |-> tokens'[t]]
  <2>1. /\ tokens' = Issue(tokens, req[r].user, None, clock + TTL) /\ Fresh # {}
        /\ req[r].user \in Users
    BY <1>1, <1>T DEF LoginCommit, Carries
  <2>2. tokens' = [t \in Tokens |-> tokens'[t]]
    BY <2>1, <1>F DEF Issue, CreateToken
  <2> QED BY <1>T, <2>1, <2>2, IssueSteps
<1>2. ASSUME NEW r \in Requests, RefreshRefuse(r)
      PROVE  (\A t \in Tokens : TokenStep(t)) /\ tokens' = [t \in Tokens |-> tokens'[t]]
  <2>1. tokens' = RevokeFamily(req[r].family)
    BY <1>2 DEF RefreshRefuse
  <2>2. tokens' = [t \in Tokens |-> tokens'[t]]
    BY <2>1 DEF RevokeFamily
  <2> QED BY <2>1, <2>2, RevokeFamilySteps
<1>3. ASSUME NEW r \in Requests, RefreshSibling(r)
      PROVE  (\A t \in Tokens : TokenStep(t)) /\ tokens' = [t \in Tokens |-> tokens'[t]]
  <2>1. /\ tokens' = Issue(tokens, req[r].user, req[r].family, req[r].expires) /\ Fresh # {}
        /\ req[r].user \in Users /\ req[r].family \in Tokens /\ req[r].expires \in Nat
        /\ req[r].op = "sibling"
    BY <1>3, <1>T DEF RefreshSibling, Carries, Refreshing, Handler
  <2>2. tokens' = [t \in Tokens |-> tokens'[t]]
    BY <2>1, <1>F DEF Issue, CreateToken
  <2> QED BY <2>1, <2>2, IssueSteps
<1>4. ASSUME NEW r \in Requests, RefreshRotate(r)
      PROVE  (\A t \in Tokens : TokenStep(t)) /\ tokens' = [t \in Tokens |-> tokens'[t]]
  <2>1. /\ req[r].op = "rotate" /\ Fresh # {} /\ clock' = clock
        /\ req[r].user \in Users /\ req[r].family \in Tokens /\ req[r].id \in Tokens
        /\ tokens[req[r].id].family = req[r].family
    BY <1>4, <1>T DEF RefreshRotate, Carries, Refreshing, RefreshReq
  <2>2. CASE tokens' = tokens
    BY <1>F, <2>2 DEF TokenStep
  <2>3. CASE Stored(req[r].id)
             /\ tokens' = Issue(MarkUsed(tokens, req[r].id), req[r].user, req[r].family, clock + TTL)
    <3> DEFINE n == NextToken
               i == req[r].id
               row == NewRow(req[r].user, req[r].family, clock + TTL)
    <3>1. n \in Tokens /\ tokens[n].state = "unissued" /\ n # i
      BY <2>1, <2>3, FreshToken DEF Fresh, Stored
    <3>2. req[r].family # None
      BY <2>1
    <3>3. tokens' = [[tokens EXCEPT ![i].used = clock] EXCEPT ![n] = row]
      BY <2>3, <3>2 DEF Issue, CreateToken, MarkUsed, NewRow
    <3> HIDE DEF row, n
    <3>4. /\ tokens'[n] = row /\ tokens'[i] = [tokens[i] EXCEPT !.used = clock]
          /\ \A t \in Tokens : t # n /\ t # i => tokens'[t] = tokens[t]
          /\ tokens' = [t \in Tokens |-> tokens'[t]]
      BY <1>F, <2>1, <3>1, <3>3
    <3>5. Created(n)
      BY <1>T, <2>1, <3>1, <3>4 DEF Created, Successor, row
    <3>6. Spent(i)
      BY <2>1, <2>3, <3>1, <3>4 DEF Spent, row
    <3> QED BY <3>4, <3>5, <3>6 DEF TokenStep
  <2> QED BY <1>4, <2>2, <2>3 DEF RefreshRotate
<1>5. ASSUME NEW c \in Clients, Logout(c)
      PROVE  (\A t \in Tokens : TokenStep(t)) /\ tokens' = [t \in Tokens |-> tokens'[t]]
  <2>1. cookie[c] \in Tokens
    BY <1>5, <1>T DEF Logout, TypeOK
  <2> QED BY <1>5, <1>F, <2>1 DEF Logout, TokenStep, Revoked
<1>6. ASSUME NEW u, NEW f, tokens' = RevokeAll(u, f)
      PROVE  (\A t \in Tokens : TokenStep(t)) /\ tokens' = [t \in Tokens |-> tokens'[t]]
  <2>1. tokens' = [t \in Tokens |-> tokens'[t]]
    BY <1>6 DEF RevokeAll
  <2> QED BY <1>6, <2>1, RevokeAllSteps
<1>7. ASSUME NEW u \in Users, NEW f \in Tokens, RevokeSession(u, f)
      PROVE  (\A t \in Tokens : TokenStep(t)) /\ tokens' = [t \in Tokens |-> tokens'[t]]
  <2>1. tokens' = RevokeFamily(f)
    BY <1>7 DEF RevokeSession
  <2>2. tokens' = [t \in Tokens |-> tokens'[t]]
    BY <2>1 DEF RevokeFamily
  <2> QED BY <2>1, <2>2, RevokeFamilySteps
<1>8. CASE PruneTokens
  BY <1>8, <1>F DEF PruneTokens, TokenStep, Pruned
<1>9. CASE tokens' = tokens
  BY <1>9, <1>F DEF TokenStep
<1>10. ASSUME NEW r \in Requests, AuthRead(r) \/ AdminRead(r) PROVE tokens' = tokens
  BY <1>10 DEF AuthRead, AdminRead, LoginRead, RefreshRead, ChangeRead, ResetRequest, ConfirmRead,
               AdminResetRead, DeactivateRead, UpdateRead, CreateRead
<1>11. ASSUME NEW r \in Requests, Commit(r)
       PROVE  (\A t \in Tokens : TokenStep(t)) /\ tokens' = [t \in Tokens |-> tokens'[t]]
  <2>1. CASE RecordFailure(r) \/ ResetRequestCommit(r) \/ UpdateCommit(r) \/ CreateCommit(r)
    BY <1>9, <2>1 DEF RecordFailure, ResetRequestCommit, UpdateCommit, CreateCommit
  <2>2. CASE ChangeCommit(r) \/ ConfirmCommit(r) \/ AdminResetCommit(r) \/ DeactivateCommit(r)
    BY <1>6, <2>2 DEF ChangeCommit, ConfirmCommit, AdminResetCommit, DeactivateCommit
  <2> QED BY <1>1, <1>2, <1>3, <1>4, <1>11, <2>1, <2>2 DEF Commit
<1>12. CASE SignOut
  BY <1>5, <1>6, <1>7, <1>12 DEF SignOut, LogoutAll
<1>13. CASE (\E i \in Links : DeliverPasswordReset(i)) \/ PruneLinks \/ Tick \/ UNCHANGED vars
  BY <1>9, <1>13 DEF DeliverPasswordReset, PruneLinks, Tick, vars
<1> QED BY <1>8, <1>9, <1>10, <1>11, <1>12, <1>13 DEF Next

LEMMA TokenTypes ==
    ASSUME TypeInv, RefreshReq, [Next]_vars
    PROVE  /\ tokens' \in [Tokens -> RefreshToken] /\ TokenRows'
           /\ \A t \in Tokens : tokens[t].state # "unissued" =>
                tokens'[t].state # "unissued" /\ tokens'[t].family = tokens[t].family
<1>1. ASSUME NEW t \in Tokens
      PROVE  /\ tokens'[t] \in RefreshToken
             /\ tokens'[t].state # "unissued" => tokens'[t].user \in Users /\ tokens'[t].family \in Tokens
             /\ tokens[t].state # "unissued" =>
                  tokens'[t].state # "unissued" /\ tokens'[t].family = tokens[t].family
  <2>1. /\ tokens[t] \in RefreshToken /\ clock \in Nat
        /\ tokens[t].state # "unissued" => tokens[t].user \in Users /\ tokens[t].family \in Tokens
    BY DEF TypeInv, TypeOK, TokenRows
  <2>2. CASE tokens'[t] = tokens[t]
    BY <2>1, <2>2
  <2>3. CASE Created(t)
    BY <2>3 DEF Created, NewRow, RefreshToken
  <2>4. CASE Revoked(t)
    BY <2>1, <2>4 DEF Revoked, RefreshToken, Stored
  <2>5. CASE Pruned(t)
    BY <2>1, <2>5 DEF Pruned, RefreshToken, Stored
  <2>6. CASE Spent(t)
    BY <2>1, <2>6 DEF Spent, RefreshToken, Stored
  <2> QED BY <2>2, <2>3, <2>4, <2>5, <2>6, TokenSteps DEF TokenStep
<1> QED BY <1>1, TokenSteps DEF TokenRows

LEMMA RefreshReqNext ==
    ASSUME TypeInv, RefreshReq, [Next]_vars
    PROVE  RefreshReq'
<1> SUFFICES ASSUME NEW r \in Requests, req'[r].op \in Refreshing
             PROVE  /\ tokens'[req'[r].id].state # "unissued"
                    /\ tokens'[req'[r].id].family = req'[r].family
  BY DEF RefreshReq
<1>1. req \in [Requests -> Handler] /\ req'[r].id \in Tokens
  BY RequestTypes DEF TypeInv, TypeOK, Carries
<1>2. CASE req'[r] = req[r]
  BY <1>1, <1>2, TokenTypes DEF RefreshReq
<1>3. CASE req'[r] # req[r]
  <2>1. ~End(r) /\ \A x \in Requests : x # r => ~End(x)
    BY <1>1, <1>3 DEF End, Idle, Refreshing
  <2>b. PICK x \in Requests : Begins(x)
    BY <1>3, <2>1, RequestStep
  <2>2. PICK h : Begin(x, h) /\ Informed(x, h)
    BY <2>b DEF Begins
  <2>3. x = r /\ req'[r] = h
    BY <1>1, <1>3, <2>2 DEF Begin
  <2> QED BY <1>1, <2>2, <2>3, TokenTypes DEF Informed, Stored
<1> QED BY <1>2, <1>3

-----------------------------------------------------------------------------
(* Links and their row locks *)

LinksKept == UNCHANGED <<links, lock>>

\* The reads that take a lock take one that is free, and change no link.
Locks(r) ==
    /\ links' = links
    /\ lock' \in [Links -> Requests \cup {None}]
    /\ \A i \in Links : lock[i] # None => lock'[i] = lock[i]

LEMMA ReadsLock ==
    ASSUME TypeInv, NEW r \in Requests, AuthRead(r) \/ AdminRead(r)
    PROVE  Locks(r)
<1>1. lock \in [Links -> Requests \cup {None}]
  BY DEF TypeInv, TypeOK
<1>2. ASSUME LinksKept PROVE Locks(r)
  BY <1>1, <1>2 DEF LinksKept, Locks
<1>3. ASSUME NEW e \in Emails, ResetRequest(r, e) PROVE Locks(r)
  BY <1>1, <1>3 DEF ResetRequest, Locks
<1>4. ASSUME NEW i \in Links, NEW p \in Passwords, ConfirmRead(r, i, p) PROVE Locks(r)
  BY <1>1, <1>4 DEF ConfirmRead, Locks
<1>5. ASSUME \/ \E c \in Clients, e \in Emails, p \in Passwords : LoginRead(r, c, e, p)
             \/ \E c \in Clients : RefreshRead(r, c)
             \/ \E u \in Users, p \in Passwords, f \in Tokens \cup {None} : ChangeRead(r, u, p, f)
             \/ AdminRead(r)
      PROVE  LinksKept
  BY <1>5 DEF LinksKept, LoginRead, RefreshRead, ChangeRead, AdminRead, AdminResetRead,
              DeactivateRead, UpdateRead, CreateRead
<1> QED BY <1>2, <1>3, <1>4, <1>5 DEF AuthRead

\* What the other steps do to a link.
Superseded(r, i) == lock[i] = r /\ links'[i] = [links[i] EXCEPT !.revoked = TRUE]

Requested(r, i) ==
    /\ links[i].state = "unissued"
    /\ links'[i] = [state |-> "stored", user |-> req[r].user, used |-> None,
                    expires |-> clock + LinkTTL, revoked |-> FALSE, mail |-> "pending"]

Releases(r) ==
    /\ lock' \in [Links -> Requests \cup {None}]
    /\ \A i \in Links : lock[i] # r => lock'[i] = lock[i]
    /\ req'[r].op = "idle" /\ \A x \in Requests : x # r => req'[x] = req[x]

LEMMA CommitReleases ==
    ASSUME TypeInv, NEW r \in Requests, Release(r), End(r)
    PROVE  Releases(r)
  BY DEF Release, End, Releases, TypeInv, TypeOK, Idle

LEMMA LinkSteps ==
    ASSUME TypeInv, [Next]_vars
    PROVE  \/ \E r \in Requests : Begins(r) /\ Locks(r)
           \/ /\ LinksKept /\ \A r \in Requests : req'[r] = req[r] \/ req'[r].op = "idle"
           \/ \E r \in Requests :
                /\ req[r].op = "request" /\ Releases(r) /\ links' = [i \in Links |-> links'[i]]
                /\ \A i \in Links : links'[i] = links[i] \/ Superseded(r, i) \/ Requested(r, i)
           \/ \E r \in Requests :
                /\ req[r].op = "confirm" /\ Releases(r)
                /\ links' = [links EXCEPT ![req[r].id].used = clock]
           \/ /\ UNCHANGED <<lock, req>> /\ links' = [i \in Links |-> links'[i]]
              /\ \A i \in Links :
                   \/ links'[i] = links[i]
                   \/ \E m \in {"sent", "failed"} : links'[i] = [links[i] EXCEPT !.mail = m]
                                                    /\ links[i].state = "stored"
                   \/ /\ links[i].state = "stored" /\ lock[i] = None
                      /\ links'[i] = [links[i] EXCEPT !.state = "pruned"]
<1>T. links \in [Links -> PasswordResetToken] /\ req \in [Requests -> Handler]
  BY DEF TypeInv, TypeOK
<1>1. ASSUME NEW r \in Requests, AuthRead(r) \/ AdminRead(r)
      PROVE  Begins(r) /\ Locks(r)
  BY <1>1, ReadsInformed, ReadsLock
<1>2. ASSUME NEW r \in Requests, ResetRequestCommit(r)
      PROVE  /\ req[r].op = "request" /\ Releases(r) /\ links' = [i \in Links |-> links'[i]]
             /\ \A i \in Links : links'[i] = links[i] \/ Superseded(r, i) \/ Requested(r, i)
  <2>1. req[r].op = "request" /\ Releases(r)
    BY <1>2, CommitReleases DEF ResetRequestCommit
  <2> QED BY <1>2, <2>1 DEF ResetRequestCommit, Superseded, Requested
<1>3. ASSUME NEW r \in Requests, ConfirmCommit(r)
      PROVE  /\ req[r].op = "confirm" /\ Releases(r)
             /\ links' = [links EXCEPT ![req[r].id].used = clock]
  BY <1>3, CommitReleases DEF ConfirmCommit
<1>4. ASSUME NEW r \in Requests, Commit(r), ~ResetRequestCommit(r), ~ConfirmCommit(r)
      PROVE  LinksKept /\ \A x \in Requests : req'[x] = req[x] \/ req'[x].op = "idle"
  <2>1. LinksKept
    BY <1>4 DEF Commit, LinksKept, RecordFailure, LoginCommit, RefreshRefuse, RefreshSibling,
                RefreshRotate, ChangeCommit, AdminResetCommit, UpdateCommit, DeactivateCommit,
                CreateCommit
  <2> QED BY <1>T, <1>4, <2>1, CommitsEnd DEF End, Idle
<1>5. CASE SignOut \/ PruneTokens \/ Tick \/ UNCHANGED vars
  BY <1>5 DEF SignOut, Logout, LogoutAll, RevokeSession, PruneTokens, Tick, vars, LinksKept
<1>6. CASE \E i \in Links : DeliverPasswordReset(i)
  BY <1>6, <1>T DEF DeliverPasswordReset
<1>7. CASE PruneLinks
  BY <1>7, <1>T DEF PruneLinks
<1> QED BY <1>1, <1>2, <1>3, <1>4, <1>5, <1>6, <1>7 DEF Next

LEMMA LinkTypes ==
    ASSUME TypeInv, ConfirmReq, [Next]_vars
    PROVE  /\ links' \in [Links -> PasswordResetToken] /\ LinkRows'
           /\ lock' \in [Links -> Requests \cup {None}]
<1>T. /\ links \in [Links -> PasswordResetToken] /\ lock \in [Links -> Requests \cup {None}]
      /\ LinkRows /\ clock \in Nat /\ clock + LinkTTL \in Nat
      /\ \A r \in Requests : Carries(req[r])
  BY SessionsAssumption DEF TypeInv, TypeOK
<1>1. ASSUME UNCHANGED <<links, lock>> PROVE links' \in [Links -> PasswordResetToken] /\ LinkRows'
                                             /\ lock' \in [Links -> Requests \cup {None}]
  BY <1>1, <1>T DEF LinkRows
<1>2. ASSUME NEW r \in Requests, Locks(r)
      PROVE  links' \in [Links -> PasswordResetToken] /\ LinkRows'
             /\ lock' \in [Links -> Requests \cup {None}]
  BY <1>2, <1>T DEF Locks, LinkRows
<1>3. ASSUME NEW r \in Requests, req[r].op = "request", Releases(r),
             links' = [i \in Links |-> links'[i]],
             \A i \in Links : links'[i] = links[i] \/ Superseded(r, i) \/ Requested(r, i)
      PROVE  links' \in [Links -> PasswordResetToken] /\ LinkRows'
             /\ lock' \in [Links -> Requests \cup {None}]
  <2>1. req[r].user \in Users
    BY <1>3, <1>T DEF Carries
  <2>2. ASSUME NEW i \in Links
        PROVE  /\ links'[i] \in PasswordResetToken
               /\ IF links'[i].state = "unissued" THEN links'[i].used = None
                  ELSE links'[i].user \in Users
    <3>1. CASE links'[i] = links[i]
      BY <3>1, <1>T DEF LinkRows
    <3>2. CASE Superseded(r, i)
      <4>1. /\ links'[i] \in PasswordResetToken /\ links'[i].state = links[i].state
            /\ links'[i].used = links[i].used /\ links'[i].user = links[i].user
        BY <3>2, <1>T DEF Superseded, PasswordResetToken
      <4> QED BY <4>1, <1>T DEF LinkRows
    <3>3. CASE Requested(r, i)
      BY <3>3, <1>T, <2>1 DEF Requested, PasswordResetToken
    <3> QED BY <1>3, <3>1, <3>2, <3>3
  <2> QED BY <1>3, <2>2 DEF LinkRows, Releases
<1>4. ASSUME NEW r \in Requests, req[r].op = "confirm", Releases(r),
             links' = [links EXCEPT ![req[r].id].used = clock]
      PROVE  links' \in [Links -> PasswordResetToken] /\ LinkRows'
             /\ lock' \in [Links -> Requests \cup {None}]
  <2>1. req[r].id \in Links /\ links[req[r].id].state # "unissued"
    BY <1>4, <1>T DEF Carries, ConfirmReq
  <2> QED BY <1>4, <1>T, <2>1 DEF LinkRows, PasswordResetToken, Releases
<1>5. ASSUME UNCHANGED <<lock, req>>, links' = [i \in Links |-> links'[i]],
             \A i \in Links :
               \/ links'[i] = links[i]
               \/ \E m \in {"sent", "failed"} : links'[i] = [links[i] EXCEPT !.mail = m]
                                                /\ links[i].state = "stored"
               \/ /\ links[i].state = "stored" /\ lock[i] = None
                  /\ links'[i] = [links[i] EXCEPT !.state = "pruned"]
      PROVE  links' \in [Links -> PasswordResetToken] /\ LinkRows'
             /\ lock' \in [Links -> Requests \cup {None}]
  <2>1. ASSUME NEW i \in Links
        PROVE  /\ links'[i] \in PasswordResetToken
               /\ IF links'[i].state = "unissued" THEN links'[i].used = None
                  ELSE links'[i].user \in Users
    BY <1>5, <1>T DEF LinkRows, PasswordResetToken
  <2> QED BY <1>5, <1>T, <2>1 DEF LinkRows
<1> QED BY <1>1, <1>2, <1>3, <1>4, <1>5, LinkSteps DEF LinksKept

LEMMA ConfirmReqNext ==
    ASSUME TypeInv, ConfirmReq, [Next]_vars
    PROVE  ConfirmReq'
<1> SUFFICES ASSUME NEW x \in Requests, req'[x].op = "confirm", NEW i \in Links, i = req'[x].id
             PROVE  /\ lock'[i] = x /\ links'[i].state # "unissued"
                    /\ links'[i].used = None /\ ~links'[i].revoked
  <2>1. \A x \in Requests : req'[x].op = "confirm" => req'[x].id \in Links
    BY RequestTypes DEF Carries
  <2> QED BY <2>1 DEF ConfirmReq
<1>T. /\ links \in [Links -> PasswordResetToken] /\ req \in [Requests -> Handler]
      /\ None \notin Requests
  BY SessionsAssumption DEF TypeInv, TypeOK
<1>K. ASSUME req'[x] = req[x]
      PROVE  /\ lock[i] = x /\ links[i].state # "unissued"
             /\ links[i].used = None /\ ~links[i].revoked
  BY <1>K DEF ConfirmReq
<1>1. ASSUME NEW r \in Requests, Begins(r), Locks(r)
      PROVE  /\ lock'[i] = x /\ links'[i].state # "unissued"
             /\ links'[i].used = None /\ ~links'[i].revoked
  <2>1. PICK h : Begin(r, h) /\ Informed(r, h)
    BY <1>1 DEF Begins
  <2>2. CASE x = r
    <3>1. req'[x] = h
      BY <1>T, <2>1, <2>2 DEF Begin
    <3>2. Usable(i) /\ lock'[i] = x
      BY <2>1, <2>2, <3>1 DEF Informed
    <3> QED BY <1>1, <3>2 DEF Usable, Locks
  <2>3. CASE x # r
    <3>1. req'[x] = req[x]
      BY <1>T, <2>1, <2>3 DEF Begin
    <3> QED BY <1>1, <1>K, <1>T, <3>1 DEF Locks
  <2> QED BY <2>2, <2>3
<1>2. CASE LinksKept /\ \A r \in Requests : req'[r] = req[r] \/ req'[r].op = "idle"
  BY <1>2, <1>K DEF LinksKept
<1>3. ASSUME NEW r \in Requests, req[r].op = "request", Releases(r),
             links'[i] = links[i] \/ Superseded(r, i) \/ Requested(r, i)
      PROVE  /\ lock'[i] = x /\ links'[i].state # "unissued"
             /\ links'[i].used = None /\ ~links'[i].revoked
  <2>1. x # r /\ req'[x] = req[x] /\ lock'[i] = lock[i]
    BY <1>3, <1>K DEF Releases
  <2>2. links'[i] = links[i]
    BY <1>3, <1>K, <2>1 DEF Superseded, Requested
  <2> QED BY <1>K, <2>1, <2>2
<1>4. ASSUME NEW r \in Requests, req[r].op = "confirm", Releases(r),
             links' = [links EXCEPT ![req[r].id].used = clock]
      PROVE  /\ lock'[i] = x /\ links'[i].state # "unissued"
             /\ links'[i].used = None /\ ~links'[i].revoked
  <2>1. x # r /\ req'[x] = req[x] /\ lock'[i] = lock[i]
    BY <1>4, <1>K DEF Releases
  <2>2. req[r].id # i
    BY <1>4, <1>K, <2>1 DEF ConfirmReq
  <2> QED BY <1>4, <1>T, <1>K, <2>1, <2>2
<1>5. ASSUME UNCHANGED <<lock, req>>,
               \/ links'[i] = links[i]
               \/ \E m \in {"sent", "failed"} : links'[i] = [links[i] EXCEPT !.mail = m]
                                                /\ links[i].state = "stored"
               \/ /\ links[i].state = "stored" /\ lock[i] = None
                  /\ links'[i] = [links[i] EXCEPT !.state = "pruned"]
      PROVE  /\ lock'[i] = x /\ links'[i].state # "unissued"
             /\ links'[i].used = None /\ ~links'[i].revoked
  BY <1>5, <1>K, <1>T DEF PasswordResetToken
<1> QED BY <1>1, <1>2, <1>3, <1>4, <1>5, LinkSteps

-----------------------------------------------------------------------------
(* Accounts, counters and cookies *)

LEMMA UserTypes ==
    ASSUME TypeInv, [Next]_vars
    PROVE  users' \in [Users -> User]
<1>T. /\ users \in [Users -> User] /\ \A r \in Requests : Carries(req[r])
  BY DEF TypeInv, TypeOK
<1>1. ASSUME NEW r \in Requests, ChangeCommit(r) \/ ConfirmCommit(r) PROVE users' \in [Users -> User]
  <2>1. /\ req[r].user \in Users /\ req[r].pw \in Passwords
        /\ users' = [users EXCEPT ![req[r].user] = Chosen(users[req[r].user], req[r])]
    BY <1>1, <1>T DEF ChangeCommit, ConfirmCommit, Carries
  <2>2. ASSUME NEW row \in User PROVE Chosen(row, req[r]) \in User
    <3>1. CASE req[r].seen
      BY <2>1, <3>1 DEF Chosen, User
    <3>2. CASE ~req[r].seen
      BY <2>1, <3>2 DEF Chosen, User
    <3> QED BY <3>1, <3>2
  <2> QED BY <1>T, <2>1, <2>2
<1>2. ASSUME NEW r \in Requests, LoginCommit(r) PROVE users' \in [Users -> User]
  <2>1. req[r].user \in Users /\ req[r].pw \in Passwords
    BY <1>2, <1>T DEF LoginCommit, Carries
  <2> QED BY <1>2, <1>T, <2>1 DEF LoginCommit, User
<1>3. ASSUME NEW r \in Requests, AdminResetCommit(r) PROVE users' \in [Users -> User]
  <2>1. req[r].user \in Users
    BY <1>3, <1>T DEF AdminResetCommit, Carries
  <2>2. CASE req[r].seen
    BY <1>3, <1>T, <2>1, <2>2, SessionsAssumption DEF AdminResetCommit, User
  <2>3. CASE ~req[r].seen
    BY <1>3, <1>T, <2>1, <2>3, SessionsAssumption DEF AdminResetCommit, User
  <2> QED BY <2>2, <2>3
<1>4. ASSUME NEW r \in Requests, UpdateCommit(r) PROVE users' \in [Users -> User]
  <2>1. req[r].user \in Users /\ req[r].seen \in BOOLEAN
    BY <1>4, <1>T DEF UpdateCommit, Carries, Handler
  <2> QED BY <1>4, <1>T, <2>1 DEF UpdateCommit, User
<1>5. ASSUME NEW r \in Requests, DeactivateCommit(r) PROVE users' \in [Users -> User]
  <2>1. req[r].user \in Users
    BY <1>5, <1>T DEF DeactivateCommit, Carries
  <2> QED BY <1>5, <1>T, <2>1 DEF DeactivateCommit, User
<1>6. ASSUME NEW r \in Requests, CreateCommit(r) PROVE users' \in [Users -> User]
  <2>0. req[r].op = "create" /\ Carries(req[r])
    BY <1>6, <1>T DEF CreateCommit
  <2>1. req[r].email \in Emails
    BY <2>0 DEF Carries
  <2> DEFINE row == [state |-> "live", email |-> req[r].email, admin |-> FALSE, must |-> TRUE,
                     pw |-> Temporary]
  <2>2. row \in User
    BY <2>1, SessionsAssumption DEF User
  <2>3. users' = users \/ \E u \in Users : users' = [users EXCEPT ![u] = row]
    BY <1>6 DEF CreateCommit
  <2> HIDE DEF row
  <2> QED BY <1>T, <2>2, <2>3
<1>7. CASE users' = users
  BY <1>7, <1>T
<1>8. ASSUME NEW r \in Requests, AuthRead(r) \/ AdminRead(r) PROVE users' = users
  BY <1>8 DEF AuthRead, AdminRead, LoginRead, RefreshRead, ChangeRead, ResetRequest, ConfirmRead,
              AdminResetRead, DeactivateRead, UpdateRead, CreateRead
<1>9. ASSUME NEW r \in Requests, Commit(r) PROVE users' \in [Users -> User]
  <2>1. ASSUME \/ RecordFailure(r) \/ RefreshRefuse(r) \/ RefreshSibling(r) \/ RefreshRotate(r)
               \/ ResetRequestCommit(r)
        PROVE  users' = users
    BY <2>1 DEF RecordFailure, RefreshRefuse, RefreshSibling, RefreshRotate, ResetRequestCommit
  <2> QED BY <1>1, <1>2, <1>3, <1>4, <1>5, <1>6, <1>7, <1>9, <2>1 DEF Commit
<1>10. ASSUME \/ SignOut \/ (\E i \in Links : DeliverPasswordReset(i)) \/ PruneTokens
              \/ PruneLinks \/ Tick \/ UNCHANGED vars
       PROVE  users' = users
  BY <1>10 DEF SignOut, Logout, LogoutAll, RevokeSession, DeliverPasswordReset, PruneTokens,
               PruneLinks, Tick, vars
<1> QED BY <1>7, <1>8, <1>9, <1>10 DEF Next

\* A step leaves the counters alone, or counts a failure, or clears an address after a
\* login; and a bound is spent for every Redis command that failed.
LEMMA CounterTypes ==
    ASSUME TypeInv, [Next]_vars
    PROVE  fails' \in [Emails -> [window : Nat, count : Nat]] /\ budget' \in Budget
<1>T. /\ TypeOK /\ \A r \in Requests : Carries(req[r])
      /\ fails \in [Emails -> [window : Nat, count : Nat]] /\ budget \in Budget
      /\ budget.outages \in Nat
  BY DEF TypeInv, TypeOK, Budget
<1>0. budget.ops > 0 => Begun(0) \in Budget
  BY <1>T, BudgetStep
<1>1. ASSUME NEW r \in Requests, NEW c \in Clients, NEW e \in Emails, NEW p \in Passwords,
             LoginRead(r, c, e, p)
      PROVE  fails' = fails /\ budget' \in Budget
  <2>1. PICK up \in {TRUE} \cup {~Outage} : budget' = Begun(Slip(up))
    BY <1>1 DEF LoginRead
  <2>2. fails' = fails /\ budget.ops > 0
    BY <1>1 DEF LoginRead, Begin
  <2>3. Slip(up) \in {0, 1} /\ Slip(up) <= budget.outages
    BY <1>T, SlipBound
  <2> QED BY <1>T, <2>1, <2>2, <2>3, BudgetStep
<1>2. ASSUME NEW r \in Requests, NEW e \in Emails,
             \E up \in {TRUE} \cup {~Outage} :
               /\ fails' \in {fails, Hit(e), ResetCount(e)} /\ budget' = Lost(Slip(up))
      PROVE  fails' \in [Emails -> [window : Nat, count : Nat]] /\ budget' \in Budget
  <2>1. PICK up \in {TRUE} \cup {~Outage} : budget' = Lost(Slip(up))
    BY <1>2
  <2>2. Slip(up) \in {0, 1} /\ Slip(up) <= budget.outages
    BY <1>T, SlipBound
  <2>3. fails' \in {fails, Hit(e), ResetCount(e)}
    BY <1>2
  <2> QED BY <1>T, <2>1, <2>2, <2>3, BudgetStep, CounterStep
<1>3. ASSUME NEW r \in Requests, RecordFailure(r) \/ LoginCommit(r)
      PROVE  fails' \in [Emails -> [window : Nat, count : Nat]] /\ budget' \in Budget
  <2>1. Carries(req[r]) /\ req[r].op \in {"login", "badlogin"}
    BY <1>3, <1>T DEF RecordFailure, LoginCommit
  <2>2. req[r].email \in Emails
    BY <2>1 DEF Carries
  <2>3. \E up \in {TRUE} \cup {~Outage} :
          /\ fails' \in {fails, Hit(req[r].email), ResetCount(req[r].email)}
          /\ budget' = Lost(Slip(up))
    BY <1>3 DEF RecordFailure, LoginCommit
  <2> QED BY <1>2, <2>2, <2>3
<1>4. ASSUME fails' = fails, budget' = budget \/ (budget.ops > 0 /\ budget' = Begun(0))
      PROVE  fails' \in [Emails -> [window : Nat, count : Nat]] /\ budget' \in Budget
  BY <1>T, <1>0, <1>4
<1>5. ASSUME NEW r \in Requests, AuthRead(r) \/ AdminRead(r),
             ~\E c \in Clients, e \in Emails, p \in Passwords : LoginRead(r, c, e, p)
      PROVE  fails' = fails /\ budget.ops > 0 /\ budget' = Begun(0)
  BY <1>5 DEF AuthRead, AdminRead, RefreshRead, ChangeRead, ResetRequest, ConfirmRead,
              AdminResetRead, DeactivateRead, UpdateRead, CreateRead, Begin
<1>6. ASSUME NEW r \in Requests, Commit(r), ~RecordFailure(r), ~LoginCommit(r)
      PROVE  fails' = fails /\ budget' = budget
  BY <1>6 DEF Commit, RefreshRefuse, RefreshSibling, RefreshRotate, ChangeCommit,
              ResetRequestCommit, ConfirmCommit, AdminResetCommit, UpdateCommit,
              DeactivateCommit, CreateCommit
<1>7. ASSUME \/ SignOut \/ (\E i \in Links : DeliverPasswordReset(i)) \/ PruneTokens
             \/ PruneLinks \/ Tick \/ UNCHANGED vars
      PROVE  fails' = fails /\ (budget' = budget \/ (budget.ops > 0 /\ budget' = Begun(0)))
  BY <1>7 DEF SignOut, Logout, LogoutAll, RevokeSession, DeliverPasswordReset, PruneTokens,
              PruneLinks, Tick, vars
<1> QED BY <1>T, <1>1, <1>3, <1>4, <1>5, <1>6, <1>7 DEF Next, AuthRead

LEMMA CookieTypes ==
    ASSUME TypeInv, [Next]_vars
    PROVE  cookie' \in [Clients -> Tokens \cup {None}] /\ clock' \in Nat
<1>T. /\ cookie \in [Clients -> Tokens \cup {None}] /\ clock \in Nat
      /\ \A r \in Requests : Carries(req[r])
  BY DEF TypeInv, TypeOK
<1>1. ASSUME NEW c \in Clients, NEW v \in Tokens \cup {None}, Respond(c, v)
      PROVE  cookie' \in [Clients -> Tokens \cup {None}]
  BY <1>1, <1>T DEF Respond
<1>2. ASSUME NEW r \in Requests, Commit(r)
      PROVE  cookie' \in [Clients -> Tokens \cup {None}] /\ clock' = clock
  <2>0. Carries(req[r])
    BY <1>T
  <2>1. CASE LoginCommit(r) \/ RefreshSibling(r) \/ RefreshRotate(r)
    <3>1. clock' = clock /\ (Respond(req[r].client, NextToken) \/ cookie' = cookie) /\ Fresh # {}
          /\ req[r].op \in {"login", "sibling", "rotate"}
      BY <2>1 DEF LoginCommit, RefreshSibling, RefreshRotate
    <3>2. NextToken \in Tokens /\ req[r].client \in Clients
      BY <3>1, <2>0, FreshToken DEF Fresh, Carries, Refreshing
    <3> QED BY <1>1, <1>T, <3>1, <3>2
  <2>2. CASE RefreshRefuse(r)
    <3>1. clock' = clock /\ (Respond(req[r].client, None) \/ cookie' = cookie)
          /\ req[r].op \in {"reused", "orphan"}
      BY <2>2 DEF RefreshRefuse
    <3>2. req[r].client \in Clients
      BY <3>1, <2>0 DEF Carries, Refreshing
    <3> QED BY <1>1, <1>T, <3>1, <3>2
  <2>3. ASSUME \/ RecordFailure(r) \/ ChangeCommit(r) \/ ResetRequestCommit(r) \/ ConfirmCommit(r)
               \/ AdminResetCommit(r) \/ UpdateCommit(r) \/ DeactivateCommit(r) \/ CreateCommit(r)
        PROVE  cookie' = cookie /\ clock' = clock
    BY <2>3 DEF RecordFailure, ChangeCommit, ResetRequestCommit, ConfirmCommit, AdminResetCommit,
                UpdateCommit, DeactivateCommit, CreateCommit
  <2> QED BY <1>2, <1>T, <2>1, <2>2, <2>3 DEF Commit
<1>3. ASSUME SignOut
      PROVE  cookie' \in [Clients -> Tokens \cup {None}] /\ clock' = clock
  <2>1. /\ clock' = clock
        /\ (\E c \in Clients : Respond(c, None)) \/ cookie' = cookie
    BY <1>3 DEF SignOut, Logout, LogoutAll, RevokeSession
  <2> QED BY <1>1, <1>T, <2>1
<1>4. ASSUME \/ \E r \in Requests : AuthRead(r) \/ AdminRead(r)
             \/ \E i \in Links : DeliverPasswordReset(i)
             \/ PruneTokens \/ PruneLinks \/ UNCHANGED vars
      PROVE  cookie' = cookie /\ clock' = clock
  BY <1>4 DEF AuthRead, AdminRead, LoginRead, RefreshRead, ChangeRead, ResetRequest, ConfirmRead,
              AdminResetRead, DeactivateRead, UpdateRead, CreateRead, DeliverPasswordReset,
              PruneTokens, PruneLinks, vars
<1>5. ASSUME Tick PROVE cookie' = cookie /\ clock' = clock + 1
  BY <1>5 DEF Tick
<1> QED BY <1>T, <1>2, <1>3, <1>4, <1>5 DEF Next

-----------------------------------------------------------------------------
(* The invariant *)

SessionInv == TypeInv /\ RefreshReq /\ ConfirmReq

LEMMA SessionInit == Init => SessionInv
<1> SUFFICES ASSUME Init PROVE SessionInv
  OBVIOUS
<1>1. users \in [Users -> User]
  BY DEF Init, User
<1>2. /\ tokens \in [Tokens -> RefreshToken] /\ links \in [Links -> PasswordResetToken]
      /\ TokenRows /\ LinkRows
  BY DEF Init, RefreshToken, PasswordResetToken, TokenRows, LinkRows
<1>3. req \in [Requests -> Handler] /\ \A r \in Requests : Carries(req[r]) /\ req[r].op = "idle"
  BY IdleCarries DEF Init, Carries, Idle
<1>4. TypeOK
  BY <1>1, <1>2, <1>3, SessionsAssumption DEF Init, TypeOK, Budget
<1> QED BY <1>2, <1>3, <1>4 DEF SessionInv, TypeInv, RefreshReq, ConfirmReq, Refreshing

LEMMA SessionNext == SessionInv /\ [Next]_vars => SessionInv'
<1> SUFFICES ASSUME TypeInv, RefreshReq, ConfirmReq, [Next]_vars PROVE SessionInv'
  BY DEF SessionInv
<1>1. TypeOK'
  BY RequestTypes, TokenTypes, LinkTypes, UserTypes, CounterTypes, CookieTypes DEF TypeOK
<1>2. TypeInv'
  BY <1>1, RequestTypes, TokenTypes, LinkTypes DEF TypeInv
<1> QED BY <1>2, RefreshReqNext, ConfirmReqNext DEF SessionInv

\* services/auth.py: no request, however it interleaves with others, loses its user, token
\* or link, and a confirm under way has its link to itself until it commits.
THEOREM SessionsTyped == Spec => []SessionInv
  BY SessionInit, SessionNext, PTL DEF Spec

-----------------------------------------------------------------------------
(* Reset links *)

\* services/password_reset.py, repositories/password_reset_token.py: the row lock taken by
\* get_usable_by_hash lets one confirm spend a link, and no newer request supersede it
\* meanwhile.
THEOREM LinksSpentOnce == Spec => LinkSpentOnce
<1> DEFINE Once == \A i \in Links : links'[i].used # links[i].used =>
                                      links[i].used = None /\ ~links[i].revoked
<1>1. SessionInv /\ [Next]_vars => Once
  <2> SUFFICES ASSUME SessionInv, [Next]_vars, NEW i \in Links, links'[i].used # links[i].used
               PROVE  links[i].used = None /\ ~links[i].revoked
    OBVIOUS
  <2>T. /\ TypeInv /\ ConfirmReq /\ LinkRows /\ links \in [Links -> PasswordResetToken]
        /\ \A r \in Requests : Carries(req[r])
    BY DEF SessionInv, TypeInv, TypeOK
  <2>1. ASSUME NEW r \in Requests, req[r].op = "confirm",
               links' = [links EXCEPT ![req[r].id].used = clock]
        PROVE  links[i].used = None /\ ~links[i].revoked
    <3>1. i = req[r].id
      BY <2>1, <2>T DEF Carries
    <3> QED BY <2>1, <2>T, <3>1 DEF ConfirmReq
  <2>2. CASE links'[i] = links[i]
    BY <2>2
  <2>3. ASSUME NEW r \in Requests, Superseded(r, i) \/ Requested(r, i) PROVE FALSE
    BY <2>3, <2>T DEF Superseded, Requested, LinkRows, PasswordResetToken
  <2>4. ASSUME \/ \E m \in {"sent", "failed"} : links'[i] = [links[i] EXCEPT !.mail = m]
               \/ links'[i] = [links[i] EXCEPT !.state = "pruned"]
        PROVE  FALSE
    BY <2>4, <2>T DEF PasswordResetToken
  <2> QED BY <2>T, <2>1, <2>2, <2>3, <2>4, LinkSteps DEF Locks, LinksKept
<1>2. SessionInv /\ [Next]_vars => [Once]_vars
  BY <1>1
<1> QED BY <1>2, SessionsTyped, PTL DEF Spec, LinkSpentOnce

-----------------------------------------------------------------------------
(* Sessions *)

\* Nobody's clock runs back.
LEMMA ClockForward ==
    ASSUME TypeInv, [Next]_vars
    PROVE  clock' >= clock
<1>T. clock \in Nat
  BY DEF TypeInv, TypeOK
<1>1. CASE Tick
  BY <1>1, <1>T DEF Tick
<1>2. ASSUME ~Tick PROVE clock' = clock
  <2>1. ASSUME NEW r \in Requests, AuthRead(r) \/ AdminRead(r) PROVE clock' = clock
    BY <2>1 DEF AuthRead, AdminRead, LoginRead, RefreshRead, ChangeRead, ResetRequest,
                ConfirmRead, AdminResetRead, DeactivateRead, UpdateRead, CreateRead
  <2>2. ASSUME NEW r \in Requests, Commit(r) PROVE clock' = clock
    BY <2>2 DEF Commit, RecordFailure, LoginCommit, RefreshRefuse, RefreshSibling, RefreshRotate,
                ChangeCommit, ResetRequestCommit, ConfirmCommit, AdminResetCommit, UpdateCommit,
                DeactivateCommit, CreateCommit
  <2>3. ASSUME SignOut \/ (\E i \in Links : DeliverPasswordReset(i)) \/ PruneTokens
               \/ PruneLinks \/ UNCHANGED vars
        PROVE  clock' = clock
    BY <2>3 DEF SignOut, Logout, LogoutAll, RevokeSession, DeliverPasswordReset, PruneTokens,
                PruneLinks, vars
  <2> QED BY <1>2, <2>1, <2>2, <2>3 DEF Next
<1> QED BY <1>T, <1>1, <1>2

\* A refresh begun or under way for a family shows that the family is not dead.
LEMMA DeadRefuses ==
    ASSUME SessionInv, [Next]_vars, NEW f \in Tokens, Dead(f), NEW r \in Requests,
           req'[r].op \in {"rotate", "sibling"}, req'[r].family = f
    PROVE  FALSE
<1>T. TypeInv /\ req \in [Requests -> Handler]
  BY DEF SessionInv, TypeInv, TypeOK
<1>1. req'[r] # req[r]
  BY DEF Dead
<1>b. PICK x \in Requests : Begins(x)
  <2>1. \A x \in Requests : ~End(x)
    BY <1>1, <1>T DEF End, Idle
  <2> QED BY <1>1, <1>T, <2>1, RequestStep
<1>2. PICK h : Begin(x, h) /\ Informed(x, h)
  BY <1>b DEF Begins
<1>3. x = r /\ req'[r] = h
  BY <1>1, <1>2, <1>T DEF Begin
<1>4. h.id \in Tokens /\ Stored(h.id) /\ tokens[h.id].family = f /\ Exchangeable(h.id)
  BY <1>2, <1>3 DEF Informed, Carries, Refreshing
<1> QED BY <1>4 DEF Dead, Family

\* services/auth.py refresh: a session that ended, with no refresh of it under way, does
\* not come back, whatever later requests present.
THEOREM EndedSessionsStayEnded == Spec => EndedStaysEnded
<1> DEFINE Stays == \A f \in Tokens : tokens[f].state # "unissued" /\ Dead(f) => Dead(f)'
<1>1. SessionInv /\ [Next]_vars => Stays
  <2> SUFFICES ASSUME SessionInv, [Next]_vars, NEW f \in Tokens,
                      tokens[f].state # "unissued", Dead(f)
               PROVE  Dead(f)'
    OBVIOUS
  <2>T. /\ TypeInv /\ RefreshReq /\ tokens \in [Tokens -> RefreshToken] /\ clock \in Nat
        /\ clock' \in Nat /\ clock' >= clock /\ Grace \in Nat /\ None \notin Nat
    BY ClockForward, CookieTypes, SessionsAssumption DEF SessionInv, TypeInv, TypeOK
  <2>1. ASSUME NEW t \in Tokens, tokens'[t].state = "stored", tokens'[t].family = f,
               tokens'[t].expires > clock', ~tokens'[t].revoked,
               tokens'[t].used = None \/ clock' - tokens'[t].used <= Grace
        PROVE  FALSE
    <3>1. ASSUME tokens[t].state = "stored", tokens[t].family = f, tokens[t].expires > clock,
                 ~tokens[t].revoked, tokens[t].used = None \/ clock - tokens[t].used <= Grace
          PROVE  FALSE
      BY <3>1, <2>T DEF Dead, Family, Exchangeable, Stored, Expired, RefreshToken
    <3>2. CASE tokens'[t] = tokens[t]
      BY <2>1, <2>T, <3>1, <3>2 DEF RefreshToken
    <3>3. CASE Created(t)
      <4>1. Successor(t, f)
        BY <2>1, <3>3 DEF Created, NewRow
      <4> QED BY <3>3, <4>1 DEF Created, Successor, Dead
    <3>4. CASE Revoked(t)
      BY <2>1, <2>T, <3>4 DEF Revoked, RefreshToken
    <3>5. CASE Pruned(t)
      BY <2>1, <2>T, <3>5 DEF Pruned, RefreshToken
    <3>6. CASE Spent(t)
      <4>1. tokens[t].family = f
        BY <2>1, <2>T, <3>6 DEF Spent, RefreshToken
      <4>2. \E r \in Requests : req[r].op = "rotate" /\ req[r].family = f
        BY <2>T, <3>6, <4>1 DEF Spent, RefreshReq, Refreshing
      <4> QED BY <4>2 DEF Dead
    <3> QED BY <2>T, <3>2, <3>3, <3>4, <3>5, <3>6, TokenSteps DEF TokenStep
  <2>2. \A t \in Family(f)' : ~Exchangeable(t)'
    <3>1. tokens' \in [Tokens -> RefreshToken]
      BY <2>T, TokenTypes
    <3> QED BY <2>1, <2>T, <3>1 DEF Family, Exchangeable, Stored, Expired, RefreshToken
  <2>3. \A r \in Requests : ~(req'[r].op \in {"rotate", "sibling"} /\ req'[r].family = f)
    BY DeadRefuses
  <2> QED BY <2>2, <2>3 DEF Dead
<1>2. SessionInv /\ [Next]_vars => [Stays]_vars
  BY <1>1
<1> QED BY <1>2, SessionsTyped, PTL DEF Spec, EndedStaysEnded

\* services/auth.py refresh, repositories/refresh_token.py prune: rotation passes the head
\* of a chain on, and what is pruned is no head.
THEOREM SignedOutByRevocationOnly == Spec => OnlyRevocationSignsOut
<1> DEFINE Only == \A f \in Tokens : FamilyIsLive(f) /\ ~FamilyIsLive(f)' =>
                     \/ \E t \in Family(f) : ~tokens[t].revoked /\ tokens'[t].revoked
                     \/ clock' # clock
<1>1. SessionInv /\ [Next]_vars => Only
  <2> SUFFICES ASSUME SessionInv, [Next]_vars, NEW f \in Tokens, FamilyIsLive(f), clock' = clock,
                      \A t \in Family(f) : ~(~tokens[t].revoked /\ tokens'[t].revoked)
               PROVE  FamilyIsLive(f)'
    OBVIOUS
  <2>T. /\ TypeInv /\ RefreshReq /\ tokens \in [Tokens -> RefreshToken] /\ clock \in Nat
        /\ TTL \in Nat /\ TTL > 0
    BY SessionsAssumption DEF SessionInv, TypeInv, TypeOK
  <2>1. PICK t \in Tokens : Stored(t) /\ tokens[t].family = f /\ Head(t) /\ t \in Family(f)
    BY DEF FamilyIsLive, Family
  <2>2. ASSUME NEW n \in Tokens, tokens'[n].state = "stored", tokens'[n].family = f,
               ~tokens'[n].revoked, tokens'[n].used = None, ~(tokens'[n].expires <= clock)
        PROVE  FamilyIsLive(f)'
    BY <2>2 DEF FamilyIsLive, Family, Head, Stored, Expired
  <2>3. CASE tokens'[t] = tokens[t]
    BY <2>1, <2>2, <2>3 DEF Head, Stored, Expired
  <2>4. CASE Created(t)
    BY <2>1, <2>4 DEF Created, Stored
  <2>5. CASE Revoked(t)
    BY <2>1, <2>5, <2>T DEF Revoked, Head, RefreshToken
  <2>6. CASE Pruned(t)
    BY <2>1, <2>6, <2>T DEF Pruned, Head, Expired, RefreshToken
  <2>7. CASE Spent(t)
    <3>1. PICK n \in Tokens, u \in Users : tokens'[n] = NewRow(u, f, clock + TTL)
      BY <2>1, <2>7 DEF Spent
    <3>2. ~(clock + TTL <= clock)
      BY <2>T
    <3> QED BY <2>2, <3>1, <3>2 DEF NewRow
  <2> QED BY <2>T, <2>3, <2>4, <2>5, <2>6, <2>7, TokenSteps DEF TokenStep
<1>2. SessionInv /\ [Next]_vars => [Only]_vars
  BY <1>1
<1> QED BY <1>2, SessionsTyped, PTL DEF Spec, OnlyRevocationSignsOut

-----------------------------------------------------------------------------
(* The login budget *)

\* Attempts past the check that are still to be counted against the address.
InFlight(e) == {r \in Requests : req[r].op = "badlogin" /\ req[r].email = e}

Ceiling == LoginLimit + Cardinality(Requests) - 1 + (MaxOutages - budget.outages)

BudgetInv ==
    /\ budget.outages <= MaxOutages
    /\ \A e \in Emails : /\ fails[e].window <= CurrentWindow
                         /\ Count(e) + Cardinality(InFlight(e)) <= Ceiling

LEMMA InFlightFinite ==
    /\ IsFiniteSet(Requests) /\ Cardinality(Requests) \in Nat
    /\ \A e : /\ IsFiniteSet(InFlight(e)) /\ Cardinality(InFlight(e)) \in Nat
              /\ Cardinality(InFlight(e)) <= Cardinality(Requests)
    /\ \A e : /\ IsFiniteSet(InFlight(e)') /\ Cardinality(InFlight(e)') \in Nat
              /\ Cardinality(InFlight(e)') <= Cardinality(Requests)
<1>1. IsFiniteSet(Requests) /\ Cardinality(Requests) \in Nat
  BY SessionsAssumption, FS_CardinalityType
<1>2. \A e : InFlight(e) \subseteq Requests /\ InFlight(e)' \subseteq Requests
  BY DEF InFlight
<1>3. \A S \in SUBSET Requests : IsFiniteSet(S) /\ Cardinality(S) \in Nat
                                 /\ Cardinality(S) <= Cardinality(Requests)
  BY <1>1, FS_Subset, FS_CardinalityType
<1> QED BY <1>1, <1>2, <1>3

LEMMA Numbers ==
    ASSUME TypeInv, BudgetInv
    PROVE  /\ budget.outages \in Nat /\ MaxOutages \in Nat /\ LoginLimit \in Nat /\ LoginLimit > 0
           /\ CurrentWindow \in Nat
           /\ \A e \in Emails : Count(e) \in Nat
<1>1. budget.outages \in Nat /\ TypeOK
  BY DEF TypeInv, TypeOK, Budget
<1>2. CurrentWindow \in Nat
  BY <1>1, DivMonotone, SessionsAssumption DEF TypeOK, CurrentWindow
<1> QED BY <1>1, <1>2, SessionsAssumption, CounterStep

\* A step that counts nothing and lets no failing attempt past the check.
LEMMA BudgetQuiet ==
    ASSUME TypeInv, BudgetInv, fails' = fails, clock' = clock,
           budget'.outages \in Nat, budget'.outages <= budget.outages,
           \A r \in Requests : req'[r].op = "badlogin" => req'[r] = req[r]
    PROVE  BudgetInv'
<1>0. (budget.outages <= MaxOutages)'
  BY Numbers DEF BudgetInv
<1> SUFFICES ASSUME NEW e \in Emails
             PROVE  /\ (fails[e].window <= CurrentWindow)'
                    /\ (Count(e) + Cardinality(InFlight(e)) <= Ceiling)'
  BY <1>0 DEF BudgetInv
<1>1. CurrentWindow' = CurrentWindow /\ Count(e)' = Count(e)
  BY DEF CurrentWindow, Count
<1>2. InFlight(e)' \subseteq InFlight(e)
  BY DEF InFlight
<1>3. Cardinality(InFlight(e)') <= Cardinality(InFlight(e))
  BY <1>2, InFlightFinite, FS_Subset
<1>4. Ceiling' >= Ceiling /\ Ceiling \in Int /\ Ceiling' \in Int
  BY Numbers, InFlightFinite DEF Ceiling
<1>5. /\ budget.outages <= MaxOutages /\ fails[e].window <= CurrentWindow
      /\ Count(e) + Cardinality(InFlight(e)) <= Ceiling
  BY DEF BudgetInv
<1> QED BY <1>1, <1>3, <1>4, <1>5, Numbers, InFlightFinite

LEMMA BudgetTick ==
    ASSUME TypeInv, BudgetInv, Tick
    PROVE  BudgetInv'
<1>0. (budget.outages <= MaxOutages)'
  BY Numbers DEF BudgetInv, Tick
<1> SUFFICES ASSUME NEW e \in Emails
             PROVE  /\ (fails[e].window <= CurrentWindow)'
                    /\ (Count(e) + Cardinality(InFlight(e)) <= Ceiling)'
  BY <1>0 DEF BudgetInv
<1>1. clock' = clock + 1 /\ UNCHANGED <<fails, req, budget>> /\ clock \in Nat
      /\ fails[e].window \in Nat
  BY DEF Tick, TypeInv, TypeOK
<1>2. CurrentWindow <= CurrentWindow' /\ CurrentWindow' \in Nat
  BY <1>1, DivMonotone, SessionsAssumption DEF CurrentWindow
<1>3. InFlight(e)' = InFlight(e) /\ Ceiling' = Ceiling
  BY <1>1 DEF InFlight, Ceiling
<1>4. /\ budget.outages <= MaxOutages /\ fails[e].window <= CurrentWindow
      /\ Count(e) + Cardinality(InFlight(e)) <= Ceiling
  BY DEF BudgetInv
<1>5. Count(e)' <= Count(e) /\ Count(e)' \in Nat
  <2>1. CASE fails[e].window = CurrentWindow'
    <3>1. fails[e].window = CurrentWindow
      BY <1>1, <1>2, <1>4, <2>1, Numbers
    <3> QED BY <1>1, <2>1, <3>1, Numbers DEF Count
  <2>2. CASE fails[e].window # CurrentWindow'
    BY <1>1, <2>2, Numbers DEF Count
  <2> QED BY <2>1, <2>2
<1>6. Ceiling \in Int
  BY Numbers, InFlightFinite DEF Ceiling
<1>7. (fails[e].window <= CurrentWindow)'
  BY <1>1, <1>2, <1>4, Numbers
<1> QED BY <1>1, <1>3, <1>4, <1>5, <1>6, <1>7, Numbers, InFlightFinite

LEMMA BudgetLoginRead ==
    ASSUME TypeInv, BudgetInv, NEW r \in Requests, NEW c \in Clients, NEW e \in Emails,
           NEW p \in Passwords, LoginRead(r, c, e, p)
    PROVE  BudgetInv'
<1>T. TypeOK /\ req \in [Requests -> Handler] /\ budget.ops \in Nat
  BY DEF TypeInv, TypeOK, Budget
<1> DEFINE b == [Idle EXCEPT !.op = "badlogin", !.email = e]
           h(u) == [Idle EXCEPT !.op = "login", !.client = c, !.user = u, !.pw = p, !.email = e]
<1>1. PICK up \in {TRUE} \cup {~Outage} :
        /\ CheckEmail(e, up) /\ budget' = Begun(Slip(up))
        /\ Begin(r, b) \/ \E u \in Users : Begin(r, h(u))
  BY DEF LoginRead, GetByEmail
<1>2. fails' = fails /\ clock' = clock
  BY DEF LoginRead
<1>3. /\ Slip(up) \in {0, 1} /\ Slip(up) <= budget.outages
      /\ up <=> Slip(up) = 0
  BY <1>T, SlipBound
<1>4. budget'.outages = budget.outages - Slip(up)
  BY <1>T, <1>1, <1>3, BudgetStep DEF Begin
<1>5. b.op = "badlogin" /\ b.email = e /\ \A u : h(u).op = "login"
  BY DEF Idle
<1> HIDE DEF b, h
<1>6. CASE \E u \in Users : Begin(r, h(u))
  <2>1. \A x \in Requests : req'[x].op = "badlogin" => req'[x] = req[x]
    BY <1>T, <1>5, <1>6 DEF Begin
  <2> QED BY <1>2, <1>3, <1>4, <2>1, Numbers, BudgetQuiet
<1>7. CASE Begin(r, b)
  <2>0. (budget.outages <= MaxOutages)'
    BY <1>3, <1>4, Numbers DEF BudgetInv
  <2> SUFFICES ASSUME NEW x \in Emails
               PROVE  /\ (fails[x].window <= CurrentWindow)'
                      /\ (Count(x) + Cardinality(InFlight(x)) <= Ceiling)'
    BY <2>0 DEF BudgetInv
  <2>1. CurrentWindow' = CurrentWindow /\ Count(x)' = Count(x)
    BY <1>2 DEF CurrentWindow, Count
  <2>2. /\ budget.outages <= MaxOutages /\ fails[x].window <= CurrentWindow
        /\ Count(x) + Cardinality(InFlight(x)) <= Ceiling
    BY DEF BudgetInv
  <2>3. Ceiling' = Ceiling + Slip(up) /\ Ceiling \in Int
    BY <1>3, <1>4, Numbers, InFlightFinite DEF Ceiling
  <2>4. (fails[x].window <= CurrentWindow)'
    BY <1>2, <2>1, <2>2
  <2>5. CASE x # e
    <3>1. InFlight(x)' = InFlight(x)
      BY <1>T, <1>5, <1>7, <2>5 DEF InFlight, Begin
    <3> QED BY <1>3, <2>1, <2>2, <2>3, <2>4, <3>1, Numbers, InFlightFinite
  <2>6. CASE x = e /\ ~up
    <3>1. InFlight(e)' = InFlight(e) \cup {r} /\ r \notin InFlight(e)
      BY <1>T, <1>5, <1>7 DEF InFlight, Begin
    <3>2. Cardinality(InFlight(e)') = Cardinality(InFlight(e)) + 1
      BY <3>1, InFlightFinite, FS_AddElement
    <3>3. Slip(up) = 1
      BY <1>3, <2>6
    <3> QED BY <2>1, <2>2, <2>3, <2>4, <2>6, <3>2, <3>3, Numbers, InFlightFinite
  <2>7. CASE x = e /\ up
    <3>1. Count(e) < LoginLimit
      BY <1>1, <2>7 DEF CheckEmail
    <3>2. Slip(up) = 0
      BY <2>7 DEF Slip
    <3>3. Ceiling >= LoginLimit + Cardinality(Requests) - 1
      BY <2>2, Numbers, InFlightFinite DEF Ceiling
    <3>4. Cardinality(InFlight(e)') \in Nat /\ Cardinality(InFlight(e)') <= Cardinality(Requests)
      BY InFlightFinite
    <3>5. Ceiling' = Ceiling
      BY <2>3, <3>2
    <3>6. Count(e) + Cardinality(InFlight(e)') <= Ceiling
      BY <2>3, <3>1, <3>3, <3>4, Numbers, InFlightFinite
    <3>7. x = e
      BY <2>7
    <3> QED BY <2>1, <2>4, <3>5, <3>6, <3>7
  <2> QED BY <2>5, <2>6, <2>7
<1> QED BY <1>1, <1>6, <1>7

LEMMA BudgetFailure ==
    ASSUME TypeInv, BudgetInv, NEW r \in Requests, RecordFailure(r)
    PROVE  BudgetInv'
<1>T. TypeOK /\ req \in [Requests -> Handler] /\ fails \in [Emails -> [window : Nat, count : Nat]]
  BY DEF TypeInv, TypeOK
<1>1. PICK e \in Emails : req[r].op = "badlogin" /\ e = req[r].email
  BY DEF RecordFailure, TypeInv, Carries
<1>2. PICK up \in {TRUE} \cup {~Outage} :
        fails' = (IF up THEN Hit(e) ELSE fails) /\ budget' = Lost(Slip(up))
  BY <1>1 DEF RecordFailure
<1>3. End(r) /\ clock' = clock
  BY DEF RecordFailure
<1>4. /\ Slip(up) \in {0, 1} /\ Slip(up) <= budget.outages
      /\ up <=> Slip(up) = 0
  BY <1>T, SlipBound
<1>5. budget'.outages = budget.outages - Slip(up)
  BY <1>T, <1>2, <1>4, BudgetStep
<1>6. (budget.outages <= MaxOutages)'
  BY <1>4, <1>5, Numbers DEF BudgetInv
<1>7. Ceiling' = Ceiling + Slip(up) /\ Ceiling \in Int
  BY <1>4, <1>5, Numbers, InFlightFinite DEF Ceiling
<1>8. CASE ~up
  <2>1. fails' = fails
    BY <1>2, <1>8
  <2>2. \A x \in Requests : req'[x].op = "badlogin" => req'[x] = req[x]
    BY <1>T, <1>3 DEF End, Idle
  <2> QED BY <1>3, <1>4, <1>5, <2>1, <2>2, Numbers, BudgetQuiet
<1>9. CASE up
  <2>1. fails' = Hit(e) /\ Slip(up) = 0
    BY <1>2, <1>9 DEF Slip
  <2> SUFFICES ASSUME NEW x \in Emails
               PROVE  /\ (fails[x].window <= CurrentWindow)'
                      /\ (Count(x) + Cardinality(InFlight(x)) <= Ceiling)'
    BY <1>6 DEF BudgetInv
  <2>2. /\ fails[x].window <= CurrentWindow
        /\ Count(x) + Cardinality(InFlight(x)) <= Ceiling
    BY DEF BudgetInv
  <2>3. CurrentWindow' = CurrentWindow /\ Ceiling' = Ceiling
    BY <1>3, <1>7, <2>1 DEF CurrentWindow
  <2>4. CASE x # e
    <3>1. fails'[x] = fails[x] /\ InFlight(x)' = InFlight(x)
      BY <1>T, <1>1, <1>3, <2>1, <2>4 DEF Hit, InFlight, End, Idle
    <3> QED BY <2>2, <2>3, <3>1 DEF Count
  <2>5. CASE x = e
    <3>1. fails'[e] = [window |-> CurrentWindow, count |-> Count(e) + 1]
      BY <1>T, <2>1 DEF Hit
    <3>2. fails'[e].window = CurrentWindow /\ Count(e)' = Count(e) + 1
      BY <2>3, <3>1 DEF Count
    <3>3. InFlight(e)' = InFlight(e) \ {r} /\ r \in InFlight(e)
      BY <1>T, <1>1, <1>3 DEF InFlight, End, Idle
    <3>4. Cardinality(InFlight(e)') = Cardinality(InFlight(e)) - 1
      BY <3>3, InFlightFinite, FS_RemoveElement
    <3> QED BY <1>7, <2>2, <2>3, <2>5, <3>2, <3>4, Numbers, InFlightFinite
  <2> QED BY <2>4, <2>5
<1> QED BY <1>8, <1>9

LEMMA BudgetLogin ==
    ASSUME TypeInv, BudgetInv, NEW r \in Requests, LoginCommit(r)
    PROVE  BudgetInv'
<1>T. TypeOK /\ req \in [Requests -> Handler] /\ fails \in [Emails -> [window : Nat, count : Nat]]
  BY DEF TypeInv, TypeOK
<1>1. PICK e \in Emails : req[r].op = "login" /\ e = req[r].email
  BY DEF LoginCommit, TypeInv, Carries
<1>2. PICK up \in {TRUE} \cup {~Outage} :
        fails' \in {fails, ResetCount(e)} /\ budget' = Lost(Slip(up))
  BY <1>1 DEF LoginCommit
<1>3. End(r) /\ clock' = clock
  BY DEF LoginCommit
<1>4. /\ Slip(up) \in {0, 1} /\ Slip(up) <= budget.outages
  BY <1>T, SlipBound
<1>5. budget'.outages = budget.outages - Slip(up)
  BY <1>T, <1>2, <1>4, BudgetStep
<1>6. budget'.outages \in Nat /\ budget'.outages <= budget.outages
  BY <1>4, <1>5, Numbers
<1>7. \A x \in Requests : req'[x].op = "badlogin" => req'[x] = req[x]
  BY <1>T, <1>3 DEF End, Idle
<1>8. CASE fails' = fails
  BY <1>3, <1>6, <1>7, <1>8, BudgetQuiet
<1>9. CASE fails' = ResetCount(e)
  <2>0. (budget.outages <= MaxOutages)'
    BY <1>6, Numbers DEF BudgetInv
  <2> SUFFICES ASSUME NEW x \in Emails
               PROVE  /\ (fails[x].window <= CurrentWindow)'
                      /\ (Count(x) + Cardinality(InFlight(x)) <= Ceiling)'
    BY <2>0 DEF BudgetInv
  <2>1. CurrentWindow' = CurrentWindow /\ Ceiling' >= Ceiling /\ Ceiling \in Int /\ Ceiling' \in Int
        /\ Ceiling >= LoginLimit + Cardinality(Requests) - 1
    BY <1>3, <1>6, Numbers, InFlightFinite DEF CurrentWindow, Ceiling, BudgetInv
  <2>2. /\ fails[x].window <= CurrentWindow
        /\ Count(x) + Cardinality(InFlight(x)) <= Ceiling
    BY DEF BudgetInv
  <2>3. Cardinality(InFlight(x)') <= Cardinality(InFlight(x))
    <3>1. InFlight(x)' \subseteq InFlight(x)
      BY <1>7 DEF InFlight
    <3> QED BY <3>1, InFlightFinite, FS_Subset
  <2>4. CASE x # e
    <3>1. fails'[x] = fails[x]
      BY <1>T, <1>9, <2>4 DEF ResetCount
    <3>2. Count(x)' = Count(x)
      BY <2>1, <3>1 DEF Count
    <3> QED BY <2>1, <2>2, <2>3, <3>1, <3>2, Numbers, InFlightFinite
  <2>5. CASE x = e
    <3>1. fails'[e] = [window |-> CurrentWindow, count |-> 0]
      BY <1>T, <1>9 DEF ResetCount
    <3>2. fails'[e].window = CurrentWindow /\ Count(e)' = 0
      BY <2>1, <3>1 DEF Count
    <3>3. Cardinality(InFlight(e)') <= Cardinality(Requests)
      BY InFlightFinite
    <3> QED BY <2>1, <2>5, <3>2, <3>3, Numbers, InFlightFinite
  <2> QED BY <2>4, <2>5
<1> QED BY <1>2, <1>8, <1>9

LEMMA BudgetNext ==
    ASSUME SessionInv, BudgetInv, [Next]_vars
    PROVE  BudgetInv'
<1>T. TypeInv /\ TypeOK /\ req \in [Requests -> Handler] /\ budget.outages \in Nat
  BY DEF SessionInv, TypeInv, TypeOK, Budget
<1>0. budget.ops > 0 => Begun(0).outages = budget.outages
  BY <1>T, BudgetStep
<1>1. ASSUME fails' = fails, clock' = clock,
             budget' = budget \/ (budget.ops > 0 /\ budget' = Begun(0)),
             \A r \in Requests : req'[r].op = "badlogin" => req'[r] = req[r]
      PROVE  BudgetInv'
  BY <1>T, <1>0, <1>1, BudgetQuiet
<1>3. ASSUME NEW r \in Requests, AuthRead(r) \/ AdminRead(r) PROVE BudgetInv'
  <2>1. CASE \E c \in Clients, e \in Emails, p \in Passwords : LoginRead(r, c, e, p)
    BY <1>T, <2>1, BudgetLoginRead
  <2>2. CASE ~\E c \in Clients, e \in Emails, p \in Passwords : LoginRead(r, c, e, p)
    <3>1. fails' = fails /\ clock' = clock /\ budget.ops > 0 /\ budget' = Begun(0)
      BY <1>3, <2>2 DEF AuthRead, AdminRead, RefreshRead, ChangeRead, ResetRequest, ConfirmRead,
              AdminResetRead, DeactivateRead, UpdateRead, CreateRead, Begin
    <3>2. req'[r].op # "badlogin"
      <4> USE <1>T DEF Begin, Idle
      <4>1. ASSUME NEW c \in Clients, RefreshRead(r, c) PROVE req'[r].op = Verdict(cookie[c])
        BY <4>1 DEF RefreshRead
      <4>2. \A t : Verdict(t) # "badlogin"
        BY DEF Verdict
      <4>3. ASSUME NEW u \in Users, NEW p \in Passwords, NEW f \in Tokens \cup {None},
                   ChangeRead(r, u, p, f)
            PROVE  req'[r].op = "change"
        BY <4>3 DEF ChangeRead
      <4>4. ASSUME NEW e \in Emails, ResetRequest(r, e) PROVE req'[r].op = "request"
        BY <4>4 DEF ResetRequest
      <4>5. ASSUME NEW i \in Links, NEW p \in Passwords, ConfirmRead(r, i, p)
            PROVE  req'[r].op = "confirm"
        BY <4>5 DEF ConfirmRead
      <4>6. ASSUME AdminRead(r) PROVE req'[r].op \in {"reset", "deactivate", "admin", "create"}
        <5>1. ASSUME NEW h, h.op \in {"reset", "deactivate", "admin", "create"}, Begin(r, h)
              PROVE  req'[r].op \in {"reset", "deactivate", "admin", "create"}
          BY <5>1
        <5>2. ASSUME NEW a \in Users, NEW u \in Users, AdminResetRead(r, a, u)
              PROVE  req'[r].op \in {"reset", "deactivate", "admin", "create"}
          BY <5>1, <5>2 DEF AdminResetRead
        <5>3. ASSUME NEW a \in Users, NEW u \in Users, NEW flag \in BOOLEAN,
                     UpdateRead(r, a, u, flag)
              PROVE  req'[r].op \in {"reset", "deactivate", "admin", "create"}
          BY <5>1, <5>3 DEF UpdateRead
        <5>4. ASSUME NEW a \in Users, NEW e \in Emails, CreateRead(r, a, e)
              PROVE  req'[r].op \in {"reset", "deactivate", "admin", "create"}
          BY <5>1, <5>4 DEF CreateRead
        <5>5. ASSUME NEW a \in Users, NEW u \in Users, DeactivateRead(r, a, u)
              PROVE  req'[r].op \in {"reset", "deactivate", "admin", "create"}
          BY <5>1, <5>5 DEF DeactivateRead
        <5> QED BY <4>6, <5>2, <5>3, <5>4, <5>5 DEF AdminRead
      <4> QED BY <1>3, <2>2, <4>1, <4>2, <4>3, <4>4, <4>5, <4>6 DEF AuthRead
    <3>3. \A x \in Requests : x # r => req'[x] = req[x]
      BY <1>3, <1>T, ReadsInformed DEF Begins, Begin
    <3> QED BY <1>1, <3>1, <3>2, <3>3
  <2> QED BY <2>1, <2>2
<1>4. ASSUME NEW r \in Requests, Commit(r) PROVE BudgetInv'
  <2>1. CASE RecordFailure(r) \/ LoginCommit(r)
    BY <1>T, <2>1, BudgetFailure, BudgetLogin
  <2>2. CASE ~RecordFailure(r) /\ ~LoginCommit(r)
    <3>1. fails' = fails /\ clock' = clock /\ budget' = budget
      BY <1>4, <2>2 DEF Commit, RefreshRefuse, RefreshSibling, RefreshRotate, ChangeCommit,
              ResetRequestCommit, ConfirmCommit, AdminResetCommit, UpdateCommit,
              DeactivateCommit, CreateCommit
    <3>2. \A x \in Requests : req'[x].op = "badlogin" => req'[x] = req[x]
      BY <1>T, <1>4, CommitsEnd DEF End, Idle
    <3> QED BY <1>1, <3>1, <3>2
  <2> QED BY <2>1, <2>2
<1>5. CASE Tick
  BY <1>T, <1>5, BudgetTick
<1>6. CASE SignOut \/ (\E i \in Links : DeliverPasswordReset(i)) \/ PruneTokens
           \/ PruneLinks \/ UNCHANGED vars
  <2>1. /\ fails' = fails /\ clock' = clock /\ req' = req
        /\ budget' = budget \/ (budget.ops > 0 /\ budget' = Begun(0))
    BY <1>6 DEF SignOut, Logout, LogoutAll, RevokeSession, DeliverPasswordReset, PruneTokens,
              PruneLinks, vars
  <2> QED BY <1>1, <2>1
<1> QED BY <1>3, <1>4, <1>5, <1>6 DEF Next

\* core/rate_limit.py: the failures counted against an address exceed the limit by no more
\* than the attempts that were past the check together, and one for each Redis command
\* that failed; with every state well typed.
THEOREM LoginBudgetHolds == Spec => []LoginBudget
<1>1. Init => BudgetInv
  <2> SUFFICES ASSUME Init PROVE BudgetInv
    OBVIOUS
  <2>1. TypeInv /\ budget.outages = MaxOutages /\ clock = 0
    BY SessionInit DEF SessionInv, Init
  <2>2. CurrentWindow \in Nat
    BY <2>1, DivMonotone, SessionsAssumption DEF CurrentWindow
  <2>3. \A e \in Emails : fails[e].window = 0 /\ Count(e) = 0 /\ InFlight(e) = {}
    BY DEF Init, Count, InFlight, Idle
  <2>4. Ceiling = LoginLimit + Cardinality(Requests) - 1 /\ MaxOutages \in Nat
    BY <2>1, SessionsAssumption, InFlightFinite DEF Ceiling
  <2>5. LoginLimit \in Nat \ {0} /\ Cardinality(Requests) \in Nat /\ Cardinality({}) = 0
    BY SessionsAssumption, InFlightFinite, FS_EmptySet
  <2> QED BY <2>1, <2>2, <2>3, <2>4, <2>5 DEF BudgetInv
<1>2. SessionInv /\ BudgetInv /\ [Next]_vars => BudgetInv'
  BY BudgetNext
<1>3. SessionInv /\ BudgetInv => LoginBudget
  <2> SUFFICES ASSUME SessionInv, BudgetInv PROVE LoginBudget
    OBVIOUS
  <2>1. TypeOK /\ TypeInv
    BY DEF SessionInv, TypeInv
  <2>2. ASSUME NEW e \in Emails PROVE Count(e) <= Ceiling
    <3>1. Count(e) + Cardinality(InFlight(e)) <= Ceiling
      BY DEF BudgetInv
    <3>2. Ceiling \in Int
      BY <2>1, Numbers, InFlightFinite DEF Ceiling
    <3> QED BY <2>1, <3>1, <3>2, Numbers, InFlightFinite
  <2> QED BY <2>1, <2>2 DEF LoginBudget, Ceiling
<1> QED BY <1>1, <1>2, <1>3, SessionsTyped, PTL DEF Spec
=============================================================================
