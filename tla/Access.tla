------------------------------- MODULE Access -------------------------------
(***************************************************************************)
(* Who may do what, and for how long: accounts, their roles and the reset   *)
(* links (internal/auth), the access tokens that carry the roles, and the   *)
(* role checks of the routes (internal/rbac, cmd/api/main.go, the sign-off  *)
(* handlers), behind the login limiter.  Sessions has the refresh tokens of *)
(* one account in detail; here an account has one or has none.              *)
(***************************************************************************)
EXTENDS LoginLimiter, TLC

CONSTANTS Users,    \* accounts, by their email
          First,    \* the administrator seed-admin creates
          NoUser,
          RoleSets, \* the sets of roles administrators choose from
          Links,    \* reset links
          NoLink,
          Slots,    \* requests the server handles at the same time
          TTL,      \* ticks an access token lives
          MaxAge    \* ticks after which a request is cut short

ASSUME AccessAssumption ==
  /\ First \in Users /\ NoUser \notin Users
  /\ NoLink \notin Links /\ IsFiniteSet(Slots)
  /\ TTL \in Nat \ {0} /\ MaxAge \in Nat

VARIABLES
  user,   \* users and user_roles
  link,   \* password_reset_tokens
  tokens, \* the access tokens that have not expired
  req,    \* the request each slot is serving
  held,   \* history: when each account last held each role
  uses    \* history: how often each link has set a password

accessVars == <<user, link, tokens, req, held, uses>>
vars == <<limiterVars, accessVars>>

-----------------------------------------------------------------------------
(* The routes: which roles RequireRole lets through, admin always being one. *)

Routes == [
  users |-> {}, intake |-> {"pm_pc", "encoder"}, receiving |-> {"pm_pc"},
  stage1a |-> {"encoder", "configurator", "qc"}, stage1b |-> {"configurator", "qc"},
  custody |-> {"pm_pc", "logistics"}, logistics |-> {"logistics"},
  installation |-> {"field_technician"}, acceptance |-> {"bsp_acceptance_officer"},
  defect |-> {"pm_pc", "encoder", "configurator", "qc", "logistics",
              "field_technician", "bsp_acceptance_officer"}]
Roles == {"admin"} \cup UNION {Routes[g] : g \in DOMAIN Routes}

ASSUME RoleSetsAssumption == RoleSets \subseteq SUBSET Roles

\* The sign-off handlers ask for the role of the step besides.
stage1ARoleForStep ==
  [encoded |-> "encoder", configured |-> "configurator", qc |-> "qc", qc_fail |-> "qc"]
stage1BRoleForStep == [configured |-> "configurator", qc |-> "qc", qc_fail |-> "qc"]

RequireRole(roles, allowed) == roles \cap (allowed \cup {"admin"}) # {}

\* auth.Middleware and RequireRole look at the token alone.
Passes(u, allowed) == \E t \in tokens : t.user = u /\ RequireRole(t.roles, allowed)
MaySign(u, group, role) == Passes(u, Routes[group]) /\ Passes(u, {role})

-----------------------------------------------------------------------------
(* Requests.  `roles' are those read for a token or chosen for an account,  *)
(* `gone' those a transaction has deleted or is about to, `since' the time  *)
(* the request came in.                                                     *)

Never == -(TTL + MaxAge)

Steps == {"idle", "token.roles", "token.issue", "reset.commit",
          "roles.delete", "roles.insert", "roles.commit"}
Requests == [at : Steps, user : Users \cup {NoUser}, link : Links \cup {NoLink},
             roles : SUBSET Roles, gone : SUBSET Roles, since : Nat]
Request(step, u, l, roles, gone) ==
  [at |-> step, user |-> u, link |-> l, roles |-> roles, gone |-> gone, since |-> now]
NoRequest == [at |-> "idle", user |-> NoUser, link |-> NoLink, roles |-> {}, gone |-> {},
              since |-> 0]

Begin(p, r) == req[p].at = "idle" /\ req' = [req EXCEPT ![p] = r]
Finish(p) == req' = [req EXCEPT ![p] = NoRequest]

\* A statement fails, or the 30 seconds are over; a transaction is undone.
Abort(p) ==
  /\ req[p].at # "idle"
  /\ Finish(p)
  /\ UNCHANGED <<limiterVars, user, link, tokens, held, uses>>

-----------------------------------------------------------------------------
(* Login and Refresh: both read the roles and then issue a token.           *)

\* Mutant: that the query found no row is not noticed.
MayLogInUnread(u) == TRUE

MayLogIn(u) == user[u].here /\ user[u].active

\* The limiter, then the account and its password.
Login(p, u, ip) ==
  /\ Admit(ip)
  /\ IF MayLogIn(u)
     THEN Begin(p, Request("token.roles", u, NoLink, {}, {}))
     ELSE UNCHANGED req
  /\ UNCHANGED <<user, link, tokens, held, uses>>

\* The account is not looked at again: is_active has no say here.
Refresh(p, u) ==
  /\ user[u].session
  /\ Begin(p, Request("token.roles", u, NoLink, {}, {}))
  /\ UNCHANGED <<limiterVars, user, link, tokens, held, uses>>

rolesForUser(p) ==
  /\ req[p].at = "token.roles"
  /\ req' = [req EXCEPT ![p].at = "token.issue", ![p].roles = user[req[p].user].roles]
  /\ UNCHANGED <<limiterVars, user, link, tokens, held, uses>>

Token(u, roles) == [user |-> u, roles |-> roles, born |-> now]

IssueAccessToken(p) ==
  LET r == req[p] IN
  /\ r.at = "token.issue"
  /\ tokens' = tokens \cup {Token(r.user, r.roles)}
  /\ user' = [user EXCEPT ![r.user].session = TRUE]
  /\ Finish(p)
  /\ UNCHANGED <<limiterVars, link, held, uses>>

\* Logout revokes the refresh token; the access token is only dropped by the
\* client that has it.
Logout(u) ==
  /\ user' = [user EXCEPT ![u].session = FALSE]
  /\ UNCHANGED <<limiterVars, link, tokens, req, held, uses>>

-----------------------------------------------------------------------------
(* Reset links.                                                             *)

RequestPasswordReset(l, u) ==
  /\ user[u].here /\ user[u].active
  /\ link[l].user = NoUser
  /\ link' = [link EXCEPT ![l] = [user |-> u, open |-> TRUE]]

ForgotPassword(l, u) ==
  /\ RequestPasswordReset(l, u)
  /\ UNCHANGED <<limiterVars, user, tokens, req, held, uses>>

\* Mutant: neither used_at nor expires_at is looked at.
LinkOpenAny(l) == link[l].user # NoUser

LinkOpen(l) == link[l].user # NoUser /\ link[l].open

ResetPassword(p, l) ==
  /\ LinkOpen(l)
  /\ Begin(p, Request("reset.commit", link[l].user, l, {}, {}))
  /\ UNCHANGED <<limiterVars, user, link, tokens, held, uses>>

\* The transaction asks nothing again.
ResetCommit(p) ==
  LET r == req[p] IN
  /\ r.at = "reset.commit"
  /\ user' = [user EXCEPT ![r.user].session = FALSE]
  /\ link' = [link EXCEPT ![r.link].open = FALSE]
  /\ uses' = [uses EXCEPT ![r.link] = @ + 1]
  /\ Finish(p)
  /\ UNCHANGED <<limiterVars, tokens, held>>

\* PasswordResetTTL, one hour.
LinkExpires(l) ==
  /\ LinkOpen(l)
  /\ link' = [link EXCEPT ![l].open = FALSE]
  /\ UNCHANGED <<limiterVars, user, tokens, req, held, uses>>

-----------------------------------------------------------------------------
(* Administration, by whoever has a token that says admin.                  *)

Holds(u, roles) == held' = [held EXCEPT ![u] = [r \in Roles |->
                              IF r \in roles \cup user[u].roles THEN now ELSE @[r]]]

\* ErrEmailInUse, or the account and its roles in one transaction.
InsertUser(u, roles) ==
  /\ ~user[u].here
  /\ user' = [user EXCEPT ![u] = [here |-> TRUE, active |-> TRUE, session |-> FALSE,
                                  roles |-> roles]]

CreateUser(a, u, roles) ==
  /\ Passes(a, Routes.users)
  /\ InsertUser(u, roles)
  /\ Holds(u, roles)
  /\ UNCHANGED <<limiterVars, link, tokens, req, uses>>

UpdateUser(a, u, active) ==
  /\ Passes(a, Routes.users)
  /\ user[u].here
  /\ user' = [user EXCEPT ![u].active = active]
  /\ UNCHANGED <<limiterVars, link, tokens, req, held, uses>>

AdminSetPassword(u) == user' = [user EXCEPT ![u].session = FALSE]

SetUserPassword(a, u) ==
  /\ Passes(a, Routes.users)
  /\ AdminSetPassword(u)
  /\ UNCHANGED <<limiterVars, link, tokens, req, held, uses>>

\* SetUserRoles: DELETE all, INSERT each, commit.  The DELETE works on the rows
\* there were when it began, and waits for a transaction that deletes one too.
SetUserRoles(p, a, u, roles) ==
  /\ Passes(a, Routes.users)
  /\ user[u].here
  /\ Begin(p, Request("roles.delete", u, NoLink, roles, user[u].roles))
  /\ UNCHANGED <<limiterVars, user, link, tokens, held, uses>>

\* The other transactions that have not committed and touch roles of p's account.
Rivals(p, steps) == {q \in Slots \ {p} : req[q].at \in steps /\ req[q].user = req[p].user}

RolesDelete(p) ==
  /\ req[p].at = "roles.delete"
  /\ \A q \in Rivals(p, {"roles.insert", "roles.commit"}) : req[q].gone \cap req[p].gone = {}
  /\ req' = [req EXCEPT ![p].at = "roles.insert", ![p].gone = @ \cap user[req[p].user].roles]
  /\ UNCHANGED <<limiterVars, user, link, tokens, held, uses>>

\* The primary key refuses a row that is there, and waits for those who delete
\* or insert it.
RolesInsert(p) ==
  LET r == req[p] IN
  /\ r.at = "roles.insert"
  /\ \A q \in Rivals(p, {"roles.insert", "roles.commit"}) : req[q].gone \cap r.roles = {}
  /\ \A q \in Rivals(p, {"roles.commit"}) : req[q].roles \cap r.roles = {}
  /\ IF r.roles \cap (user[r.user].roles \ r.gone) = {}
     THEN req' = [req EXCEPT ![p].at = "roles.commit"]
     ELSE Finish(p)
  /\ UNCHANGED <<limiterVars, user, link, tokens, held, uses>>

RolesCommit(p) ==
  LET r == req[p]
      roles == (user[r.user].roles \ r.gone) \cup r.roles IN
  /\ r.at = "roles.commit"
  /\ user' = [user EXCEPT ![r.user].roles = roles]
  /\ Holds(r.user, roles)
  /\ Finish(p)
  /\ UNCHANGED <<limiterVars, link, tokens, uses>>

-----------------------------------------------------------------------------
\* Mutant: the token is accepted one tick after its end.
AliveLonger(t) == now + 1 <= t.born + TTL

Alive(t) == now + 1 < t.born + TTL

\* No request is older than MaxAge; tokens expire.
Time ==
  /\ Tick
  /\ \A p \in Slots : req[p].at # "idle" => now < req[p].since + MaxAge
  /\ tokens' = {t \in tokens : Alive(t)}
  /\ held' = [u \in Users |-> [r \in Roles |->
                IF r \in user[u].roles THEN now + 1 ELSE held[u][r]]]
  /\ UNCHANGED <<user, link, req, uses>>

\* The process starts again: the requests it was serving are cut short.
Crash ==
  /\ Restart
  /\ req' = [p \in Slots |-> NoRequest]
  /\ UNCHANGED <<user, link, tokens, held, uses>>

Init ==
  /\ LimiterInit
  /\ user = [u \in Users |-> [here |-> u = First, active |-> u = First, session |-> FALSE,
                              roles |-> IF u = First THEN {"admin"} ELSE {}]]
  /\ link = [l \in Links |-> [user |-> NoUser, open |-> FALSE]]
  /\ tokens = {}
  /\ req = [p \in Slots |-> NoRequest]
  /\ held = [u \in Users |-> [r \in Roles |-> IF r \in user[u].roles THEN 0 ELSE Never]]
  /\ uses = [l \in Links |-> 0]

\* Bound: nobody edits the first administrator.
Others == Users \ {First}

Next ==
  \/ \E p \in Slots :
       \/ \E u \in Users, ip \in Ips : Login(p, u, ip)
       \/ \E u \in Users : Refresh(p, u)
       \/ rolesForUser(p) \/ IssueAccessToken(p)
       \/ \E l \in Links : ResetPassword(p, l)
       \/ ResetCommit(p)
       \/ \E a \in Users, u \in Others, roles \in RoleSets : SetUserRoles(p, a, u, roles)
       \/ RolesDelete(p) \/ RolesInsert(p) \/ RolesCommit(p)
       \/ Abort(p)
  \/ \E u \in Users : Logout(u)
  \/ \E l \in Links, u \in Others : ForgotPassword(l, u)
  \/ \E l \in Links : LinkExpires(l)
  \/ \E a \in Users, u \in Others :
       \/ \E roles \in RoleSets : CreateUser(a, u, roles)
       \/ \E active \in BOOLEAN : UpdateUser(a, u, active)
       \/ SetUserPassword(a, u)
  \/ \E ip \in Ips : TurnAway(ip) /\ UNCHANGED accessVars
  \/ Time \/ Crash

Spec == Init /\ [][Next]_vars
Alike == Permutations(Slots) \cup Permutations(Attempts)

-----------------------------------------------------------------------------
(* Properties.                                                              *)

\* The tables, tokens and slots hold what they may; a token is never issued to
\* someone without an account, nor a session kept for one.
TypeOK ==
  /\ LimiterTypeOK
  /\ user \in [Users -> [here : BOOLEAN, active : BOOLEAN, session : BOOLEAN,
                         roles : SUBSET Roles]]
  /\ link \in [Links -> [user : Users \cup {NoUser}, open : BOOLEAN]]
  /\ \A t \in tokens : t.user \in Users /\ t.roles \subseteq Roles /\ t.born \in 0 .. now
  /\ req \in [Slots -> Requests]
  /\ held \in [Users -> [Roles -> Never .. now]]
  /\ uses \in [Links -> Nat]
  /\ \A u \in Users : ~user[u].here => user[u].roles = {} /\ ~user[u].session

\* A role opens its routes and sign-offs at most the life of a token, and of the
\* request that got it, after it was taken away.
RecentlyHeld(u, roles) == \E r \in roles : held[u][r] + TTL + MaxAge > now

RolesLapse ==
  \A u \in Users :
    /\ \A g \in DOMAIN Routes : Passes(u, Routes[g]) => RecentlyHeld(u, Routes[g] \cup {"admin"})
    /\ \A s \in DOMAIN stage1ARoleForStep :
         MaySign(u, "stage1a", stage1ARoleForStep[s])
           => RecentlyHeld(u, {stage1ARoleForStep[s], "admin"})

\* A reset link sets no more passwords than there were requests that looked at
\* it before the first of them used it.
LinkUsesBounded ==
  \A l \in Links :
    uses[l] + Cardinality({p \in Slots : req[p].link = l}) <= Cardinality(Slots)
=============================================================================
