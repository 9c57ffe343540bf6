---------------------------- MODULE Access_proofs ----------------------------
(***************************************************************************)
(* Access and the limiter in front of it, for any number of accounts,       *)
(* addresses, attempts, reset links and overlapping requests, any limit and *)
(* window, and any life of a token and of a request.                        *)
(***************************************************************************)
EXTENDS Access, FiniteSetTheorems, TLAPS

(* The limiter.                                                             *)

Entries == [id : Attempts, time : Nat]

\* The limiter remembers every attempt it let through that is still in the
\* window, and attempts are not in the future.
Remembered ==
  \A ip \in Ips :
    /\ \A x \in admitted[ip] : x.time <= now
    /\ {x \in admitted[ip] : x.time > now - Window} \subseteq attempts[ip]

\* No window, not only those that end now, has more than Limit attempts.
WindowsFull ==
  \A ip \in Ips : \A t \in Int :
    IsFiniteSet(Within(ip, t)) /\ Cardinality(Within(ip, t)) <= Limit

LimiterInv ==
  /\ LimiterTypeOK /\ Remembered /\ WindowsFull
  /\ \A ip \in Ips : IsFiniteSet(attempts[ip])

LEMMA LimiterInvInit == LimiterInit => LimiterInv
<1> SUFFICES ASSUME LimiterInit PROVE LimiterInv
  OBVIOUS
<1>1. LimiterTypeOK /\ Remembered
  BY DEF LimiterInit, LimiterTypeOK, Remembered
<1>2. \A ip \in Ips : IsFiniteSet(attempts[ip])
  BY FS_EmptySet DEF LimiterInit
<1>3. \A ip \in Ips, t \in Int : Within(ip, t) = {}
  BY DEF LimiterInit, Within
<1>4. WindowsFull
  BY <1>3, FS_EmptySet, LimiterAssumption DEF WindowsFull
<1>5. QED BY <1>1, <1>2, <1>4 DEF LimiterInv

LEMMA OneMore ==
  ASSUME NEW S, NEW x, IsFiniteSet(S)
  PROVE  /\ IsFiniteSet(S \cup {x})
         /\ \A n \in Int : Cardinality(S) < n => Cardinality(S \cup {x}) <= n
<1>1. IsFiniteSet(S \cup {x})
  BY FS_AddElement
<1>2. Cardinality(S \cup {x}) = IF x \in S THEN Cardinality(S) ELSE Cardinality(S) + 1
  BY FS_AddElement
<1>3. Cardinality(S) \in Nat
  BY FS_CardinalityType
<1>4. QED BY <1>1, <1>2, <1>3

\* An attempt is let through: a window that contains the present moment holds it
\* besides attempts that are all remembered, fewer than Limit.
LEMMA AdmitKeeps ==
  ASSUME LimiterInv, NEW ip \in Ips, Admit(ip)
  PROVE  LimiterInv'
<1> DEFINE kept == Recent(attempts[ip])
<1> USE DEF LimiterInv
<1>1. PICK a \in Attempts :
        /\ attempts' = [attempts EXCEPT ![ip] = kept \cup {At(a, now)}]
        /\ admitted' = [admitted EXCEPT ![ip] = @ \cup {At(a, now)}]
        /\ now' = now
  BY DEF Admit, FreshAttempts
<1> DEFINE new == At(a, now)
<1>2. new \in Entries /\ new.time = now
  BY DEF LimiterTypeOK, At, Entries
<1>3. kept \subseteq attempts[ip]
  BY DEF Recent
<1>4. attempts[ip] \subseteq Entries /\ admitted[ip] \subseteq Entries
  BY DEF LimiterTypeOK, Entries
<1>5. LimiterTypeOK'
  BY <1>1, <1>2, <1>3, <1>4 DEF LimiterTypeOK, Entries
<1>6. /\ \A q \in Ips \ {ip} : attempts'[q] = attempts[q] /\ admitted'[q] = admitted[q]
      /\ attempts'[ip] = kept \cup {new}
      /\ admitted'[ip] = admitted[ip] \cup {new}
  BY <1>1 DEF LimiterTypeOK
<1>7. Remembered'
  <2>1. \A x \in admitted'[ip] : x.time <= now
    BY <1>2, <1>6 DEF Remembered, LimiterTypeOK
  <2>2. {x \in admitted'[ip] : x.time > now - Window} \subseteq kept \cup {new}
    BY <1>6 DEF Remembered, Recent
  <2>3. QED BY <1>1, <1>6, <2>1, <2>2 DEF Remembered
<1>8. \A q \in Ips : IsFiniteSet(attempts'[q])
  <2>1. IsFiniteSet(kept)
    BY <1>3, FS_Subset
  <2>2. IsFiniteSet(kept \cup {new})
    BY <2>1, OneMore
  <2>3. QED BY <1>6, <2>2
<1>9. WindowsFull'
  <2> SUFFICES ASSUME NEW q \in Ips, NEW t \in Int
               PROVE  IsFiniteSet(Within(q, t)') /\ Cardinality(Within(q, t)') <= Limit
    BY DEF WindowsFull
  <2>1. CASE q # ip \/ ~(t < now /\ now <= t + Window)
    <3>1. Within(q, t)' = Within(q, t)
      BY <1>2, <1>6, <2>1 DEF Within
    <3>2. QED BY <3>1 DEF WindowsFull
  <2>2. CASE q = ip /\ t < now /\ now <= t + Window
    <3>1. Within(ip, t)' \subseteq kept \cup {new}
      <4> SUFFICES ASSUME NEW x \in Within(ip, t)', x # new
                   PROVE  x \in kept
        OBVIOUS
      <4>1. x \in admitted[ip] /\ t < x.time
        BY <1>6 DEF Within
      <4>2. x.time \in Nat
        BY <1>4, <4>1 DEF Entries
      <4>3. x.time > now - Window
        BY <2>2, <4>1, <4>2, LimiterAssumption DEF LimiterTypeOK
      <4>4. QED BY <4>1, <4>3 DEF Remembered, Recent
    <3>2. IsFiniteSet(kept) /\ Cardinality(kept) \in Nat
      BY <1>3, FS_Subset, FS_CardinalityType
    <3>3. Cardinality(kept) < Limit
      BY DEF Admit, Room
    <3>4. IsFiniteSet(kept \cup {new}) /\ Cardinality(kept \cup {new}) <= Limit
      <4>1. Limit \in Int
        BY LimiterAssumption
      <4> HIDE DEF kept, new
      <4>2. IsFiniteSet(kept \cup {new})
        BY <3>2, OneMore
      <4>3. \A n \in Int : Cardinality(kept) < n => Cardinality(kept \cup {new}) <= n
        BY <3>2, OneMore
      <4>4. QED BY <3>3, <4>1, <4>2, <4>3
    <3>5. /\ IsFiniteSet(Within(ip, t)')
          /\ Cardinality(Within(ip, t)') <= Cardinality(kept \cup {new})
      BY <3>1, <3>4, FS_Subset
    <3>6. Cardinality(Within(ip, t)') \in Nat /\ Cardinality(kept \cup {new}) \in Nat
      BY <3>4, <3>5, FS_CardinalityType
    <3>7. QED BY <2>2, <3>4, <3>5, <3>6, LimiterAssumption
  <2>3. QED BY <2>1, <2>2
<1>10. QED BY <1>5, <1>7, <1>8, <1>9

LEMMA LimiterInvNext == LimiterInv /\ [LimiterNext]_limiterVars => LimiterInv'
<1> SUFFICES ASSUME LimiterInv, [LimiterNext]_limiterVars PROVE LimiterInv'
  OBVIOUS
<1> USE DEF LimiterInv
<1>1. ASSUME NEW ip \in Ips, TurnAway(ip) PROVE LimiterInv'
  <2>1. /\ admitted' = admitted /\ now' = now
        /\ \A q \in Ips : attempts'[q] = IF q = ip THEN Recent(attempts[ip]) ELSE attempts[q]
    BY <1>1 DEF TurnAway, LimiterTypeOK
  <2>2. Recent(attempts[ip]) \subseteq attempts[ip]
    BY DEF Recent
  <2>3. LimiterTypeOK'
    BY <1>1, <2>1, <2>2 DEF TurnAway, LimiterTypeOK
  <2>4. Remembered'
    BY <2>1 DEF Remembered, Recent
  <2>5. \A q \in Ips : IsFiniteSet(attempts'[q])
    BY <2>1, <2>2, FS_Subset
  <2>6. WindowsFull'
    BY <2>1 DEF WindowsFull, Within
  <2>7. QED BY <2>3, <2>4, <2>5, <2>6
<1>2. CASE Restart
  <2>1. LimiterTypeOK' /\ Remembered'
    BY <1>2 DEF Restart, LimiterTypeOK, Remembered
  <2>2. \A ip \in Ips : IsFiniteSet(attempts'[ip])
    BY <1>2, FS_EmptySet DEF Restart
  <2>3. \A ip \in Ips, t \in Int : Within(ip, t)' = {}
    BY <1>2 DEF Restart, Within
  <2>4. WindowsFull'
    BY <2>3, FS_EmptySet, LimiterAssumption DEF WindowsFull
  <2>5. QED BY <2>1, <2>2, <2>4
<1>3. CASE Tick
  <2>1. LimiterTypeOK' /\ WindowsFull'
    BY <1>3 DEF Tick, LimiterTypeOK, WindowsFull, Within
  <2>2. \A ip \in Ips : \A x \in admitted[ip] : x.time \in Nat
    BY DEF LimiterTypeOK
  <2>3. Remembered'
    BY <1>3, <2>2, LimiterAssumption DEF Tick, Remembered, LimiterTypeOK
  <2>4. QED BY <1>3, <2>1, <2>3 DEF Tick
<1>4. CASE UNCHANGED limiterVars
  BY <1>4 DEF limiterVars, LimiterTypeOK, Remembered, WindowsFull, Within
<1>5. QED BY <1>1, <1>2, <1>3, <1>4, AdmitKeeps DEF LimiterNext

\* What anybody does to accounts is no business of the limiter.
LEMMA LimiterSteps == [Next]_vars => [LimiterNext]_limiterVars
<1> SUFFICES ASSUME [Next]_vars PROVE LimiterNext \/ UNCHANGED limiterVars
  OBVIOUS
<1> USE DEF LimiterNext
<1>1. ASSUME NEW p \in Slots,
             \/ \E u \in Users, ip \in Ips : Login(p, u, ip)
             \/ \E u \in Users : Refresh(p, u)
             \/ rolesForUser(p) \/ IssueAccessToken(p)
             \/ \E l \in Links : ResetPassword(p, l)
             \/ ResetCommit(p)
             \/ \E a \in Users, u \in Others, roles \in RoleSets : SetUserRoles(p, a, u, roles)
             \/ RolesDelete(p) \/ RolesInsert(p) \/ RolesCommit(p)
             \/ Abort(p)
      PROVE  LimiterNext \/ UNCHANGED limiterVars
  BY <1>1 DEF Login, Refresh, rolesForUser, IssueAccessToken, ResetPassword, ResetCommit,
              SetUserRoles, RolesDelete, RolesInsert, RolesCommit, Abort
<1>2. ASSUME \/ \E u \in Users : Logout(u)
             \/ \E l \in Links, u \in Others : ForgotPassword(l, u)
             \/ \E l \in Links : LinkExpires(l)
             \/ \E a \in Users, u \in Others :
                  \/ \E roles \in RoleSets : CreateUser(a, u, roles)
                  \/ \E active \in BOOLEAN : UpdateUser(a, u, active)
                  \/ SetUserPassword(a, u)
      PROVE  LimiterNext \/ UNCHANGED limiterVars
  BY <1>2 DEF Logout, ForgotPassword, LinkExpires, CreateUser, UpdateUser, SetUserPassword
<1>3. CASE \E ip \in Ips : TurnAway(ip) /\ UNCHANGED accessVars
  BY <1>3
<1>4. CASE Time \/ Crash
  BY <1>4 DEF Time, Crash
<1>5. CASE UNCHANGED vars
  BY <1>5 DEF vars
<1>6. QED BY <1>1, <1>2, <1>3, <1>4, <1>5 DEF Next

\* The login limit holds in every window, wherever it begins.
THEOREM LoginsBounded == Spec => []WindowBounded
<1>1. LimiterInv => WindowBounded
  <2> SUFFICES ASSUME LimiterInv, NEW ip \in Ips, NEW t \in -Window .. now
               PROVE  Cardinality(Within(ip, t)) <= Limit
    BY DEF WindowBounded
  <2>1. t \in Int
    BY LimiterAssumption DEF LimiterInv, LimiterTypeOK
  <2>2. QED BY <2>1 DEF LimiterInv, WindowsFull
<1>2. Init => LimiterInv
  BY LimiterInvInit DEF Init
<1>3. LimiterInv /\ [Next]_vars => LimiterInv'
  BY LimiterInvNext, LimiterSteps
<1>4. QED BY <1>1, <1>2, <1>3, PTL DEF Spec

-----------------------------------------------------------------------------
(* Types of the accounts.                                                   *)

UserRows == [here : BOOLEAN, active : BOOLEAN, session : BOOLEAN, roles : SUBSET Roles]
LinkRows == [user : Users \cup {NoUser}, open : BOOLEAN]

UsersOK ==
  /\ user \in [Users -> UserRows]
  /\ \A u \in Users : ~user[u].here => user[u].roles = {} /\ ~user[u].session

\* Whose request it is: of an account that is there, or with a link that was sent.
RequestOK(r) ==
  /\ r \in Requests
  /\ r.at # "idle" => r.user \in Users
  /\ r.at \notin {"idle", "reset.commit"} => user[r.user].here
  /\ r.at = "reset.commit" => r.link \in Links /\ link[r.link].user # NoUser

SlotsOK == req = [p \in Slots |-> req[p]] /\ \A p \in Slots : RequestOK(req[p])

TokensOK == \A t \in tokens : t.user \in Users /\ t.roles \subseteq Roles /\ t.born \in 0 .. now

TypeInv ==
  /\ LimiterTypeOK /\ UsersOK /\ link \in [Links -> LinkRows] /\ TokensOK /\ SlotsOK
  /\ held \in [Users -> [Roles -> Never .. now]] /\ uses \in [Links -> Nat]

LEMMA TypeInvTypes == TypeInv => TypeOK
BY DEF TypeInv, UsersOK, UserRows, LinkRows, TokensOK, SlotsOK, RequestOK, TypeOK

LEMMA RequestType ==
  ASSUME now \in Nat, NEW step \in Steps, NEW u \in Users \cup {NoUser},
         NEW l \in Links \cup {NoLink}, NEW roles \in SUBSET Roles, NEW gone \in SUBSET Roles
  PROVE  Request(step, u, l, roles, gone) \in Requests
BY DEF Request, Requests

LEMMA NoRequestOK == now \in Nat => RequestOK(NoRequest) /\ NoRequest.at = "idle" /\ NoRequest.link = NoLink
<1> SUFFICES ASSUME now \in Nat
             PROVE  RequestOK(NoRequest) /\ NoRequest.at = "idle" /\ NoRequest.link = NoLink
  OBVIOUS
<1>1. NoRequest \in Requests
  BY DEF NoRequest, Requests, Steps
<1>2. QED BY <1>1 DEF RequestOK, NoRequest

\* Accounts and links that are there do not go, so a slot stays what it was.
LEMMA OthersStayOK ==
  ASSUME NEW r, RequestOK(r),
         \A u \in Users : user[u].here => user'[u].here,
         \A l \in Links : link[l].user # NoUser => link'[l].user # NoUser
  PROVE  RequestOK(r)'
BY DEF RequestOK

\* Of a step that is taken by one slot, or by none, only its request is new.
LEMMA SlotMoves ==
  ASSUME SlotsOK, NEW p \in Slots, NEW r, req' = [req EXCEPT ![p] = r], RequestOK(r)',
         \A u \in Users : user[u].here => user'[u].here,
         \A l \in Links : link[l].user # NoUser => link'[l].user # NoUser
  PROVE  SlotsOK'
<1>1. req' = [q \in Slots |-> IF q = p THEN r ELSE req[q]]
  BY DEF SlotsOK
<1>2. \A q \in Slots : RequestOK(req[q])'
  BY OthersStayOK DEF SlotsOK
<1>3. QED BY <1>1, <1>2 DEF SlotsOK

\* A step that changes no table: the request is all there is to it.
TablesLeft == UNCHANGED <<user, link, tokens, held, uses>> /\ now' = now /\ LimiterTypeOK'

LEMMA RequestMoves ==
  ASSUME TypeInv, TablesLeft, NEW p \in Slots, NEW r, RequestOK(r),
         req' = [req EXCEPT ![p] = r]
  PROVE  TypeInv'
<1>1. RequestOK(r)'
  BY DEF TablesLeft, RequestOK
<1>2. SlotsOK'
  BY <1>1, SlotMoves DEF TypeInv, TablesLeft
<1>3. QED BY <1>2 DEF TypeInv, TablesLeft, UsersOK, TokensOK

\* What a slot serves, in detail.
LEMMA SlotTyped ==
  ASSUME TypeInv, NEW p \in Slots
  PROVE  /\ RequestOK(req[p])
         /\ req[p].at \in Steps /\ req[p].user \in Users \cup {NoUser}
         /\ req[p].link \in Links \cup {NoLink}
         /\ req[p].roles \in SUBSET Roles /\ req[p].gone \in SUBSET Roles
         /\ req[p].since \in Nat
BY DEF TypeInv, SlotsOK, RequestOK, Requests

\* A slot goes on with other roles, at a step of the same kind.
LEMMA StepOn ==
  ASSUME TypeInv, NEW p \in Slots, NEW step \in Steps \ {"idle", "reset.commit"},
         NEW roles \in SUBSET Roles, NEW gone \in SUBSET Roles,
         req[p].at \notin {"idle", "reset.commit"},
         TablesLeft,
         req' = [req EXCEPT ![p] = [req[p] EXCEPT !.at = step, !.roles = roles, !.gone = gone]]
  PROVE  TypeInv'
<1> DEFINE r == [req[p] EXCEPT !.at = step, !.roles = roles, !.gone = gone]
<1>1. RequestOK(r)
  BY SlotTyped DEF RequestOK, Requests
<1>2. QED BY <1>1, RequestMoves

LEMMA Finishes ==
  ASSUME TypeInv, NEW p \in Slots, TablesLeft, Finish(p)
  PROVE  TypeInv'
<1>1. RequestOK(NoRequest)
  BY NoRequestOK DEF TypeInv, LimiterTypeOK
<1>2. QED BY <1>1, RequestMoves DEF Finish

\* A request begins, for an account that is there.
LEMMA Begins ==
  ASSUME TypeInv, NEW p \in Slots, TablesLeft,
         NEW step \in Steps \ {"idle", "reset.commit"}, NEW u \in Users, user[u].here,
         NEW roles \in SUBSET Roles, NEW gone \in SUBSET Roles,
         Begin(p, Request(step, u, NoLink, roles, gone))
  PROVE  TypeInv'
<1>1. Request(step, u, NoLink, roles, gone) \in Requests
  BY RequestType DEF TypeInv, LimiterTypeOK
<1>2. RequestOK(Request(step, u, NoLink, roles, gone))
  BY <1>1 DEF RequestOK, Request
<1>3. QED BY <1>2, RequestMoves DEF Begin

LEMMA LimiterLeft ==
  ASSUME TypeInv, UNCHANGED limiterVars
  PROVE  now' = now /\ LimiterTypeOK'
BY DEF TypeInv, limiterVars, LimiterTypeOK

LEMMA AdmitTyped ==
  ASSUME TypeInv, NEW ip \in Ips, Admit(ip)
  PROVE  now' = now /\ LimiterTypeOK'
<1>1. PICK a \in Attempts :
        /\ attempts' = [attempts EXCEPT ![ip] = Recent(attempts[ip]) \cup {At(a, now)}]
        /\ admitted' = [admitted EXCEPT ![ip] = @ \cup {At(a, now)}]
        /\ now' = now
  BY DEF Admit, FreshAttempts
<1>2. At(a, now) \in Entries
  BY DEF TypeInv, LimiterTypeOK, At, Entries
<1>3. Recent(attempts[ip]) \subseteq attempts[ip]
  BY DEF Recent
<1>4. QED BY <1>1, <1>2, <1>3 DEF TypeInv, LimiterTypeOK, Entries

\* The requests that read and decide.
LEMMA TypeReads ==
  ASSUME TypeInv, NEW p \in Slots,
         \/ \E u \in Users, ip \in Ips : Login(p, u, ip)
         \/ \E u \in Users : Refresh(p, u)
         \/ rolesForUser(p)
         \/ \E l \in Links : ResetPassword(p, l)
         \/ \E a \in Users, u \in Others, roles \in RoleSets : SetUserRoles(p, a, u, roles)
         \/ RolesDelete(p) \/ RolesInsert(p) \/ Abort(p)
  PROVE  TypeInv'
<1> USE DEF TablesLeft
<1>1. ASSUME NEW u \in Users, NEW ip \in Ips, Login(p, u, ip) PROVE TypeInv'
  <2>1. TablesLeft
    BY <1>1, AdmitTyped DEF Login
  <2>2. CASE MayLogIn(u)
    <3>1. Begin(p, Request("token.roles", u, NoLink, {}, {}))
      BY <1>1, <2>2 DEF Login
    <3>2. QED BY <2>1, <2>2, <3>1, Begins DEF MayLogIn, Steps
  <2>3. CASE ~MayLogIn(u)
    <3>1. req' = req
      BY <1>1, <2>3 DEF Login
    <3>2. QED BY <2>1, <3>1 DEF TypeInv, UsersOK, TokensOK, SlotsOK, RequestOK
  <2>4. QED BY <2>2, <2>3
<1>2. ASSUME NEW u \in Users, Refresh(p, u) PROVE TypeInv'
  <2>1. user[u].here
    BY <1>2 DEF Refresh, TypeInv, UsersOK, UserRows
  <2>2. TablesLeft /\ Begin(p, Request("token.roles", u, NoLink, {}, {}))
    BY <1>2, LimiterLeft DEF Refresh
  <2>3. QED BY <2>1, <2>2, Begins DEF Steps
<1>3. CASE rolesForUser(p)
  <2>1. req[p].user \in Users /\ user[req[p].user].roles \in SUBSET Roles
    BY <1>3, SlotTyped DEF rolesForUser, RequestOK, TypeInv, UsersOK, UserRows
  <2>2. req' = [req EXCEPT ![p] = [req[p] EXCEPT !.at = "token.issue",
                  !.roles = user[req[p].user].roles, !.gone = req[p].gone]]
    BY <1>3, SlotTyped DEF rolesForUser, TypeInv, SlotsOK, RequestOK, Requests
  <2>3. TablesLeft
    BY <1>3, LimiterLeft DEF rolesForUser
  <2>4. /\ "token.issue" \in Steps \ {"idle", "reset.commit"}
        /\ req[p].at \notin {"idle", "reset.commit"}
        /\ req[p].gone \in SUBSET Roles
    BY <1>3, SlotTyped DEF rolesForUser, Steps
  <2> DEFINE had == user[req[p].user].roles
  <2> HIDE DEF had
  <2>5. QED BY <2>1, <2>2, <2>3, <2>4, StepOn DEF had
<1>4. ASSUME NEW l \in Links, ResetPassword(p, l) PROVE TypeInv'
  <2> DEFINE r == Request("reset.commit", link[l].user, l, {}, {})
  <2>1. link[l].user \in Users /\ link[l].user # NoUser
    BY <1>4 DEF ResetPassword, LinkOpen, TypeInv, LinkRows
  <2>2. r \in Requests
    BY <2>1, RequestType DEF TypeInv, LimiterTypeOK, Steps
  <2>3. RequestOK(r)
    BY <2>1, <2>2 DEF RequestOK, Request
  <2>4. TablesLeft /\ req' = [req EXCEPT ![p] = r]
    BY <1>4, LimiterLeft DEF ResetPassword, Begin
  <2>5. QED BY <2>3, <2>4, RequestMoves
<1>5. ASSUME NEW a \in Users, NEW u \in Others, NEW roles \in RoleSets,
             SetUserRoles(p, a, u, roles)
      PROVE  TypeInv'
  <2>1. u \in Users /\ roles \in SUBSET Roles
    BY RoleSetsAssumption DEF Others
  <2>2. user[u].here /\ user[u].roles \in SUBSET Roles
    BY <1>5, <2>1 DEF SetUserRoles, TypeInv, UsersOK, UserRows
  <2>3. TablesLeft /\ Begin(p, Request("roles.delete", u, NoLink, roles, user[u].roles))
    BY <1>5, LimiterLeft DEF SetUserRoles
  <2>4. QED BY <2>1, <2>2, <2>3, Begins DEF Steps
<1>6. CASE RolesDelete(p)
  <2>1. req[p].gone \cap user[req[p].user].roles \in SUBSET Roles
    BY SlotTyped
  <2>2. req' = [req EXCEPT ![p] = [req[p] EXCEPT !.at = "roles.insert", !.roles = req[p].roles,
                  !.gone = req[p].gone \cap user[req[p].user].roles]]
    BY <1>6, SlotTyped DEF RolesDelete, TypeInv, SlotsOK, RequestOK, Requests
  <2>3. TablesLeft
    BY <1>6, LimiterLeft DEF RolesDelete
  <2>4. /\ "roles.insert" \in Steps \ {"idle", "reset.commit"}
        /\ req[p].at \notin {"idle", "reset.commit"}
        /\ req[p].roles \in SUBSET Roles
    BY <1>6, SlotTyped DEF RolesDelete, Steps
  <2>5. QED BY <2>1, <2>2, <2>3, <2>4, StepOn
<1>7. CASE RolesInsert(p)
  <2>1. TablesLeft
    BY <1>7, LimiterLeft DEF RolesInsert
  <2>2. CASE Finish(p)
    BY <2>1, <2>2, Finishes
  <2>3. CASE req' = [req EXCEPT ![p].at = "roles.commit"]
    <3>1. req' = [req EXCEPT ![p] = [req[p] EXCEPT !.at = "roles.commit", !.roles = req[p].roles,
                    !.gone = req[p].gone]]
      BY <2>3, SlotTyped DEF TypeInv, SlotsOK, RequestOK, Requests
    <3>2. QED BY <1>7, <2>1, <3>1, StepOn, SlotTyped DEF RolesInsert, Steps
  <2>4. QED BY <1>7, <2>2, <2>3 DEF RolesInsert
<1>8. CASE Abort(p)
  BY <1>8, LimiterLeft, Finishes DEF Abort
<1>9. QED BY <1>1, <1>2, <1>3, <1>4, <1>5, <1>6, <1>7, <1>8

\* How the rows of accounts and the record of their roles change.
LEMMA UserMoves ==
  ASSUME TypeInv, now' = now, LimiterTypeOK', tokens' = tokens, uses' = uses, link' = link,
         UsersOK', held' \in [Users -> [Roles -> Never .. now]],
         \A u \in Users : user[u].here => user'[u].here,
         \/ req' = req
         \/ \E p \in Slots : req' = [req EXCEPT ![p] = NoRequest]
  PROVE  TypeInv'
<1>1. SlotsOK'
  <2>1. CASE req' = req
    BY <2>1, OthersStayOK DEF TypeInv, SlotsOK
  <2>2. ASSUME NEW p \in Slots, req' = [req EXCEPT ![p] = NoRequest] PROVE SlotsOK'
    <3>1. RequestOK(NoRequest)
      BY NoRequestOK DEF TypeInv, LimiterTypeOK
    <3>2. RequestOK(NoRequest)'
      BY <3>1, OthersStayOK
    <3>3. QED BY <2>2, <3>2, SlotMoves DEF TypeInv
  <2>3. QED BY <2>1, <2>2
<1>2. TokensOK'
  BY DEF TypeInv, TokensOK
<1>3. QED BY <1>1, <1>2 DEF TypeInv

\* One account's row changes, to one that may be there.
LEMMA RowMoves ==
  ASSUME UsersOK, NEW u \in Users, NEW row \in UserRows, user' = [user EXCEPT ![u] = row],
         ~row.here => row.roles = {} /\ ~row.session, user[u].here => row.here
  PROVE  UsersOK' /\ \A v \in Users : user[v].here => user'[v].here
<1>1. user' \in [Users -> UserRows] /\ \A v \in Users : user'[v] = IF v = u THEN row ELSE user[v]
  BY DEF UsersOK
<1>2. QED BY <1>1 DEF UsersOK

\* A session ends: whoever has no account had none.
LEMMA SessionEnds ==
  ASSUME UsersOK, NEW u \in Users, user' = [user EXCEPT ![u].session = FALSE]
  PROVE  UsersOK' /\ \A v \in Users : user[v].here => user'[v].here
<1> DEFINE row == [user[u] EXCEPT !.session = FALSE]
<1>1. user[u] \in UserRows
  BY DEF UsersOK
<1>2. row \in UserRows /\ (user[u].here => row.here)
      /\ (~row.here => row.roles = {} /\ ~row.session)
  BY <1>1 DEF UserRows, UsersOK
<1>3. user' = [user EXCEPT ![u] = row]
  OBVIOUS
<1> HIDE DEF row
<1>4. QED BY <1>2, <1>3, RowMoves

LEMMA NowHeld ==
  ASSUME TypeInv
  PROVE  now \in Never .. now /\ Never \in Int /\ now \in Nat
BY AccessAssumption DEF TypeInv, LimiterTypeOK, Never

LEMMA HoldsTyped ==
  ASSUME TypeInv, NEW u \in Users, NEW roles \in SUBSET Roles, Holds(u, roles)
  PROVE  held' \in [Users -> [Roles -> Never .. now]]
<1> DEFINE h == [r \in Roles |-> IF r \in roles \cup user[u].roles THEN now ELSE held[u][r]]
<1>1. h \in [Roles -> Never .. now]
  BY NowHeld DEF TypeInv
<1>2. held' = [held EXCEPT ![u] = h]
  BY DEF Holds, TypeInv
<1>3. QED BY <1>1, <1>2 DEF TypeInv

\* The requests of users and administrators that write.
LEMMA TypeWrites ==
  ASSUME TypeInv,
         \/ \E p \in Slots : IssueAccessToken(p) \/ ResetCommit(p) \/ RolesCommit(p)
         \/ \E u \in Users : Logout(u)
         \/ \E l \in Links, u \in Others : ForgotPassword(l, u)
         \/ \E l \in Links : LinkExpires(l)
         \/ \E a \in Users, u \in Others :
              \/ \E roles \in RoleSets : CreateUser(a, u, roles)
              \/ \E active \in BOOLEAN : UpdateUser(a, u, active)
              \/ SetUserPassword(a, u)
  PROVE  TypeInv'
<1>1. ASSUME NEW p \in Slots, IssueAccessToken(p) PROVE TypeInv'
  <2> DEFINE u == req[p].user
  <2>1. u \in Users /\ user[u].here /\ req[p].roles \in SUBSET Roles
    BY <1>1, SlotTyped DEF IssueAccessToken, RequestOK
  <2>2. now' = now /\ LimiterTypeOK' /\ now \in Nat
    BY <1>1, LimiterLeft DEF IssueAccessToken, TypeInv, LimiterTypeOK
  <2>3. TokensOK'
    BY <1>1, <2>1, <2>2 DEF IssueAccessToken, Token, TypeInv, TokensOK
  <2>4. UsersOK' /\ \A v \in Users : user[v].here => user'[v].here
    BY <1>1, <2>1 DEF IssueAccessToken, TypeInv, UsersOK, UserRows
  <2>5. RequestOK(NoRequest)'
    BY <1>1, <2>2, <2>4, NoRequestOK, OthersStayOK DEF IssueAccessToken
  <2>6. SlotsOK'
    BY <1>1, <2>4, <2>5, SlotMoves DEF IssueAccessToken, Finish, TypeInv
  <2>7. QED BY <1>1, <2>2, <2>3, <2>4, <2>6 DEF IssueAccessToken, TypeInv
<1>2. ASSUME NEW p \in Slots, ResetCommit(p) PROVE TypeInv'
  <2>1. req[p].user \in Users /\ req[p].link \in Links
    BY <1>2, SlotTyped DEF ResetCommit, RequestOK
  <2>2. now' = now /\ LimiterTypeOK' /\ now \in Nat
    BY <1>2, LimiterLeft DEF ResetCommit, TypeInv, LimiterTypeOK
  <2>3. UsersOK' /\ \A v \in Users : user[v].here => user'[v].here
    BY <1>2, <2>1, SessionEnds DEF ResetCommit, TypeInv
  <2>4. link' \in [Links -> LinkRows] /\ \A l \in Links : link[l].user # NoUser => link'[l].user # NoUser
    BY <1>2, <2>1 DEF ResetCommit, TypeInv, LinkRows
  <2>5. uses' \in [Links -> Nat]
    BY <1>2, <2>1 DEF ResetCommit, TypeInv
  <2>6. RequestOK(NoRequest)'
    BY <2>2, <2>3, <2>4, NoRequestOK, OthersStayOK
  <2>7. SlotsOK'
    BY <1>2, <2>3, <2>4, <2>6, SlotMoves DEF ResetCommit, Finish, TypeInv
  <2>8. QED BY <1>2, <2>2, <2>3, <2>4, <2>5, <2>7 DEF ResetCommit, TypeInv, TokensOK
<1>3. ASSUME NEW p \in Slots, RolesCommit(p) PROVE TypeInv'
  <2> DEFINE u == req[p].user
  <2> DEFINE roles == (user[u].roles \ req[p].gone) \cup req[p].roles
  <2>1. u \in Users /\ user[u].here /\ req[p].roles \in SUBSET Roles
    BY <1>3, SlotTyped DEF RolesCommit, RequestOK
  <2>2. roles \in SUBSET Roles
    BY <2>1 DEF TypeInv, UsersOK, UserRows
  <2>3. user' = [user EXCEPT ![u].roles = roles] /\ Holds(u, roles)
    BY <1>3 DEF RolesCommit
  <2> HIDE DEF roles
  <2>4. UsersOK' /\ \A v \in Users : user[v].here => user'[v].here
    <3> DEFINE row == [user[u] EXCEPT !.roles = roles]
    <3>1. user[u] \in UserRows
      BY <2>1 DEF TypeInv, UsersOK
    <3>2. row \in UserRows /\ row.here
      BY <2>1, <2>2, <3>1 DEF UserRows
    <3>3. user' = [user EXCEPT ![u] = row]
      BY <2>3
    <3> HIDE DEF row
    <3>4. QED BY <2>1, <3>2, <3>3, RowMoves DEF TypeInv
  <2>5. held' \in [Users -> [Roles -> Never .. now]]
    BY <2>1, <2>2, <2>3, HoldsTyped
  <2>6. QED BY <1>3, <2>4, <2>5, LimiterLeft, UserMoves DEF RolesCommit, Finish
<1>4. ASSUME NEW u \in Users, Logout(u) PROVE TypeInv'
  <2>1. UsersOK' /\ \A v \in Users : user[v].here => user'[v].here
    BY <1>4, SessionEnds DEF Logout, TypeInv
  <2>2. QED BY <1>4, <2>1, LimiterLeft, UserMoves DEF Logout, TypeInv
<1>5. ASSUME NEW l \in Links, NEW u \in Others, ForgotPassword(l, u) PROVE TypeInv'
  <2>1. link' = [link EXCEPT ![l] = [user |-> u, open |-> TRUE]] /\ link[l].user = NoUser
    BY <1>5 DEF ForgotPassword, RequestPasswordReset
  <2>2. u \in Users /\ u # NoUser
    BY AccessAssumption DEF Others
  <2>3. link' \in [Links -> LinkRows] /\ \A k \in Links : link[k].user # NoUser => link'[k].user # NoUser
    BY <2>1, <2>2 DEF TypeInv, LinkRows
  <2>4. SlotsOK'
    BY <1>5, <2>3, OthersStayOK DEF ForgotPassword, TypeInv, SlotsOK
  <2>5. QED BY <1>5, <2>3, <2>4, LimiterLeft DEF ForgotPassword, TypeInv, UsersOK, TokensOK
<1>6. ASSUME NEW l \in Links, LinkExpires(l) PROVE TypeInv'
  <2>1. link' \in [Links -> LinkRows] /\ \A k \in Links : link[k].user # NoUser => link'[k].user # NoUser
    BY <1>6 DEF LinkExpires, TypeInv, LinkRows
  <2>2. SlotsOK'
    BY <1>6, <2>1, OthersStayOK DEF LinkExpires, TypeInv, SlotsOK
  <2>3. QED BY <1>6, <2>1, <2>2, LimiterLeft DEF LinkExpires, TypeInv, UsersOK, TokensOK
<1>7. ASSUME NEW a \in Users, NEW u \in Others, NEW roles \in RoleSets, CreateUser(a, u, roles)
      PROVE  TypeInv'
  <2>1. u \in Users /\ roles \in SUBSET Roles
    BY RoleSetsAssumption DEF Others
  <2>2. UsersOK' /\ \A v \in Users : user[v].here => user'[v].here
    <3> DEFINE row == [here |-> TRUE, active |-> TRUE, session |-> FALSE, roles |-> roles]
    <3>1. row \in UserRows /\ row.here
      BY <2>1 DEF UserRows
    <3>2. user' = [user EXCEPT ![u] = row]
      BY <1>7 DEF CreateUser, InsertUser
    <3> HIDE DEF row
    <3>3. QED BY <2>1, <3>1, <3>2, RowMoves DEF TypeInv
  <2>3. held' \in [Users -> [Roles -> Never .. now]]
    BY <1>7, <2>1, HoldsTyped DEF CreateUser
  <2>4. QED BY <1>7, <2>2, <2>3, LimiterLeft, UserMoves DEF CreateUser
<1>8. ASSUME NEW a \in Users, NEW u \in Others, NEW active \in BOOLEAN, UpdateUser(a, u, active)
      PROVE  TypeInv'
  <2>1. UsersOK' /\ \A v \in Users : user[v].here => user'[v].here
    <3> DEFINE row == [user[u] EXCEPT !.active = active]
    <3>1. u \in Users /\ user[u] \in UserRows /\ user[u].here
      BY <1>8 DEF Others, UpdateUser, TypeInv, UsersOK
    <3>2. row \in UserRows /\ row.here
      BY <3>1 DEF UserRows
    <3>3. user' = [user EXCEPT ![u] = row]
      BY <1>8 DEF UpdateUser
    <3> HIDE DEF row
    <3>4. QED BY <3>1, <3>2, <3>3, RowMoves DEF TypeInv
  <2>2. QED BY <1>8, <2>1, LimiterLeft, UserMoves DEF UpdateUser, TypeInv
<1>9. ASSUME NEW a \in Users, NEW u \in Others, SetUserPassword(a, u) PROVE TypeInv'
  <2>1. UsersOK' /\ \A v \in Users : user[v].here => user'[v].here
    BY <1>9, SessionEnds DEF SetUserPassword, AdminSetPassword, TypeInv, Others
  <2>2. QED BY <1>9, <2>1, LimiterLeft, UserMoves DEF SetUserPassword, TypeInv
<1>10. QED BY <1>1, <1>2, <1>3, <1>4, <1>5, <1>6, <1>7, <1>8, <1>9

LEMMA TypeTime ==
  ASSUME TypeInv, Time
  PROVE  TypeInv'
<1>1. now' = now + 1 /\ now \in Nat /\ LimiterTypeOK'
  BY DEF Time, Tick, TypeInv, LimiterTypeOK
<1>2. TokensOK'
  BY <1>1 DEF Time, TypeInv, TokensOK
<1>3. held' \in [Users -> [Roles -> Never .. now']]
  <2> SUFFICES ASSUME NEW u \in Users, NEW r \in Roles
               PROVE  (IF r \in user[u].roles THEN now + 1 ELSE held[u][r]) \in Never .. now + 1
    BY <1>1 DEF Time
  <2>1. held[u][r] \in Never .. now
    BY DEF TypeInv
  <2>2. QED BY <1>1, <2>1, NowHeld
<1>4. SlotsOK'
  BY OthersStayOK DEF Time, TypeInv, SlotsOK
<1>5. QED BY <1>1, <1>2, <1>3, <1>4 DEF Time, TypeInv, UsersOK

LEMMA TypeInvInit == Init => TypeInv
<1> SUFFICES ASSUME Init PROVE TypeInv
  OBVIOUS
<1>1. LimiterTypeOK
  BY DEF Init, LimiterInit, LimiterTypeOK
<1>2. UsersOK
  BY DEF Init, UsersOK, UserRows, Roles
<1>3. link \in [Links -> LinkRows] /\ TokensOK /\ uses \in [Links -> Nat]
  BY DEF Init, LinkRows, TokensOK
<1>4. SlotsOK
  BY <1>1, NoRequestOK DEF Init, SlotsOK, LimiterTypeOK
<1>5. Never \in Int /\ Never <= 0 /\ now = 0
  BY AccessAssumption DEF Never, Init, LimiterInit
<1>6. held \in [Users -> [Roles -> Never .. now]]
  BY <1>5 DEF Init
<1>7. QED BY <1>1, <1>2, <1>3, <1>4, <1>6 DEF TypeInv

LEMMA TypeInvNext == TypeInv /\ [Next]_vars => TypeInv'
<1> SUFFICES ASSUME TypeInv, [Next]_vars PROVE TypeInv'
  OBVIOUS
<1>1. ASSUME NEW ip \in Ips, TurnAway(ip), UNCHANGED accessVars PROVE TypeInv'
  <2>1. now' = now /\ LimiterTypeOK'
    BY <1>1 DEF TurnAway, Recent, TypeInv, LimiterTypeOK
  <2>2. QED BY <1>1, <2>1
        DEF accessVars, TypeInv, UsersOK, TokensOK, SlotsOK, RequestOK
<1>2. CASE Crash
  <2>1. now' = now /\ LimiterTypeOK' /\ now \in Nat
    BY <1>2 DEF Crash, Restart, TypeInv, LimiterTypeOK
  <2>2. RequestOK(NoRequest)'
    BY <1>2, <2>1, NoRequestOK, OthersStayOK DEF Crash
  <2>3. SlotsOK'
    BY <1>2, <2>2 DEF Crash, SlotsOK
  <2>4. QED BY <1>2, <2>1, <2>3 DEF Crash, TypeInv, UsersOK, TokensOK
<1>3. CASE UNCHANGED vars
  <2>1. UNCHANGED limiterVars /\ UNCHANGED accessVars
    BY <1>3 DEF vars
  <2>2. QED BY <2>1, LimiterLeft
        DEF accessVars, TypeInv, UsersOK, TokensOK, SlotsOK, RequestOK
<1>4. QED BY <1>1, <1>2, <1>3, TypeReads, TypeWrites, TypeTime DEF Next

\* Accounts, tokens, links and slots hold what they may.
THEOREM TypeCorrect == Spec => []TypeOK
BY TypeInvTypes, TypeInvInit, TypeInvNext, PTL DEF Spec

-----------------------------------------------------------------------------
(* Roles lapse.  Behind every token there is a role that was held not long  *)
(* before the token was issued, because the request that got it read it.    *)

Timely(r) ==
  /\ r.at # "idle" => r.since <= now /\ now <= r.since + MaxAge
  /\ r.at = "token.issue" => \A x \in r.roles : held[r.user][x] >= r.since

Backed(t) == now < t.born + TTL /\ \A x \in t.roles : held[t.user][x] + MaxAge >= t.born

HeldInv ==
  /\ \A u \in Users : \A x \in user[u].roles : held[u][x] = now
  /\ \A p \in Slots : Timely(req[p])
  /\ \A t \in tokens : Backed(t)

LEMMA HeldInvSuffices == TypeInv /\ HeldInv => RolesLapse
<1> SUFFICES ASSUME TypeInv, HeldInv PROVE RolesLapse
  OBVIOUS
<1>1. ASSUME NEW u \in Users, NEW allowed \in SUBSET Roles, Passes(u, allowed)
      PROVE  RecentlyHeld(u, allowed \cup {"admin"})
  <2>1. PICK t \in tokens : t.user = u /\ t.roles \cap (allowed \cup {"admin"}) # {}
    BY <1>1 DEF Passes, RequireRole
  <2>2. PICK x \in t.roles : x \in allowed \cup {"admin"}
    BY <2>1
  <2>3. t.born \in Nat /\ now \in Nat /\ x \in Roles
    BY <2>1 DEF TypeInv, TokensOK, LimiterTypeOK
  <2>4. held[u][x] \in Int
    BY <2>3, NowHeld DEF TypeInv
  <2>5. now < t.born + TTL /\ held[u][x] + MaxAge >= t.born
    BY <2>1 DEF HeldInv, Backed
  <2>6. held[u][x] + TTL + MaxAge > now
    BY <2>3, <2>4, <2>5, AccessAssumption
  <2>7. QED BY <2>2, <2>6 DEF RecentlyHeld
<1>2. \A g \in DOMAIN Routes : Routes[g] \in SUBSET Roles
  BY DEF Roles
<1>3. \A s \in DOMAIN stage1ARoleForStep : {stage1ARoleForStep[s]} \in SUBSET Roles
  BY DEF Roles, Routes, stage1ARoleForStep
<1>4. ASSUME NEW u \in Users, NEW s \in DOMAIN stage1ARoleForStep,
             MaySign(u, "stage1a", stage1ARoleForStep[s])
      PROVE  RecentlyHeld(u, {stage1ARoleForStep[s], "admin"})
  <2>1. Passes(u, {stage1ARoleForStep[s]})
    BY <1>4 DEF MaySign
  <2>2. RecentlyHeld(u, {stage1ARoleForStep[s]} \cup {"admin"})
    BY <1>1, <1>3, <2>1
  <2>3. {stage1ARoleForStep[s]} \cup {"admin"} = {stage1ARoleForStep[s], "admin"}
    OBVIOUS
  <2>4. QED BY <2>2, <2>3
<1>5. QED BY <1>1, <1>2, <1>4 DEF RolesLapse

\* While the clock stands, roles are only ever held longer: old requests and
\* tokens keep what backs them.
LEMMA HeldMoves ==
  ASSUME TypeInv, TypeInv', HeldInv, now' = now,
         \A u \in Users, x \in Roles : held'[u][x] >= held[u][x],
         \A u \in Users : \A x \in user'[u].roles : held'[u][x] = now,
         \A p \in Slots : req'[p] = req[p] \/ Timely(req[p])',
         \A t \in tokens' : t \in tokens \/ Backed(t)'
  PROVE  HeldInv'
<1>1. \A u \in Users, x \in Roles : held[u][x] \in Int /\ held'[u][x] \in Int
  BY NowHeld DEF TypeInv
<1>2. ASSUME NEW p \in Slots, req'[p] = req[p] PROVE Timely(req[p])'
  <2>1. Timely(req[p])
    BY DEF HeldInv
  <2>2. CASE req[p].at = "token.issue"
    <3>1. req[p].user \in Users /\ req[p].roles \subseteq Roles /\ req[p].since \in Nat
      BY <2>2, SlotTyped DEF RequestOK
    <3>2. \A x \in req[p].roles : held'[req[p].user][x] >= req[p].since
      <4> TAKE x \in req[p].roles
      <4> DEFINE b == held[req[p].user][x]
      <4> DEFINE a == held'[req[p].user][x]
      <4>1. b \in Int /\ a \in Int /\ a >= b
        BY <1>1, <3>1
      <4>2. b >= req[p].since
        BY <2>1, <2>2 DEF Timely
      <4> HIDE DEF a, b
      <4>3. a >= req[p].since
        BY <3>1, <4>1, <4>2
      <4>4. QED BY <4>3 DEF a
    <3>3. QED BY <1>2, <2>1, <2>2, <3>2 DEF Timely
  <2>3. CASE req[p].at # "token.issue"
    BY <1>2, <2>1, <2>3 DEF Timely
  <2>4. QED BY <2>2, <2>3
<1>3. ASSUME NEW t \in tokens PROVE Backed(t)'
  <2>1. t.user \in Users /\ t.roles \subseteq Roles /\ t.born \in Nat
    BY DEF TypeInv, TokensOK, LimiterTypeOK
  <2>2. Backed(t)
    BY DEF HeldInv
  <2>3. \A x \in t.roles : held'[t.user][x] + MaxAge >= t.born
    <3> TAKE x \in t.roles
    <3> DEFINE b == held[t.user][x]
    <3> DEFINE a == held'[t.user][x]
    <3>1. b \in Int /\ a \in Int /\ a >= b
      BY <1>1, <2>1
    <3>2. b + MaxAge >= t.born
      BY <2>2 DEF Backed
    <3> HIDE DEF a, b
    <3>3. a + MaxAge >= t.born
      BY <2>1, <3>1, <3>2, AccessAssumption
    <3>4. QED BY <3>3 DEF a
  <2>4. QED BY <2>2, <2>3 DEF Backed
<1>4. \A p \in Slots : Timely(req[p])'
  BY <1>2
<1>5. \A t \in tokens' : Backed(t)'
  BY <1>3
<1>6. QED BY <1>4, <1>5 DEF HeldInv

\* Steps that leave accounts, tokens and the record alone.
LEMMA HeldReads ==
  ASSUME TypeInv, TypeInv', HeldInv, now' = now,
         \A u \in Users : user'[u].roles = user[u].roles, tokens' = tokens, held' = held,
         \A p \in Slots : req'[p] = req[p] \/ Timely(req[p])'
  PROVE  HeldInv'
<1>1. \A u \in Users, x \in Roles : held'[u][x] >= held[u][x]
  BY NowHeld DEF TypeInv
<1>2. \A u \in Users : \A x \in user'[u].roles : held'[u][x] = now
  BY DEF HeldInv
<1>3. QED BY <1>1, <1>2, HeldMoves

\* The slots while one of them moves on to r.
LEMMA SlotMoved ==
  ASSUME TypeInv, NEW p \in Slots, NEW r, req' = [req EXCEPT ![p] = r]
  PROVE  \A q \in Slots : req'[q] = IF q = p THEN r ELSE req[q]
BY DEF TypeInv, SlotsOK

LEMMA NoRequestTimely == NoRequest.at = "idle"
BY DEF NoRequest

\* Of a slot that finishes nothing is asked any more.
LEMMA FinishTimely ==
  ASSUME TypeInv, NEW p \in Slots, Finish(p)
  PROVE  \A q \in Slots : req'[q] = req[q] \/ Timely(req[q])'
<1>1. \A q \in Slots : req'[q] = IF q = p THEN NoRequest ELSE req[q]
  BY SlotMoved DEF Finish
<1>2. req'[p].at = "idle"
  BY <1>1, NoRequestTimely
<1>3. Timely(req[p])'
  BY <1>2 DEF Timely
<1>4. QED BY <1>1, <1>3

\* Nor of one that has just begun.
LEMMA BeginTimely ==
  ASSUME TypeInv, NEW p \in Slots, now' = now, NEW step \in Steps \ {"token.issue"},
         NEW u, NEW l, NEW roles, NEW gone, Begin(p, Request(step, u, l, roles, gone))
  PROVE  \A q \in Slots : req'[q] = req[q] \/ Timely(req[q])'
<1>1. \A q \in Slots : req'[q] = IF q = p THEN Request(step, u, l, roles, gone) ELSE req[q]
  BY SlotMoved DEF Begin
<1>2. req'[p].at = step /\ req'[p].since = now
  BY <1>1 DEF Request
<1>3. now \in Nat /\ now <= now + MaxAge
  BY AccessAssumption DEF TypeInv, LimiterTypeOK
<1>4. Timely(req[p])'
  BY <1>2, <1>3 DEF Timely
<1>5. QED BY <1>1, <1>4

\* The requests that read and decide: rolesForUser takes roles held now.
LEMMA HeldRequests ==
  ASSUME TypeInv, TypeInv', HeldInv, NEW p \in Slots,
         \/ \E u \in Users, ip \in Ips : Login(p, u, ip)
         \/ \E u \in Users : Refresh(p, u)
         \/ rolesForUser(p)
         \/ \E l \in Links : ResetPassword(p, l)
         \/ \E a \in Users, u \in Others, roles \in RoleSets : SetUserRoles(p, a, u, roles)
         \/ RolesDelete(p) \/ RolesInsert(p) \/ Abort(p)
  PROVE  HeldInv'
<1>1. ASSUME NEW u \in Users, NEW ip \in Ips, Login(p, u, ip) PROVE HeldInv'
  <2>1. now' = now /\ UNCHANGED <<user, tokens, held>>
    BY <1>1, AdmitTyped DEF Login
  <2>2. \A q \in Slots : req'[q] = req[q] \/ Timely(req[q])'
    <3>1. CASE MayLogIn(u)
      <4>1. Begin(p, Request("token.roles", u, NoLink, {}, {}))
        BY <1>1, <3>1 DEF Login
      <4>2. "token.roles" \in Steps \ {"token.issue"}
        BY DEF Steps
      <4>3. QED BY <2>1, <4>1, <4>2, BeginTimely
    <3>2. CASE ~MayLogIn(u)
      BY <1>1, <3>2 DEF Login
    <3>3. QED BY <3>1, <3>2
  <2>3. QED BY <2>1, <2>2, HeldReads
<1>2. ASSUME NEW u \in Users, Refresh(p, u) PROVE HeldInv'
  <2>1. now' = now /\ UNCHANGED <<user, tokens, held>>
    BY <1>2, LimiterLeft DEF Refresh
  <2>2. Begin(p, Request("token.roles", u, NoLink, {}, {}))
    BY <1>2 DEF Refresh
  <2>3. "token.roles" \in Steps \ {"token.issue"}
    BY DEF Steps
  <2>4. \A q \in Slots : req'[q] = req[q] \/ Timely(req[q])'
    BY <2>1, <2>2, <2>3, BeginTimely
  <2>5. QED BY <2>1, <2>4, HeldReads
<1>3. CASE rolesForUser(p)
  <2> DEFINE r == [req[p] EXCEPT !.at = "token.issue", !.roles = user[req[p].user].roles]
  <2>1. now' = now /\ UNCHANGED <<user, tokens, held>>
    BY <1>3, LimiterLeft DEF rolesForUser
  <2>2. req' = [req EXCEPT ![p] = r]
    BY <1>3 DEF rolesForUser
  <2>3. /\ req[p].at = "token.roles" /\ req[p].user \in Users /\ req[p] \in Requests
        /\ req[p].since \in Nat
    BY <1>3, SlotTyped DEF rolesForUser, RequestOK
  <2>4. /\ r.at = "token.issue" /\ r.user = req[p].user /\ r.since = req[p].since
        /\ r.roles = user[req[p].user].roles
    BY <2>3 DEF Requests
  <2>5. req[p].since <= now /\ now <= req[p].since + MaxAge
    BY <2>3 DEF HeldInv, Timely
  <2>6. \A x \in user[req[p].user].roles : held[req[p].user][x] = now
    BY <2>3 DEF HeldInv
  <2> HIDE DEF r
  <2>7. req'[p] = r /\ \A q \in Slots : q # p => req'[q] = req[q]
    BY <2>2 DEF TypeInv, SlotsOK
  <2>8. Timely(req[p])'
    <3>1. \A x \in r.roles : held[r.user][x] >= r.since
      <4> TAKE x \in r.roles
      <4>1. held[r.user][x] = now
        BY <2>4, <2>6
      <4>2. now >= r.since
        BY <2>3, <2>4, <2>5 DEF TypeInv, LimiterTypeOK
      <4>3. QED BY <4>1, <4>2
    <3>2. r.since <= now /\ now <= r.since + MaxAge
      BY <2>4, <2>5
    <3>3. QED BY <2>1, <2>7, <3>1, <3>2 DEF Timely
  <2>9. \A q \in Slots : req'[q] = req[q] \/ Timely(req[q])'
    BY <2>7, <2>8
  <2>10. QED BY <2>1, <2>9, HeldReads
<1>4. ASSUME NEW l \in Links, ResetPassword(p, l) PROVE HeldInv'
  <2>1. now' = now /\ UNCHANGED <<user, tokens, held>>
    BY <1>4, LimiterLeft DEF ResetPassword
  <2>2. Begin(p, Request("reset.commit", link[l].user, l, {}, {}))
    BY <1>4 DEF ResetPassword
  <2>3. "reset.commit" \in Steps \ {"token.issue"}
    BY DEF Steps
  <2>4. \A q \in Slots : req'[q] = req[q] \/ Timely(req[q])'
    BY <2>1, <2>2, <2>3, BeginTimely
  <2>5. QED BY <2>1, <2>4, HeldReads
<1>5. ASSUME NEW a \in Users, NEW u \in Others, NEW roles \in RoleSets,
             SetUserRoles(p, a, u, roles)
      PROVE  HeldInv'
  <2>1. now' = now /\ UNCHANGED <<user, tokens, held>>
    BY <1>5, LimiterLeft DEF SetUserRoles
  <2>2. Begin(p, Request("roles.delete", u, NoLink, roles, user[u].roles))
    BY <1>5 DEF SetUserRoles
  <2>3. "roles.delete" \in Steps \ {"token.issue"}
    BY DEF Steps
  <2>4. \A q \in Slots : req'[q] = req[q] \/ Timely(req[q])'
    BY <2>1, <2>2, <2>3, BeginTimely
  <2>5. QED BY <2>1, <2>4, HeldReads
<1>6. ASSUME NEW r, req' = [req EXCEPT ![p] = r], req[p].at # "idle",
             r.at # "token.issue", r.since = req[p].since,
             now' = now, UNCHANGED <<user, tokens, held>>
      PROVE  HeldInv'
  <2>1. req'[p] = r /\ \A q \in Slots : q # p => req'[q] = req[q]
    BY <1>6 DEF TypeInv, SlotsOK
  <2>2. req[p].since <= now /\ now <= req[p].since + MaxAge
    BY <1>6 DEF HeldInv, Timely
  <2>3. Timely(req[p])'
    BY <1>6, <2>1, <2>2 DEF Timely
  <2>4. \A q \in Slots : req'[q] = req[q] \/ Timely(req[q])'
    BY <2>1, <2>3
  <2>5. QED BY <1>6, <2>4, HeldReads
<1>7. CASE RolesDelete(p)
  <2> DEFINE r == [req[p] EXCEPT !.at = "roles.insert",
                                 !.gone = @ \cap user[req[p].user].roles]
  <2>1. r.at = "roles.insert" /\ r.since = req[p].since
    BY SlotTyped DEF RequestOK, Requests
  <2>2. req' = [req EXCEPT ![p] = r] /\ req[p].at = "roles.delete"
    BY <1>7 DEF RolesDelete
  <2>3. now' = now /\ UNCHANGED <<user, tokens, held>>
    BY <1>7, LimiterLeft DEF RolesDelete
  <2> HIDE DEF r
  <2>4. QED BY <1>6, <2>1, <2>2, <2>3
<1>8. CASE RolesInsert(p)
  <2>1. now' = now /\ UNCHANGED <<user, tokens, held>>
    BY <1>8, LimiterLeft DEF RolesInsert
  <2>2. CASE Finish(p)
    <3>1. \A q \in Slots : req'[q] = req[q] \/ Timely(req[q])'
      BY <2>2, FinishTimely
    <3>2. QED BY <2>1, <3>1, HeldReads
  <2>3. CASE req' = [req EXCEPT ![p].at = "roles.commit"]
    <3> DEFINE r == [req[p] EXCEPT !.at = "roles.commit"]
    <3>1. r.at = "roles.commit" /\ r.since = req[p].since
      BY SlotTyped DEF RequestOK, Requests
    <3>2. req' = [req EXCEPT ![p] = r] /\ req[p].at = "roles.insert"
      BY <1>8, <2>3 DEF RolesInsert
    <3> HIDE DEF r
    <3>3. QED BY <1>6, <2>1, <3>1, <3>2
  <2>4. QED BY <1>8, <2>2, <2>3 DEF RolesInsert
<1>9. CASE Abort(p)
  <2>1. now' = now /\ UNCHANGED <<user, tokens, held>>
    BY <1>9, LimiterLeft DEF Abort
  <2>2. \A q \in Slots : req'[q] = req[q] \/ Timely(req[q])'
    BY <1>9, FinishTimely DEF Abort
  <2>3. QED BY <2>1, <2>2, HeldReads
<1>10. QED BY <1>1, <1>2, <1>3, <1>4, <1>5, <1>7, <1>8, <1>9

\* What Holds records: the roles an account is given or had until now.
LEMMA HoldsKeeps ==
  ASSUME TypeInv, HeldInv, NEW u \in Users, NEW roles \in SUBSET Roles, Holds(u, roles),
         \A v \in Users \ {u} : user'[v].roles = user[v].roles,
         user'[u].roles \subseteq roles \cup user[u].roles
  PROVE  /\ \A v \in Users, x \in Roles : held'[v][x] >= held[v][x]
         /\ \A v \in Users : \A x \in user'[v].roles : held'[v][x] = now
<1> DEFINE h == [x \in Roles |-> IF x \in roles \cup user[u].roles THEN now ELSE held[u][x]]
<1>1. \A v \in Users : held'[v] = IF v = u THEN h ELSE held[v]
  BY DEF Holds, TypeInv
<1>2. \A v \in Users, x \in Roles : held[v][x] \in Int /\ held[v][x] <= now
  BY NowHeld DEF TypeInv
<1>3. now \in Nat
  BY NowHeld
<1>4. ASSUME NEW v \in Users, NEW x \in Roles PROVE held'[v][x] >= held[v][x]
  <2>1. held'[v][x] = now \/ held'[v][x] = held[v][x]
    BY <1>1
  <2>2. QED BY <1>2, <1>3, <2>1
<1>5. user[u].roles \subseteq Roles
  BY DEF TypeInv, UsersOK, UserRows
<1>6. \A x \in user'[u].roles : held'[u][x] = now
  BY <1>1, <1>5
<1>7. \A v \in Users \ {u} : \A x \in user'[v].roles : held'[v][x] = now
  BY <1>1 DEF HeldInv
<1>8. QED BY <1>4, <1>6, <1>7

\* The requests that write: a token is issued within MaxAge of a time its roles
\* were held.
LEMMA HeldWrites ==
  ASSUME TypeInv, TypeInv', HeldInv,
         \/ \E p \in Slots : IssueAccessToken(p) \/ ResetCommit(p) \/ RolesCommit(p)
         \/ \E u \in Users : Logout(u)
         \/ \E l \in Links, u \in Others : ForgotPassword(l, u)
         \/ \E l \in Links : LinkExpires(l)
         \/ \E a \in Users, u \in Others :
              \/ \E roles \in RoleSets : CreateUser(a, u, roles)
              \/ \E active \in BOOLEAN : UpdateUser(a, u, active)
              \/ SetUserPassword(a, u)
  PROVE  HeldInv'
<1> USE DEF TypeInv
<1>0. \A u \in Users, x \in Roles : held[u][x] \in Int /\ held[u][x] >= held[u][x]
  BY NowHeld
<1>1. ASSUME NEW p \in Slots, IssueAccessToken(p) PROVE HeldInv'
  <2> DEFINE u == req[p].user
  <2> DEFINE t == Token(u, req[p].roles)
  <2>1. now' = now /\ held' = held /\ now \in Nat
    BY <1>1, LimiterLeft DEF IssueAccessToken, LimiterTypeOK
  <2>2. \A v \in Users : user'[v].roles = user[v].roles
    BY <1>1 DEF IssueAccessToken, UsersOK, UserRows
  <2>3. u \in Users /\ req[p].roles \subseteq Roles /\ req[p].since \in Nat
    BY <1>1, SlotTyped DEF IssueAccessToken, RequestOK
  <2>4. now <= req[p].since + MaxAge /\ \A x \in req[p].roles : held[u][x] >= req[p].since
    BY <1>1 DEF IssueAccessToken, HeldInv, Timely
  <2>5. \A x \in req[p].roles : held[u][x] + MaxAge >= now
    <3> TAKE x \in req[p].roles
    <3> DEFINE b == held[u][x]
    <3>1. b \in Int
      BY <1>0, <2>3
    <3>2. b >= req[p].since
      BY <2>4
    <3> HIDE DEF b
    <3>3. b + MaxAge >= now
      BY <2>1, <2>3, <2>4, <3>1, <3>2, AccessAssumption
    <3>4. QED BY <3>3 DEF b
  <2>6. t.born = now /\ t.user = u /\ t.roles = req[p].roles /\ tokens' = tokens \cup {t}
    BY <1>1 DEF Token, IssueAccessToken
  <2> HIDE DEF t
  <2>7. ASSUME NEW s \in tokens', s \notin tokens PROVE Backed(s)'
    <3>1. s.born = now /\ s.user = u /\ s.roles = req[p].roles
      BY <2>6, <2>7
    <3>2. now < now + TTL
      BY <2>1, AccessAssumption
    <3>3. \A x \in s.roles : held'[s.user][x] + MaxAge >= s.born
      BY <2>1, <2>5, <3>1
    <3>4. now' < s.born + TTL
      BY <2>1, <3>1, <3>2
    <3>5. QED BY <3>3, <3>4 DEF Backed
  <2>8. \A q \in Slots : req'[q] = req[q] \/ Timely(req[q])'
    BY <1>1, FinishTimely DEF IssueAccessToken
  <2>9. \A v \in Users : \A x \in user'[v].roles : held'[v][x] = now
    BY <2>1, <2>2 DEF HeldInv
  <2>10. QED BY <1>0, <2>1, <2>7, <2>8, <2>9, HeldMoves
<1>2. ASSUME NEW p \in Slots, ResetCommit(p) PROVE HeldInv'
  <2>1. now' = now /\ UNCHANGED <<tokens, held>>
    BY <1>2, LimiterLeft DEF ResetCommit
  <2>2. \A v \in Users : user'[v].roles = user[v].roles
    BY <1>2 DEF ResetCommit, UsersOK, UserRows
  <2>3. \A q \in Slots : req'[q] = req[q] \/ Timely(req[q])'
    BY <1>2, FinishTimely DEF ResetCommit
  <2>4. QED BY <2>1, <2>2, <2>3, HeldReads
<1>3. ASSUME NEW p \in Slots, RolesCommit(p) PROVE HeldInv'
  <2> DEFINE u == req[p].user
  <2> DEFINE roles == (user[u].roles \ req[p].gone) \cup req[p].roles
  <2>1. now' = now /\ tokens' = tokens
    BY <1>3, LimiterLeft DEF RolesCommit
  <2>2. u \in Users /\ roles \in SUBSET Roles
    BY <1>3, SlotTyped DEF RolesCommit, RequestOK, UsersOK, UserRows
  <2>3. user' = [user EXCEPT ![u].roles = roles] /\ Holds(u, roles)
    BY <1>3 DEF RolesCommit
  <2>4. \A q \in Slots : req'[q] = req[q] \/ Timely(req[q])'
    BY <1>3, FinishTimely DEF RolesCommit
  <2> HIDE DEF roles
  <2>5. \A v \in Users : user'[v].roles = IF v = u THEN roles ELSE user[v].roles
    BY <2>2, <2>3 DEF UsersOK, UserRows
  <2>6. /\ \A v \in Users, x \in Roles : held'[v][x] >= held[v][x]
        /\ \A v \in Users : \A x \in user'[v].roles : held'[v][x] = now
    BY <2>2, <2>3, <2>5, HoldsKeeps
  <2>7. QED BY <2>1, <2>4, <2>6, HeldMoves
<1>4. ASSUME NEW u \in Users, Logout(u) PROVE HeldInv'
  <2>1. now' = now /\ UNCHANGED <<tokens, held, req>>
    BY <1>4, LimiterLeft DEF Logout
  <2>2. \A v \in Users : user'[v].roles = user[v].roles
    BY <1>4 DEF Logout, UsersOK, UserRows
  <2>3. QED BY <2>1, <2>2, HeldReads
<1>5. ASSUME UNCHANGED <<limiterVars, user, tokens, req, held>> PROVE HeldInv'
  BY <1>5, LimiterLeft, HeldReads
<1>6. ASSUME NEW a \in Users, NEW u \in Others, NEW roles \in RoleSets, CreateUser(a, u, roles)
      PROVE  HeldInv'
  <2>1. u \in Users /\ roles \in SUBSET Roles
    BY RoleSetsAssumption DEF Others
  <2>2. now' = now /\ UNCHANGED <<tokens, req>>
    BY <1>6, LimiterLeft DEF CreateUser
  <2>3. \A v \in Users : user'[v].roles = IF v = u THEN roles ELSE user[v].roles
    BY <1>6, <2>1 DEF CreateUser, InsertUser, UsersOK
  <2>4. Holds(u, roles)
    BY <1>6 DEF CreateUser
  <2>5. /\ \A v \in Users, x \in Roles : held'[v][x] >= held[v][x]
        /\ \A v \in Users : \A x \in user'[v].roles : held'[v][x] = now
    BY <2>1, <2>3, <2>4, HoldsKeeps
  <2>6. QED BY <2>2, <2>5, HeldMoves
<1>7. ASSUME NEW a \in Users, NEW u \in Others,
             (\E active \in BOOLEAN : UpdateUser(a, u, active)) \/ SetUserPassword(a, u)
      PROVE  HeldInv'
  <2>1. now' = now /\ UNCHANGED <<tokens, held, req>>
    BY <1>7, LimiterLeft DEF UpdateUser, SetUserPassword
  <2>2. \A v \in Users : user'[v].roles = user[v].roles
    BY <1>7 DEF UpdateUser, SetUserPassword, AdminSetPassword, UsersOK, UserRows
  <2>3. QED BY <2>1, <2>2, HeldReads
<1>8. QED BY <1>1, <1>2, <1>3, <1>4, <1>5, <1>6, <1>7 DEF ForgotPassword, LinkExpires

LEMMA HeldTime ==
  ASSUME TypeInv, HeldInv, Time
  PROVE  HeldInv'
<1>1. now' = now + 1 /\ now \in Nat /\ user' = user /\ req' = req
  BY DEF Time, Tick, TypeInv, LimiterTypeOK
<1>2. \A u \in Users, x \in Roles :
        held'[u][x] = IF x \in user[u].roles THEN now + 1 ELSE held[u][x]
  BY DEF Time
<1>3. \A u \in Users, x \in Roles :
        held[u][x] \in Int /\ held'[u][x] \in Int /\ held'[u][x] >= held[u][x]
  BY <1>1, <1>2, NowHeld DEF TypeInv
<1>4. \A u \in Users : \A x \in user'[u].roles : held'[u][x] = now'
  BY <1>1, <1>2 DEF TypeInv, UsersOK, UserRows
<1>5. ASSUME NEW p \in Slots PROVE Timely(req[p])'
  <2>1. Timely(req[p]) /\ req[p].since \in Nat
    BY SlotTyped DEF HeldInv
  <2>2. req[p].at # "idle" => req[p].since <= now + 1 /\ now + 1 <= req[p].since + MaxAge
    <3>1. req[p].at # "idle" => now < req[p].since + MaxAge
      BY DEF Time
    <3>2. QED BY <1>1, <2>1, <3>1, AccessAssumption DEF Timely
  <2>3. ASSUME req[p].at = "token.issue", NEW x \in req[p].roles
        PROVE  held'[req[p].user][x] >= req[p].since
    <3> DEFINE b == held[req[p].user][x]
    <3> DEFINE a == held'[req[p].user][x]
    <3>1. req[p].user \in Users /\ x \in Roles
      BY <2>3, SlotTyped DEF RequestOK
    <3>2. b \in Int /\ a \in Int /\ a >= b
      BY <1>3, <3>1
    <3>3. b >= req[p].since
      BY <2>1, <2>3 DEF Timely
    <3> HIDE DEF a, b
    <3>4. a >= req[p].since
      BY <2>1, <3>2, <3>3
    <3>5. QED BY <3>4 DEF a
  <2>4. QED BY <1>1, <2>2, <2>3 DEF Timely
<1>6. ASSUME NEW t \in tokens' PROVE Backed(t)'
  <2>1. t \in tokens /\ Alive(t)
    BY DEF Time
  <2>2. t.user \in Users /\ t.roles \subseteq Roles /\ t.born \in Nat
    BY <2>1 DEF TypeInv, TokensOK, LimiterTypeOK
  <2>3. \A x \in t.roles : held'[t.user][x] + MaxAge >= t.born
    <3> TAKE x \in t.roles
    <3> DEFINE b == held[t.user][x]
    <3> DEFINE a == held'[t.user][x]
    <3>1. b \in Int /\ a \in Int /\ a >= b
      BY <1>3, <2>2
    <3>2. b + MaxAge >= t.born
      BY <2>1 DEF HeldInv, Backed
    <3> HIDE DEF a, b
    <3>3. a + MaxAge >= t.born
      BY <2>2, <3>1, <3>2, AccessAssumption
    <3>4. QED BY <3>3 DEF a
  <2>4. now' < t.born + TTL
    BY <1>1, <2>1 DEF Alive
  <2>5. QED BY <2>3, <2>4 DEF Backed
<1>7. QED BY <1>4, <1>5, <1>6 DEF HeldInv

LEMMA HeldInvInit == Init => HeldInv
<1> SUFFICES ASSUME Init PROVE HeldInv
  OBVIOUS
<1>1. TypeInv
  BY TypeInvInit
<1>2. \A u \in Users : \A x \in user[u].roles : held[u][x] = now
  BY <1>1 DEF Init, LimiterInit, TypeInv, UsersOK, UserRows
<1>3. \A p \in Slots : Timely(req[p])
  BY NoRequestTimely DEF Init, Timely
<1>4. QED BY <1>2, <1>3 DEF Init, HeldInv

LEMMA HeldInvNext == TypeInv /\ HeldInv /\ [Next]_vars => HeldInv'
<1> SUFFICES ASSUME TypeInv, HeldInv, [Next]_vars PROVE HeldInv'
  OBVIOUS
<1>1. TypeInv'
  BY TypeInvNext
<1>2. ASSUME NEW ip \in Ips, TurnAway(ip), UNCHANGED accessVars PROVE HeldInv'
  BY <1>1, <1>2, HeldReads DEF TurnAway, accessVars
<1>3. CASE Crash
  <2>1. now' = now /\ UNCHANGED <<user, tokens, held>>
    BY <1>3 DEF Crash, Restart
  <2>2. \A p \in Slots : Timely(req[p])'
    BY <1>3, NoRequestTimely DEF Crash, Timely
  <2>3. QED BY <1>1, <2>1, <2>2, HeldReads
<1>4. CASE UNCHANGED vars
  BY <1>1, <1>4, HeldReads DEF vars, limiterVars, accessVars
<1>5. QED BY <1>1, <1>2, <1>3, <1>4, HeldRequests, HeldWrites, HeldTime DEF Next

\* A role that is taken away opens nothing once the tokens that carry it are gone.
THEOREM RolesDoLapse == Spec => []RolesLapse
<1>1. Init => TypeInv /\ HeldInv
  BY TypeInvInit, HeldInvInit
<1>2. TypeInv /\ HeldInv /\ [Next]_vars => (TypeInv /\ HeldInv)'
  BY TypeInvNext, HeldInvNext
<1>3. QED BY <1>1, <1>2, HeldInvSuffices, PTL DEF Spec

-----------------------------------------------------------------------------
(* Reset links.  A link that can still be looked at has set no password, so  *)
(* the requests that will use it are all in a slot then, at most one each.   *)

Using(l) == {p \in Slots : req[p].link = l}

LinkInv ==
  /\ \A l \in Links : link[l].open \/ link[l].user = NoUser => uses[l] = 0
  /\ LinkUsesBounded

LEMMA UsingFinite == \A l \in Links :
  IsFiniteSet(Using(l)) /\ Cardinality(Using(l)) \in Nat /\ Cardinality(Using(l)) <= Cardinality(Slots)
<1> TAKE l \in Links
<1>1. Using(l) \subseteq Slots /\ IsFiniteSet(Slots)
  BY AccessAssumption DEF Using
<1>2. QED BY <1>1, FS_Subset, FS_CardinalityType

\* Nobody uses a link more, and fewer may be about to.
LEMMA LinkMoves ==
  ASSUME TypeInv, LinkInv, uses' = uses,
         \A l \in Links : Using(l)' \subseteq Using(l),
         \A l \in Links : link'[l].open \/ link'[l].user = NoUser
                            => link[l].open \/ link[l].user = NoUser
  PROVE  LinkInv'
<1>1. ASSUME NEW l \in Links
      PROVE  uses'[l] + Cardinality(Using(l)') <= Cardinality(Slots)
  <2> DEFINE new == Using(l)'
  <2> DEFINE old == Using(l)
  <2>1. IsFiniteSet(old) /\ Cardinality(old) \in Nat
    BY UsingFinite
  <2>2. new \subseteq old
    OBVIOUS
  <2> HIDE DEF new, old
  <2>3. Cardinality(new) \in Nat /\ Cardinality(new) <= Cardinality(old)
    BY <2>1, <2>2, FS_Subset, FS_CardinalityType
  <2>4. uses[l] + Cardinality(old) <= Cardinality(Slots) /\ uses[l] \in Nat
    BY DEF LinkInv, LinkUsesBounded, Using, old, TypeInv
  <2>5. Cardinality(Slots) \in Nat
    BY AccessAssumption, FS_CardinalityType
  <2>6. uses[l] + Cardinality(new) <= Cardinality(Slots)
    BY <2>1, <2>3, <2>4, <2>5
  <2>7. QED BY <2>6 DEF new
<1>2. LinkUsesBounded'
  BY <1>1 DEF LinkUsesBounded, Using
<1>3. QED BY <1>2 DEF LinkInv

\* A slot that goes on for no link, or for the link it had, is no user more.
LEMMA SlotLeaves ==
  ASSUME NEW p \in Slots, \A q \in Slots : q # p => req'[q] = req[q],
         req'[p].link = NoLink \/ req'[p].link = req[p].link
  PROVE  \A l \in Links : Using(l)' \subseteq Using(l)
BY AccessAssumption DEF Using

\* A look at a link: it has set nothing yet, and there is a slot for each user.
LEMMA LinkLooks ==
  ASSUME TypeInv, LinkInv, NEW p \in Slots, NEW l \in Links, ResetPassword(p, l)
  PROVE  LinkInv'
<1>1. uses[l] = 0 /\ uses' = uses /\ link' = link
  BY DEF ResetPassword, LinkOpen, LinkInv
<1>2. \A q \in Slots : req'[q] = IF q = p THEN Request("reset.commit", link[l].user, l, {}, {})
                                         ELSE req[q]
  BY DEF ResetPassword, Begin, TypeInv, SlotsOK
<1>3. Using(l)' \subseteq Slots /\ \A k \in Links \ {l} : Using(k)' \subseteq Using(k)
  BY <1>2 DEF Using, Request
<1>4. ASSUME NEW k \in Links
      PROVE  uses'[k] + Cardinality(Using(k)') <= Cardinality(Slots)
  <2> DEFINE new == Using(k)'
  <2> DEFINE old == Using(k)
  <2>1. Cardinality(Slots) \in Nat /\ IsFiniteSet(Slots) /\ uses[k] \in Nat
    BY AccessAssumption, FS_CardinalityType DEF TypeInv
  <2>2. IsFiniteSet(old) /\ Cardinality(old) \in Nat
    BY UsingFinite
  <2>3. uses[k] + Cardinality(old) <= Cardinality(Slots)
    BY DEF LinkInv, LinkUsesBounded, Using
  <2>4. IF k = l THEN new \subseteq Slots ELSE new \subseteq old
    BY <1>3
  <2> HIDE DEF new, old
  <2>5. IF k = l THEN Cardinality(new) \in Nat /\ Cardinality(new) <= Cardinality(Slots)
                 ELSE Cardinality(new) \in Nat /\ Cardinality(new) <= Cardinality(old)
    BY <2>1, <2>2, <2>4, FS_Subset, FS_CardinalityType
  <2>6. uses[k] + Cardinality(new) <= Cardinality(Slots)
    BY <1>1, <2>1, <2>2, <2>3, <2>5
  <2>7. QED BY <1>1, <2>6 DEF new
<1>5. LinkUsesBounded'
  BY <1>4 DEF LinkUsesBounded, Using
<1>6. QED BY <1>1, <1>5 DEF LinkInv

\* A use: the slot that had the link no longer has it.
LEMMA LinkCommits ==
  ASSUME TypeInv, LinkInv, NEW p \in Slots, ResetCommit(p)
  PROVE  LinkInv'
<1>1. PICK l \in Links : l = req[p].link /\ link[l].user # NoUser
  BY SlotTyped DEF ResetCommit, RequestOK
<1>2. /\ \A k \in Links : uses'[k] = IF k = l THEN uses[l] + 1 ELSE uses[k]
      /\ \A k \in Links \ {l} : link'[k] = link[k]
      /\ link'[l].user = link[l].user /\ link'[l].open = FALSE
  BY <1>1 DEF ResetCommit, TypeInv, LinkRows
<1>3. \A q \in Slots : req'[q] = IF q = p THEN NoRequest ELSE req[q]
  BY DEF ResetCommit, Finish, TypeInv, SlotsOK
<1>4. Using(l)' = Using(l) \ {p} /\ p \in Using(l)
  BY <1>1, <1>3, AccessAssumption DEF Using, NoRequest
<1>5. \A k \in Links \ {l} : Using(k)' = Using(k)
  BY <1>1, <1>3, AccessAssumption DEF Using, NoRequest
<1>6. ASSUME NEW k \in Links
      PROVE  uses'[k] + Cardinality(Using(k)') <= Cardinality(Slots)
  <2> DEFINE old == Using(k)
  <2>1. Cardinality(Slots) \in Nat /\ uses[k] \in Nat
    BY AccessAssumption, FS_CardinalityType DEF TypeInv
  <2>2. IsFiniteSet(old) /\ Cardinality(old) \in Nat
    BY UsingFinite
  <2>3. uses[k] + Cardinality(old) <= Cardinality(Slots)
    BY DEF LinkInv, LinkUsesBounded, Using
  <2>4. CASE k = l
    <3>1. Using(k)' = old \ {p} /\ p \in old
      BY <1>4, <2>4
    <3> HIDE DEF old
    <3>2. Cardinality(old \ {p}) = Cardinality(old) - 1
      BY <2>2, <3>1, FS_RemoveElement
    <3>3. uses'[k] = uses[k] + 1
      BY <1>2, <2>4
    <3>4. QED BY <2>1, <2>2, <2>3, <3>1, <3>2, <3>3
  <2>5. CASE k # l
    <3>1. Using(k)' = old /\ uses'[k] = uses[k]
      BY <1>2, <1>5, <2>5
    <3> HIDE DEF old
    <3>2. QED BY <2>3, <3>1
  <2>6. QED BY <2>4, <2>5
<1>7. LinkUsesBounded'
  BY <1>6 DEF LinkUsesBounded, Using
<1>8. \A k \in Links : link'[k].open \/ link'[k].user = NoUser => uses'[k] = 0
  BY <1>1, <1>2 DEF LinkInv
<1>9. QED BY <1>7, <1>8 DEF LinkInv

LEMMA LinkInvInit == Init => LinkInv
<1> SUFFICES ASSUME Init PROVE LinkInv
  OBVIOUS
<1>1. \A l \in Links : Using(l) = {}
  BY AccessAssumption DEF Init, Using, NoRequest
<1>2. Cardinality(Slots) \in Nat /\ Cardinality({}) = 0
  BY AccessAssumption, FS_CardinalityType, FS_EmptySet
<1>3. ASSUME NEW l \in Links
      PROVE  uses[l] + Cardinality(Using(l)) <= Cardinality(Slots)
  <2>1. uses[l] = 0 /\ Cardinality(Using(l)) = 0
    BY <1>1, <1>2 DEF Init
  <2>2. QED BY <1>2, <2>1
<1>4. QED BY <1>3 DEF LinkInv, LinkUsesBounded, Using, Init

LEMMA LinkInvNext == TypeInv /\ LinkInv /\ [Next]_vars => LinkInv'
<1> SUFFICES ASSUME TypeInv, LinkInv, [Next]_vars PROVE LinkInv'
  OBVIOUS
<1> DEFINE Fewer == \A l \in Links : Using(l)' \subseteq Using(l)
<1>1. ASSUME UNCHANGED <<link, uses>>, Fewer PROVE LinkInv'
  BY <1>1, LinkMoves
<1>2. ASSUME UNCHANGED <<link, uses, req>> PROVE LinkInv'
  BY <1>1, <1>2 DEF Using
<1>3. ASSUME NEW p \in Slots, UNCHANGED <<link, uses>>,
             \A q \in Slots : q # p => req'[q] = req[q],
             req'[p].link = NoLink \/ req'[p].link = req[p].link
      PROVE  LinkInv'
  <2>1. Fewer
    BY <1>3, SlotLeaves
  <2>2. QED BY <1>1, <1>3, <2>1
<1>4. ASSUME NEW p \in Slots, UNCHANGED <<link, uses>>, Finish(p) PROVE LinkInv'
  <2>1. req'[p].link = NoLink /\ \A q \in Slots : q # p => req'[q] = req[q]
    BY <1>4 DEF Finish, NoRequest, TypeInv, SlotsOK
  <2>2. QED BY <1>3, <1>4, <2>1
<1>5. ASSUME NEW p \in Slots, NEW u \in Users, NEW ip \in Ips, Login(p, u, ip) PROVE LinkInv'
  <2>1. UNCHANGED <<link, uses>>
    BY <1>5 DEF Login
  <2>2. CASE MayLogIn(u)
    <3>1. req'[p].link = NoLink /\ \A q \in Slots : q # p => req'[q] = req[q]
      BY <1>5, <2>2 DEF Login, Begin, Request, TypeInv, SlotsOK
    <3>2. QED BY <1>3, <2>1, <3>1
  <2>3. CASE ~MayLogIn(u)
    BY <1>2, <1>5, <2>1, <2>3 DEF Login
  <2>4. QED BY <2>2, <2>3
<1>6. ASSUME NEW p \in Slots, NEW u \in Users, Refresh(p, u) PROVE LinkInv'
  <2>1. req'[p].link = NoLink /\ \A q \in Slots : q # p => req'[q] = req[q]
    BY <1>6 DEF Refresh, Begin, Request, TypeInv, SlotsOK
  <2>2. UNCHANGED <<link, uses>>
    BY <1>6 DEF Refresh
  <2>3. QED BY <1>3, <2>1, <2>2
<1>7. ASSUME NEW p \in Slots, rolesForUser(p) PROVE LinkInv'
  <2>1. req'[p].link = req[p].link /\ \A q \in Slots : q # p => req'[q] = req[q]
    BY <1>7, SlotTyped DEF rolesForUser, RequestOK, Requests, TypeInv, SlotsOK
  <2>2. UNCHANGED <<link, uses>>
    BY <1>7 DEF rolesForUser
  <2>3. QED BY <1>3, <2>1, <2>2
<1>8. ASSUME NEW p \in Slots, IssueAccessToken(p) \/ RolesCommit(p) \/ Abort(p) PROVE LinkInv'
  BY <1>4, <1>8 DEF IssueAccessToken, RolesCommit, Abort
<1>9. ASSUME NEW p \in Slots, NEW a \in Users, NEW u \in Others, NEW roles \in RoleSets,
             SetUserRoles(p, a, u, roles)
      PROVE  LinkInv'
  <2>1. req'[p].link = NoLink /\ \A q \in Slots : q # p => req'[q] = req[q]
    BY <1>9 DEF SetUserRoles, Begin, Request, TypeInv, SlotsOK
  <2>2. UNCHANGED <<link, uses>>
    BY <1>9 DEF SetUserRoles
  <2>3. QED BY <1>3, <2>1, <2>2
<1>10. ASSUME NEW p \in Slots, RolesDelete(p) PROVE LinkInv'
  <2>1. req'[p].link = req[p].link /\ \A q \in Slots : q # p => req'[q] = req[q]
    BY <1>10, SlotTyped DEF RolesDelete, RequestOK, Requests, TypeInv, SlotsOK
  <2>2. UNCHANGED <<link, uses>>
    BY <1>10 DEF RolesDelete
  <2>3. QED BY <1>3, <2>1, <2>2
<1>11. ASSUME NEW p \in Slots, RolesInsert(p) PROVE LinkInv'
  <2>1. UNCHANGED <<link, uses>>
    BY <1>11 DEF RolesInsert
  <2>2. CASE Finish(p)
    BY <1>4, <2>1, <2>2
  <2>3. CASE req' = [req EXCEPT ![p].at = "roles.commit"]
    <3>1. req'[p].link = req[p].link /\ \A q \in Slots : q # p => req'[q] = req[q]
      BY <2>3, SlotTyped DEF RequestOK, Requests, TypeInv, SlotsOK
    <3>2. QED BY <1>3, <2>1, <3>1
  <2>4. QED BY <1>11, <2>2, <2>3 DEF RolesInsert
<1>12. ASSUME NEW l \in Links,
              (\E u \in Others : ForgotPassword(l, u)) \/ LinkExpires(l)
       PROVE  LinkInv'
  <2>1. uses' = uses /\ req' = req
    BY <1>12 DEF ForgotPassword, LinkExpires
  <2>2. \A k \in Links : link'[k].open \/ link'[k].user = NoUser
                           => link[k].open \/ link[k].user = NoUser
    BY <1>12 DEF ForgotPassword, RequestPasswordReset, LinkExpires, TypeInv, LinkRows
  <2>3. Fewer
    BY <2>1 DEF Using
  <2>4. QED BY <2>1, <2>2, <2>3, LinkMoves
<1>13. CASE Crash
  <2>1. Fewer
    BY <1>13, AccessAssumption DEF Crash, Using, NoRequest
  <2>2. QED BY <1>1, <1>13, <2>1 DEF Crash
<1>14. ASSUME \/ \E u \in Users : Logout(u)
              \/ \E a \in Users, u \in Others :
                   \/ \E roles \in RoleSets : CreateUser(a, u, roles)
                   \/ \E active \in BOOLEAN : UpdateUser(a, u, active)
                   \/ SetUserPassword(a, u)
              \/ \E ip \in Ips : TurnAway(ip) /\ UNCHANGED accessVars
              \/ Time
              \/ UNCHANGED vars
       PROVE  LinkInv'
  BY <1>2, <1>14 DEF Logout, CreateUser, UpdateUser, SetUserPassword, accessVars, vars, Time
<1>15. QED BY <1>5, <1>6, <1>7, <1>8, <1>9, <1>10, <1>11, <1>12, <1>13, <1>14,
              LinkLooks, LinkCommits DEF Next

\* A reset link sets at most as many passwords as requests overlap.
THEOREM LinksBounded == Spec => []LinkUsesBounded
<1>1. Init => TypeInv /\ LinkInv
  BY TypeInvInit, LinkInvInit
<1>2. TypeInv /\ LinkInv /\ [Next]_vars => (TypeInv /\ LinkInv)'
  BY TypeInvNext, LinkInvNext
<1>3. LinkInv => LinkUsesBounded
  BY DEF LinkInv
<1>4. QED BY <1>1, <1>2, <1>3, PTL DEF Spec
=============================================================================
