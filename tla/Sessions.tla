------------------------------ MODULE Sessions ------------------------------
(***************************************************************************)
(* The sessions of one account on the server (internal/auth/service.go):    *)
(* login, rotation of refresh tokens, logout, and setting the password.     *)
(* Statements about different accounts touch different rows.  As everywhere *)
(* in this server a handler is a sequence of statements, with one exception *)
(* here: setting a password is a transaction.                               *)
(*                                                                          *)
(* Left out: is_active and the reset links decide only whether a login or a *)
(* new password is let in at all.                                           *)
(*                                                                          *)
(* Who calls these handlers is the business of the module that extends this *)
(* one.                                                                     *)
(***************************************************************************)
EXTENDS Naturals

CONSTANTS Slots,         \* requests the server handles at the same time
          MaxTokens,     \* bound: refresh tokens issued
          MaxPasswords   \* bound: times the password is set

ASSUME BoundsAssumption == MaxTokens \in Nat /\ MaxPasswords \in Nat

\* Tokens are numbered in the order in which their rows come into being.
Tokens == 1 .. MaxTokens
NoToken == 0

VARIABLES
  issued,    \* the number of rows in refresh_tokens
  dead,      \* the tokens whose revoked_at is set or whose expires_at is past
  passwords, \* how often users.password_hash has been set
  call,      \* the request each slot is serving
  session,   \* history: the token each token's session began with
  outdated,  \* history: the tokens that go back to an earlier password: issued
             \* before it was last set, by a request let in before, or in
             \* exchange for such a token
  spared     \* history: the sessions which a request let in before the password
             \* was last set, and still at work then, goes on with or begins

tokenVars == <<issued, dead>>
historyVars == <<session, outdated, spared>>
serverVars == <<tokenVars, passwords, call, historyVars>>

live == (1 .. issued) \ dead

Refreshing == {"refresh.check", "refresh.revoke", "refresh.insert"}
Steps == {"idle", "login.insert", "logout.revoke", "reply", "failed"} \cup Refreshing

\* token: the refresh token presented, later the one issued.
\* overtaken: the password has been set since the request was let in.
Calls == [at : Steps, token : 0 .. MaxTokens, overtaken : BOOLEAN]
At(step, t) == [at |-> step, token |-> t, overtaken |-> FALSE]
NoCall == At("idle", NoToken)

ServerInit ==
  /\ issued = 0 /\ dead = {}
  /\ passwords = 0
  /\ call = [c \in Slots |-> NoCall]
  /\ session = [t \in Tokens |-> NoToken]
  /\ outdated = {} /\ spared = {}

Begin(c, step, t) ==
  /\ call[c].at = "idle"
  /\ call' = [call EXCEPT ![c] = At(step, t)]

Goto(c, step) == call' = [call EXCEPT ![c].at = step]

\* Nothing more is to be sent: refused, cut short, or nobody asks.
Fail(c) == call' = [call EXCEPT ![c] = At("failed", NoToken)]
Forget(c) == call' = [call EXCEPT ![c] = NoCall]

\* The context is cancelled, a statement fails or the process dies.
Abort(c) ==
  /\ call[c].at \notin {"idle", "failed", "reply"}
  /\ Fail(c)
  /\ UNCHANGED <<tokenVars, passwords, historyVars>>

-----------------------------------------------------------------------------
(* Login: check the password, issue a token.                                *)

Login(c) ==
  /\ Begin(c, "login.insert", NoToken)
  /\ UNCHANGED <<tokenVars, passwords, historyVars>>

\* issueRefreshToken, for a login or in exchange for another token.
issueRefreshToken(c) ==
  /\ issued < MaxTokens
  /\ LET t == issued + 1
         from == call[c].token IN
       /\ issued' = t
       /\ session' = [session EXCEPT ![t] = IF from = NoToken THEN t ELSE session[from]]
       /\ outdated' = IF from \in outdated \/ call[c].overtaken
                      THEN outdated \cup {t} ELSE outdated
       /\ spared' = IF from = NoToken /\ call[c].overtaken
                    THEN spared \cup {t} ELSE spared
       /\ call' = [call EXCEPT ![c] = At("reply", t)]
  /\ UNCHANGED <<dead, passwords>>

LoginInsert(c) ==
  /\ call[c].at = "login.insert"
  /\ issueRefreshToken(c)

-----------------------------------------------------------------------------
(* Refresh: check the token, revoke it, issue another.                      *)

\* Mutant: a token that is revoked or expired passes.
RefreshCheckAny(c) ==
  /\ call[c].at = "refresh.check"
  /\ Goto(c, "refresh.revoke")
  /\ UNCHANGED <<tokenVars, passwords, historyVars>>

RefreshCheck(c) ==
  /\ call[c].at = "refresh.check"
  /\ IF call[c].token \in live THEN Goto(c, "refresh.revoke") ELSE Fail(c)
  /\ UNCHANGED <<tokenVars, passwords, historyVars>>

\* Mutant: the old token is not revoked.
RefreshRevokeNot(c) ==
  /\ call[c].at = "refresh.revoke"
  /\ Goto(c, "refresh.insert")
  /\ UNCHANGED <<tokenVars, passwords, historyVars>>

RefreshRevoke(c) ==
  /\ call[c].at = "refresh.revoke"
  /\ dead' = dead \cup {call[c].token}
  /\ Goto(c, "refresh.insert")
  /\ UNCHANGED <<issued, passwords, historyVars>>

RefreshInsert(c) ==
  /\ call[c].at = "refresh.insert"
  /\ issueRefreshToken(c)

Logout(c) ==
  /\ call[c].at = "logout.revoke"
  /\ dead' = dead \cup {call[c].token}
  /\ Fail(c)
  /\ UNCHANGED <<issued, passwords, historyVars>>

-----------------------------------------------------------------------------
(* Passwords.                                                               *)

\* A request that has passed its check, of the password or of a refresh token,
\* goes on to issue a token.
LetIn == {"login.insert", "refresh.revoke", "refresh.insert"}

Overtake ==
  /\ call' = [c \in Slots |->
               [call[c] EXCEPT !.overtaken = @ \/ call[c].at \in LetIn]]
  /\ spared' = {session[call[c].token] :
                  c \in {d \in Slots : call[d].at \in {"refresh.revoke", "refresh.insert"}}}

\* The transaction AdminSetPassword and ResetPassword end with: the new hash,
\* and every refresh token of the account revoked.
SetPassword ==
  /\ passwords < MaxPasswords
  /\ passwords' = passwords + 1
  /\ dead' = dead \cup 1 .. issued
  /\ outdated' = 1 .. issued
  /\ Overtake
  /\ UNCHANGED <<issued, session>>

\* RefreshTokenTTL, seven days.
Expire ==
  /\ \E t \in live : dead' = dead \cup {t}
  /\ UNCHANGED <<issued, passwords, call, historyVars>>

-----------------------------------------------------------------------------
\* What the handler in slot c does next.
Serve(c) ==
  \/ LoginInsert(c)
  \/ RefreshCheck(c) \/ RefreshRevoke(c) \/ RefreshInsert(c)
  \/ Logout(c)

ServerTypeOK ==
  /\ issued \in 0 .. MaxTokens /\ dead \subseteq 1 .. issued
  /\ passwords \in 0 .. MaxPasswords
  /\ call \in [Slots -> Calls]
  /\ session \in [Tokens -> 0 .. MaxTokens]
  /\ outdated \subseteq 1 .. issued /\ spared \subseteq 1 .. issued

\* "any sessions issued under the old password are invalidated" (ResetPassword).
\* This does not hold: a login or a refresh let in before issues its token after.
OldSessionsDead == outdated \cap live = {}

\* What does hold: the only sessions that outlive the password they go back to
\* are those of the requests that were past their check when the new one was
\* set.  No other session comes back, by whatever refresh that is let in later,
\* and the next password ends these as well.
OldSessionsSpared == \A t \in outdated \cap live : session[t] \in spared
=============================================================================
