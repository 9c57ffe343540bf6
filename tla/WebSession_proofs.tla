-------------------------- MODULE WebSession_proofs --------------------------
(***************************************************************************)
(* Theorems about the sessions of an account, for any number of slots,      *)
(* tabs, requests, tokens and passwords.                                    *)
(*                                                                          *)
(* Most actions of the client leave the server's rows alone and the         *)
(* server's actions leave the client alone; the invariant is split the same *)
(* way, and each half is shown for the kinds of step there are.             *)
(***************************************************************************)
EXTENDS WebSession, TLAPS

\* What a slot may hold: a login presents no token, the other requests one that
\* has been issued.
Sound(d, n) ==
  /\ d \in Calls
  /\ d.at = "login.insert" => d.token = NoToken
  /\ d.at = "refresh.check" => ~d.overtaken
  /\ d.at \in Refreshing \cup {"logout.revoke", "reply"} => d.token \in 1 .. n

\* Every token knows the session it belongs to.
SessionOK == \A t \in 1 .. issued : session[t] \in 1 .. issued

ServerInv == ServerTypeOK /\ SessionOK /\ \A c \in Slots : Sound(call[c], issued)

\* A refresh that was let in before the password was set, or with a token that
\* goes back to an earlier one, goes on with a session that is spared.
Spares(d, old, ses, spare) ==
  d.at \in {"refresh.revoke", "refresh.insert"} /\ (d.token \in old \/ d.overtaken)
    => ses[d.token] \in spare

PasswordInv ==
  OldSessionsSpared /\ \A c \in Slots : Spares(call[c], outdated, session, spared)

ClientTypeOK ==
  /\ stored \in 0 .. issued /\ fresh \in BOOLEAN
  /\ fetch \in [Tabs -> [Fetches -> {"idle", "sent", "stale", "waiting"}]]
  /\ flight \in [Tabs -> Slots \cup {NoSlot}]
  /\ login \in [Tabs -> Slots \cup {NoSlot}]
  /\ abandoned \subseteq 1 .. issued /\ loggedOut \subseteq 1 .. issued

Inv == ServerInv /\ ClientTypeOK /\ PasswordInv

ServerKept == ServerInv' /\ (PasswordInv => PasswordInv')

-----------------------------------------------------------------------------
(* The server's half.                                                       *)

\* One slot goes on, tokens may die, and nothing else changes.
LEMMA SlotKeeps ==
  ASSUME ServerInv, NEW c \in Slots, NEW d,
         call' = [call EXCEPT ![c] = d], Sound(d, issued),
         PasswordInv => Spares(d, outdated, session, spared),
         dead \subseteq dead', dead' \subseteq 1 .. issued,
         UNCHANGED <<issued, passwords, historyVars>>
  PROVE  ServerKept
<1>1. \A e \in Slots : call'[e] = IF e = c THEN d ELSE call[e]
  BY DEF ServerInv, ServerTypeOK
<1>2. call' \in [Slots -> Calls]
  BY DEF ServerInv, ServerTypeOK, Sound
<1>3. ServerTypeOK' /\ SessionOK'
  BY <1>2 DEF ServerInv, ServerTypeOK, SessionOK, historyVars
<1>4. \A e \in Slots : Sound(call'[e], issued')
  BY <1>1 DEF ServerInv, Sound, historyVars
<1>5. PasswordInv => PasswordInv'
  BY <1>1 DEF PasswordInv, Spares, OldSessionsSpared, live, historyVars
<1> QED BY <1>3, <1>4, <1>5 DEF ServerInv, ServerKept

\* A slot that has nothing in it is sound.
LEMMA EmptySound ==
  ASSUME NEW step \in {"idle", "failed"}
  PROVE  /\ Sound(At(step, NoToken), issued)
         /\ Spares(At(step, NoToken), outdated, session, spared)
<1> DEFINE d == At(step, NoToken)
<1>1. NoToken \in 0 .. MaxTokens /\ step \in Steps
  BY BoundsAssumption DEF NoToken, Steps
<1>2. d \in Calls
  BY <1>1 DEF At, Calls
<1> QED BY <1>2 DEF At, Sound, Spares, Refreshing

LEMMA ForgetKeeps ==
  ASSUME ServerInv, NEW c \in Slots, Forget(c),
         UNCHANGED <<tokenVars, passwords, historyVars>>
  PROVE  ServerKept
<1>1. Sound(NoCall, issued) /\ Spares(NoCall, outdated, session, spared)
  BY EmptySound DEF NoCall
<1>2. dead' \subseteq 1 .. issued
  BY DEF ServerInv, ServerTypeOK, tokenVars
<1> QED BY <1>1, <1>2, SlotKeeps DEF Forget, tokenVars

LEMMA FailKeeps ==
  ASSUME ServerInv, NEW c \in Slots, Fail(c),
         dead \subseteq dead', dead' \subseteq 1 .. issued,
         UNCHANGED <<issued, passwords, historyVars>>
  PROVE  ServerKept
  BY EmptySound, SlotKeeps DEF Fail

LEMMA BeginKeeps ==
  ASSUME ServerInv, NEW c \in Slots, NEW step, NEW t, Begin(c, step, t),
         \/ step = "login.insert" /\ t = NoToken
         \/ step \in {"refresh.check", "logout.revoke"} /\ t \in 1 .. issued,
         UNCHANGED <<tokenVars, passwords, historyVars>>
  PROVE  ServerKept
<1> DEFINE d == At(step, t)
<1>1. Sound(d, issued) /\ Spares(d, outdated, session, spared)
  <2>1. t \in 0 .. MaxTokens /\ step \in Steps
    BY BoundsAssumption DEF NoToken, Steps, Refreshing, ServerInv, ServerTypeOK
  <2>2. d \in Calls
    BY <2>1 DEF At, Calls
  <2> QED BY <2>2 DEF At, Sound, Spares, Refreshing
<1>2. dead' \subseteq 1 .. issued
  BY DEF ServerInv, ServerTypeOK, tokenVars
<1> HIDE DEF d
<1>3. call' = [call EXCEPT ![c] = d]
  BY DEF Begin, d
<1> QED BY <1>1, <1>2, <1>3, SlotKeeps DEF tokenVars

LEMMA IssueKeeps ==
  ASSUME ServerInv, NEW c \in Slots, issueRefreshToken(c),
         call[c].at \in {"login.insert", "refresh.insert"}
  PROVE  ServerKept
<1> DEFINE t == issued + 1
           d == At("reply", t)
<1>1. /\ issued \in 0 .. MaxTokens /\ issued < MaxTokens
      /\ issued' = t /\ t \in Tokens /\ dead' = dead
      /\ call' = [call EXCEPT ![c] = d] /\ passwords' = passwords
  BY BoundsAssumption DEF issueRefreshToken, ServerInv, ServerTypeOK, Tokens
<1>2. Sound(d, issued') /\ Spares(d, outdated', session', spared')
  <2>1. t \in 0 .. MaxTokens /\ t \in 1 .. t
    BY <1>1, BoundsAssumption DEF Tokens
  <2>2. d \in Calls
    BY <2>1 DEF At, Calls, Steps
  <2> QED BY <1>1, <2>1, <2>2 DEF At, Sound, Spares, Refreshing
<1>3. \A e \in Slots : call'[e] = IF e = c THEN d ELSE call[e]
  BY <1>1 DEF ServerInv, ServerTypeOK
<1>4. \A e \in Slots : Sound(call'[e], issued')
  <2>1. \A e \in Slots : Sound(call[e], issued) /\ issued \in Nat /\ issued' = issued + 1
    BY <1>1 DEF ServerInv
  <2> QED BY <1>2, <1>3, <2>1 DEF Sound
<1>5. \/ call[c].token = NoToken /\ session' = [session EXCEPT ![t] = t]
      \/ /\ call[c].token \in 1 .. issued
         /\ session' = [session EXCEPT ![t] = session[call[c].token]]
  <2>1. Sound(call[c], issued)
    BY DEF ServerInv
  <2>2. NoToken \notin 1 .. issued
    BY DEF NoToken
  <2> QED BY <2>1, <2>2 DEF Sound, Refreshing, issueRefreshToken
<1>6. SessionOK' /\ session' \in [Tokens -> 0 .. MaxTokens]
  <2>1. /\ session \in [Tokens -> 0 .. MaxTokens]
        /\ \A s \in 1 .. issued : s \in Tokens /\ session[s] \in 1 .. issued
    BY <1>1, BoundsAssumption DEF ServerInv, ServerTypeOK, SessionOK, Tokens
  <2>2. \A s \in 1 .. issued' : s = t \/ s \in 1 .. issued
    BY <1>1
  <2>3. session'[t] \in 1 .. issued' /\ session'[t] \in 0 .. MaxTokens
    <3>1. session'[t] = t \/ session'[t] \in 1 .. issued
      BY <1>1, <1>5, <2>1
    <3> QED BY <1>1, <3>1, BoundsAssumption DEF Tokens
  <2>4. \A s \in 1 .. issued : session'[s] = session[s]
    BY <1>1, <1>5, <2>1
  <2>5. session' \in [Tokens -> 0 .. MaxTokens]
    BY <1>1, <1>5, <2>1 DEF Tokens
  <2> QED BY <1>1, <2>1, <2>2, <2>3, <2>4, <2>5 DEF SessionOK
<1>7. ServerTypeOK'
  <2>1. call' \in [Slots -> Calls]
    BY <1>1, <1>2 DEF ServerInv, ServerTypeOK, Sound
  <2>2. outdated' \subseteq 1 .. issued' /\ spared' \subseteq 1 .. issued'
    BY <1>1 DEF issueRefreshToken, ServerInv, ServerTypeOK
  <2> QED BY <1>1, <1>6, <2>1, <2>2 DEF ServerInv, ServerTypeOK, Tokens
<1>8. PasswordInv => PasswordInv'
  <2> HAVE PasswordInv
  <2>1. /\ \A e \in Slots : /\ Spares(call[e], outdated, session, spared)
                            /\ Sound(call[e], issued)
        /\ outdated \subseteq 1 .. issued /\ NoToken \notin 1 .. issued /\ t \notin 1 .. issued
    BY <1>1 DEF PasswordInv, ServerInv, ServerTypeOK, NoToken
  <2>2. /\ outdated \subseteq outdated' /\ outdated' \subseteq outdated \cup {t}
        /\ spared \subseteq spared'
        /\ t \in outdated' => call[c].token \in outdated \/ call[c].overtaken
        /\ call[c].token = NoToken /\ call[c].overtaken => t \in spared'
    BY <2>1 DEF issueRefreshToken
  <2>3. \A s \in 1 .. issued : session'[s] = session[s]
    <3>1. \A s \in 1 .. issued : s \in Tokens /\ s # t
      BY <1>1, <2>1, BoundsAssumption DEF Tokens
    <3> QED BY <1>5, <3>1 DEF ServerInv, ServerTypeOK
  <2>4. t \in outdated' => session'[t] \in spared'
    <3>1. CASE call[c].token = NoToken
      BY <1>1, <1>5, <2>1, <2>2, <3>1 DEF ServerInv, ServerTypeOK
    <3>2. CASE call[c].token # NoToken
      <4>1. call[c].at = "refresh.insert" /\ call[c].token \in 1 .. issued
        BY <2>1, <3>2 DEF Sound, Refreshing
      <4>2. session'[t] = session[call[c].token]
        BY <1>1, <1>5, <3>2 DEF ServerInv, ServerTypeOK
      <4> QED BY <2>1, <2>2, <4>1, <4>2 DEF Spares
    <3> QED BY <3>1, <3>2
  <2>5. OldSessionsSpared'
    BY <1>1, <2>1, <2>2, <2>3, <2>4 DEF PasswordInv, OldSessionsSpared, live
  <2>6. ASSUME NEW e \in Slots
        PROVE  Spares(call'[e], outdated', session', spared')
    <3>1. CASE e = c
      BY <1>2, <1>3, <3>1
    <3>2. CASE e # c
      <4>1. call'[e] = call[e]
        BY <1>3, <3>2
      <4>2. call[e].at \in {"refresh.revoke", "refresh.insert"}
              => call[e].token \in 1 .. issued
        BY <2>1 DEF Sound, Refreshing
      <4> QED BY <2>1, <2>2, <2>3, <4>1, <4>2 DEF Spares
    <3> QED BY <3>1, <3>2
  <2> QED BY <2>5, <2>6 DEF PasswordInv
<1> QED BY <1>4, <1>6, <1>7, <1>8 DEF ServerInv, ServerKept

LEMMA ServeKeeps ==
  ASSUME ServerInv, NEW c \in Slots, Serve(c) \/ Abort(c)
  PROVE  ServerKept
<1> USE DEF ServerInv
<1>1. Sound(call[c], issued) /\ dead \subseteq 1 .. issued
  BY DEF ServerTypeOK
<1>2. CASE LoginInsert(c) \/ RefreshInsert(c)
  BY <1>2, IssueKeeps DEF LoginInsert, RefreshInsert
<1>3. CASE RefreshCheck(c) /\ call[c].token \in live
  <2> DEFINE d == [call[c] EXCEPT !.at = "refresh.revoke"]
  <2>1. call' = [call EXCEPT ![c] = d]
    BY <1>3 DEF RefreshCheck, Goto
  <2>2. Sound(d, issued) /\ d.token \in live
    BY <1>1, <1>3 DEF RefreshCheck, Sound, Calls, Steps, Refreshing
  <2>3. PasswordInv => Spares(d, outdated, session, spared)
    <3>1. d.token = call[c].token /\ d.overtaken = call[c].overtaken
      BY <1>1 DEF Sound, Calls
    <3>2. ~call[c].overtaken
      BY <1>1, <1>3 DEF RefreshCheck, Sound
    <3> QED BY <2>2, <3>1, <3>2 DEF PasswordInv, Spares, OldSessionsSpared
  <2> HIDE DEF d
  <2> QED BY <1>1, <1>3, <2>1, <2>2, <2>3, SlotKeeps DEF RefreshCheck, tokenVars
<1>4. CASE RefreshCheck(c) /\ call[c].token \notin live
  BY <1>1, <1>4, FailKeeps DEF RefreshCheck, tokenVars
<1>5. CASE RefreshRevoke(c)
  <2> DEFINE d == [call[c] EXCEPT !.at = "refresh.insert"]
  <2>1. call' = [call EXCEPT ![c] = d]
    BY <1>5 DEF RefreshRevoke, Goto
  <2>2. Sound(d, issued) /\ call[c].token \in 1 .. issued
    BY <1>1, <1>5 DEF RefreshRevoke, Sound, Calls, Steps, Refreshing
  <2>3. PasswordInv => Spares(d, outdated, session, spared)
    BY <1>1, <1>5 DEF PasswordInv, Spares, RefreshRevoke, Sound, Calls
  <2>4. dead \subseteq dead' /\ dead' \subseteq 1 .. issued
    BY <1>1, <1>5, <2>2 DEF RefreshRevoke
  <2> HIDE DEF d
  <2> QED BY <1>5, <2>1, <2>2, <2>3, <2>4, SlotKeeps DEF RefreshRevoke
<1>6. CASE Logout(c)
  <2>1. call[c].token \in 1 .. issued
    BY <1>1, <1>6 DEF Logout, Sound
  <2> QED BY <1>1, <1>6, <2>1, FailKeeps DEF Logout
<1>7. CASE Abort(c)
  BY <1>1, <1>7, FailKeeps DEF Abort, tokenVars
<1> QED BY <1>2, <1>3, <1>4, <1>5, <1>6, <1>7 DEF Serve

\* The transaction ends every token issued so far; the sessions of the refreshes
\* that were let in before are the ones it spares.
LEMMA PasswordSet ==
  ASSUME ServerInv, SetPassword
  PROVE  ServerInv' /\ PasswordInv'
<1> DEFINE over(d) == [d EXCEPT !.overtaken = @ \/ d.at \in LetIn]
<1>1. \A c \in Slots : call'[c] = over(call[c]) /\ Sound(call[c], issued)
  BY DEF SetPassword, Overtake, ServerInv
<1>2. \A d \in Calls : /\ over(d) \in Calls
                       /\ over(d).at = d.at /\ over(d).token = d.token
                       /\ d.at = "refresh.check" => over(d).overtaken = d.overtaken
  BY DEF Calls, LetIn
<1> HIDE DEF over
<1>3. \A c \in Slots : Sound(call'[c], issued')
  BY <1>1, <1>2 DEF Sound, SetPassword
<1>4. \A c \in Slots : call[c].at \in {"refresh.revoke", "refresh.insert"}
                        => session[call[c].token] \in 1 .. issued
  BY <1>1 DEF Sound, Refreshing, ServerInv, SessionOK
<1>5. spared' = {session[call[c].token] : c \in
                  {d \in Slots : call[d].at \in {"refresh.revoke", "refresh.insert"}}}
  BY DEF SetPassword, Overtake
<1>6. ServerTypeOK'
  <2>1. call' \in [Slots -> Calls]
    <3>1. call' = [c \in Slots |-> over(call[c])]
      BY DEF SetPassword, Overtake, over
    <3> QED BY <1>1, <1>2, <3>1 DEF Sound
  <2>2. spared' \subseteq 1 .. issued
    BY <1>4, <1>5
  <2> QED BY <2>1, <2>2, BoundsAssumption DEF ServerInv, ServerTypeOK, SetPassword
<1>7. SessionOK'
  BY DEF ServerInv, SessionOK, SetPassword
<1>8. PasswordInv'
  <2>1. OldSessionsSpared'
    BY DEF SetPassword, OldSessionsSpared, live
  <2>2. ASSUME NEW c \in Slots
        PROVE  Spares(call'[c], outdated', session', spared')
    <3>1. call'[c].at = call[c].at /\ call'[c].token = call[c].token
      BY <1>1, <1>2 DEF Sound
    <3> QED BY <1>5, <3>1 DEF Spares, SetPassword
  <2> QED BY <2>1, <2>2 DEF PasswordInv
<1> QED BY <1>3, <1>6, <1>7, <1>8 DEF ServerInv

LEMMA ExpireKeeps ==
  ASSUME ServerInv, Expire
  PROVE  ServerKept
<1>1. dead \subseteq dead' /\ dead' \subseteq 1 .. issued /\ issued' = issued
  BY DEF ServerInv, ServerTypeOK, Expire, live
<1> QED BY <1>1 DEF ServerKept, ServerInv, ServerTypeOK, SessionOK, Sound, PasswordInv,
                    Spares, OldSessionsSpared, live, Expire, historyVars

LEMMA RestKeeps ==
  ASSUME ServerInv, UNCHANGED serverVars
  PROVE  ServerKept
  BY DEF ServerKept, ServerInv, ServerTypeOK, SessionOK, Sound, PasswordInv, Spares,
         OldSessionsSpared, live, serverVars, tokenVars, historyVars

\* A step of the server issues at most one token.
LEMMA IssuedGrows ==
  ASSUME ServerInv,
         \/ UNCHANGED issued
         \/ \E c \in Slots : Serve(c) \/ Abort(c)
  PROVE  issued \in Nat /\ issued' \in Nat /\ issued <= issued'
<1>1. issued \in Nat
  BY BoundsAssumption DEF ServerInv, ServerTypeOK
<1>2. issued' = issued \/ issued' = issued + 1
  BY DEF Serve, Abort, LoginInsert, RefreshCheck, RefreshRevoke, RefreshInsert, Logout,
         issueRefreshToken, tokenVars
<1> QED BY <1>1, <1>2

-----------------------------------------------------------------------------
(* The client's half.                                                       *)

\* The client is left alone while tokens are issued.
LEMMA ClientLeft ==
  ASSUME ClientTypeOK, UNCHANGED clientVars,
         issued \in Nat, issued' \in Nat, issued <= issued'
  PROVE  ClientTypeOK'
<1>1. 0 .. issued \subseteq 0 .. issued' /\ 1 .. issued \subseteq 1 .. issued'
  OBVIOUS
<1>2. stored' \in 0 .. issued' /\ abandoned' \subseteq 1 .. issued'
      /\ loggedOut' \subseteq 1 .. issued'
  BY <1>1 DEF ClientTypeOK, clientVars, storageVars
<1> QED BY <1>2 DEF ClientTypeOK, clientVars, storageVars

\* Whatever waits is set going by one assignment.
LEMMA ResumeType ==
  ASSUME ClientTypeOK, NEW b \in Tabs, NEW step \in {"idle", "sent"}, Resume(b, step)
  PROVE  fetch' \in [Tabs -> [Fetches -> {"idle", "sent", "stale", "waiting"}]]
<1>1. fetch[b] \in [Fetches -> {"idle", "sent", "stale", "waiting"}]
  BY DEF ClientTypeOK
<1>2. [f \in Fetches |-> IF fetch[b][f] = "waiting" THEN step ELSE fetch[b][f]]
        \in [Fetches -> {"idle", "sent", "stale", "waiting"}]
  BY <1>1
<1> QED BY <1>2 DEF ClientTypeOK, Resume

LEMMA ClearType ==
  ASSUME clearSession, issued' \in Nat
  PROVE  stored' \in 0 .. issued' /\ fresh' \in BOOLEAN
<1>1. stored' \in 0 .. issued'
  BY DEF clearSession, NoToken
<1>2. fresh' \in BOOLEAN
  BY Zenon DEF clearSession
<1> QED BY <1>1, <1>2

LEMMA LogoutKept ==
  ASSUME Inv, NEW c \in Slots, LogoutClick(c)
  PROVE  ServerKept /\ ClientTypeOK'
<1> USE DEF Inv
<1>1. stored \in 1 .. issued /\ session[stored] \in 1 .. issued
  BY BoundsAssumption DEF LogoutClick, SendLogout, ClientTypeOK, NoToken, ServerInv, ServerTypeOK,
         SessionOK
<1>2. ServerKept
  BY <1>1, BeginKeeps DEF LogoutClick, SendLogout
<1>3. ClientTypeOK'
  <2>1. stored' \in 0 .. issued' /\ fresh' \in BOOLEAN /\ loggedOut' \subseteq 1 .. issued'
    <3>1. issued' = issued /\ issued \in Nat /\ clearSession
      BY <1>1, BoundsAssumption
         DEF LogoutClick, SendLogout, tokenVars, ServerInv, ServerTypeOK
    <3>2. loggedOut' \subseteq 1 .. issued'
      BY <1>1, <3>1 DEF ClientTypeOK, LogoutClick, SendLogout
    <3> QED BY <3>1, <3>2, ClearType
  <2> QED BY <2>1 DEF ClientTypeOK, LogoutClick, SendLogout, tokenVars
<1> QED BY <1>2, <1>3

LEMMA BrowserKeeps ==
  ASSUME Inv, NEW b \in Tabs, Browser(b)
  PROVE  ServerKept /\ ClientTypeOK'
<1> USE DEF Inv
<1>1. issued \in Nat
  BY BoundsAssumption DEF ServerInv, ServerTypeOK
<1>2. stored # NoToken => stored \in 1 .. issued /\ session[stored] \in 1 .. issued
  BY <1>1 DEF ClientTypeOK, NoToken, ServerInv, SessionOK
<1>3. ASSUME NEW c \in Slots, call[c].at = "reply"
      PROVE  call[c].token \in 1 .. issued
  BY <1>3 DEF ServerInv, Sound
<1>4. ASSUME NEW c \in Slots, LoginClick(b, c)
      PROVE  ServerKept /\ ClientTypeOK'
  <2>1. ServerKept
    BY <1>4, BeginKeeps DEF LoginClick, Login
  <2>2. ClientTypeOK'
    BY <1>4 DEF ClientTypeOK, LoginClick, Login, storageVars, tokenVars
  <2> QED BY <2>1, <2>2
<1>5. CASE LoginReply(b)
  <2>1. login[b] \in Slots /\ call[login[b]].token \in 1 .. issued
    BY <1>3, <1>5 DEF LoginReply, ClientTypeOK
  <2>2. ServerKept
    BY <1>5, <2>1, ForgetKeeps DEF LoginReply
  <2>3. ClientTypeOK'
    BY <1>5, <1>1, <2>1 DEF ClientTypeOK, LoginReply, storeSession, tokenVars
  <2> QED BY <2>2, <2>3
<1>6. CASE LoginFails(b)
  <2>1. ServerKept
    BY <1>6, RestKeeps DEF LoginFails
  <2>2. ClientTypeOK'
    BY <1>6 DEF ClientTypeOK, LoginFails, storageVars, serverVars, tokenVars
  <2> QED BY <2>1, <2>2
<1>7. ASSUME NEW f \in Fetches,
             Send(b, f) \/ Answer(b, f) \/ DeniedNoToken(b, f) \/ DeniedJoin(b, f)
      PROVE  ServerKept /\ ClientTypeOK'
  <2>1. ServerKept
    BY <1>7, RestKeeps DEF Send, Answer, DeniedNoToken, DeniedJoin
  <2>2. fetch' \in [Tabs -> [Fetches -> {"idle", "sent", "stale", "waiting"}]]
    <3>1. \E step \in {"idle", "sent", "stale", "waiting"} :
            fetch' = [fetch EXCEPT ![b][f] = step]
      BY <1>7 DEF Send, Answer, DeniedNoToken, DeniedJoin
    <3> QED BY <3>1 DEF ClientTypeOK
  <2>3. ClientTypeOK'
    BY <1>7, <1>1, <2>2
       DEF ClientTypeOK, Send, Answer, DeniedNoToken, DeniedJoin, clearSession, NoToken,
           storageVars, serverVars, tokenVars
  <2> QED BY <2>1, <2>3
<1>8. ASSUME NEW f \in Fetches, NEW c \in Slots, DeniedStart(b, f, c)
      PROVE  ServerKept /\ ClientTypeOK'
  <2>1. ServerKept
    BY <1>2, <1>8, BeginKeeps DEF DeniedStart, refresh
  <2>2. ClientTypeOK'
    BY <1>8 DEF ClientTypeOK, DeniedStart, refresh, storageVars, tokenVars
  <2> QED BY <2>1, <2>2
<1>9. CASE FlightReply(b)
  <2>1. flight[b] \in Slots /\ call[flight[b]].token \in 1 .. issued
    BY <1>3, <1>9 DEF FlightReply, ClientTypeOK
  <2>2. ServerKept
    BY <1>9, <2>1, ForgetKeeps DEF FlightReply
  <2>3. fetch' \in [Tabs -> [Fetches -> {"idle", "sent", "stale", "waiting"}]]
    BY <1>9, ResumeType DEF FlightReply
  <2>4. ClientTypeOK'
    <3>1. /\ stored' \in 0 .. issued' /\ fresh' \in BOOLEAN
          /\ flight' \in [Tabs -> Slots \cup {NoSlot}]
          /\ UNCHANGED <<issued, login, abandoned, loggedOut>>
      BY <1>9, <1>1, <2>1 DEF ClientTypeOK, FlightReply, storeSession, tokenVars
    <3> QED BY <2>3, <3>1 DEF ClientTypeOK
  <2> QED BY <2>2, <2>4
<1>10. CASE FlightFails(b)
  <2>1. ServerKept
    BY <1>10, RestKeeps DEF FlightFails
  <2>2. fetch' \in [Tabs -> [Fetches -> {"idle", "sent", "stale", "waiting"}]]
    BY <1>10, ResumeType DEF FlightFails
  <2>3. ClientTypeOK'
    <3>1. /\ flight' \in [Tabs -> Slots \cup {NoSlot}] /\ clearSession
          /\ UNCHANGED <<issued, login, abandoned, loggedOut>>
      BY <1>10 DEF ClientTypeOK, FlightFails, serverVars, tokenVars
    <3>2. stored' \in 0 .. issued' /\ fresh' \in BOOLEAN
      BY <1>1, <3>1, ClearType
    <3> QED BY <2>2, <3>1, <3>2 DEF ClientTypeOK
  <2> QED BY <2>1, <2>3
<1>11. CASE Reload(b)
  <2>1. ServerKept
    BY <1>11, RestKeeps DEF Reload
  <2>2. ClientTypeOK'
    BY <1>11, <1>2 DEF ClientTypeOK, Reload, storageVars, serverVars, tokenVars
  <2> QED BY <2>1, <2>2
<1> QED
  BY <1>4, <1>5, <1>6, <1>7, <1>8, <1>9, <1>10, <1>11 DEF Browser, Continue, React

-----------------------------------------------------------------------------
LEMMA InitInv == Init => Inv
<1> HAVE Init
<1>1. NoCall \in Calls
  BY BoundsAssumption DEF NoCall, At, Calls, Steps, NoToken
<1>2. ServerTypeOK
  BY <1>1, BoundsAssumption DEF Init, ServerInit, ServerTypeOK, NoToken
<1>3. \A c \in Slots : Sound(call[c], issued) /\ Spares(call[c], outdated, session, spared)
  BY <1>1 DEF Init, ServerInit, Sound, Spares, NoCall, At, Refreshing
<1>4. ClientTypeOK
  <2>1. fetch \in [Tabs -> [Fetches -> {"idle", "sent", "stale", "waiting"}]]
    BY DEF Init
  <2>2. stored \in 0 .. issued
    BY DEF Init, ServerInit, NoToken
  <2>3. fresh \in BOOLEAN
    BY Zenon DEF Init
  <2> QED BY <2>1, <2>2, <2>3 DEF Init, ClientTypeOK
<1> QED
  BY <1>2, <1>3, <1>4
  DEF Inv, ServerInv, SessionOK, PasswordInv, OldSessionsSpared, Init, ServerInit

LEMMA NextInv == Inv /\ [Next]_vars => Inv'
<1> SUFFICES ASSUME Inv, [Next]_vars
             PROVE  Inv'
  OBVIOUS
<1> USE DEF Inv
<1>1. ASSUME ServerKept, ClientTypeOK'
      PROVE  Inv'
  BY <1>1 DEF ServerKept
<1>2. ASSUME NEW c \in Slots, Server(c)
      PROVE  Inv'
  <2>1. ServerKept
    BY <1>2, ServeKeeps DEF Server
  <2>2. ClientTypeOK'
    BY <1>2, IssuedGrows, ClientLeft DEF Server
  <2> QED BY <1>1, <2>1, <2>2
<1>3. ASSUME NEW c \in Slots, Release(c)
      PROVE  Inv'
  <2>1. ServerKept
    BY <1>3, ForgetKeeps DEF Release
  <2>2. ClientTypeOK'
    BY <1>3, IssuedGrows, ClientLeft DEF Release, tokenVars
  <2> QED BY <1>1, <2>1, <2>2
<1>4. ASSUME NEW c \in Slots, LogoutClick(c)
      PROVE  Inv'
  BY <1>1, <1>4, LogoutKept
<1>5. ASSUME NEW b \in Tabs, Browser(b)
      PROVE  Inv'
  BY <1>1, <1>5, BrowserKeeps
<1>6. CASE AccessExpires
  <2>1. ServerKept
    BY <1>6, RestKeeps DEF AccessExpires
  <2>2. ClientTypeOK'
    BY <1>6 DEF AccessExpires, ClientTypeOK, serverVars, tokenVars
  <2> QED BY <1>1, <2>1, <2>2
<1>7. CASE SetPassword /\ UNCHANGED clientVars
  <2>1. ClientTypeOK'
    BY <1>7, IssuedGrows, ClientLeft DEF SetPassword
  <2> QED BY <1>7, <2>1, PasswordSet
<1>8. CASE Expire /\ UNCHANGED clientVars
  <2>1. ServerKept
    BY <1>8, ExpireKeeps
  <2>2. ClientTypeOK'
    BY <1>8, IssuedGrows, ClientLeft DEF Expire
  <2> QED BY <1>1, <2>1, <2>2
<1>9. CASE UNCHANGED vars
  <2>1. ServerKept
    BY <1>9, RestKeeps DEF vars
  <2>2. ClientTypeOK'
    BY <1>9, IssuedGrows, ClientLeft DEF vars, serverVars, tokenVars
  <2> QED BY <1>1, <2>1, <2>2
<1> QED
  BY <1>2, <1>3, <1>4, <1>5, <1>6, <1>7, <1>8, <1>9 DEF Next

\* Every state has the types the comments of the variables promise; what the
\* browser stores is a token that was issued.
THEOREM TypeCorrect == Spec => []TypeOK
<1>1. Inv => TypeOK
  BY DEF Inv, ServerInv, ClientTypeOK, TypeOK
<1> QED BY <1>1, InitInv, NextInv, PTL DEF Spec

\* Setting the password ends every session but those of the logins and refreshes
\* that were past their check at that moment; no other one comes back later,
\* however many requests, tabs and password changes there are (auth/service.go
\* 404-406, 281-325, 242-259).
THEOREM OldSessionsEnd == Spec => []OldSessionsSpared
<1>1. Inv => OldSessionsSpared
  BY DEF Inv, PasswordInv
<1> QED BY <1>1, InitInv, NextInv, PTL DEF Spec

-----------------------------------------------------------------------------
(* A client open in one tab: its sessions do not fork, and what it stores   *)
(* is current.                                                              *)

\* Two tabs share the storage but not refreshPromise, and do fork a session.
OneTab == \A a, b \in Tabs : a = b

SessionOf(c) == session[call[c].token]

\* A slot in which a token is exchanged, or whose new token the page waits for.
Engaged(c) == call[c].at \in Refreshing \/ (call[c].at = "reply" /\ Awaited(c))

Newest(t) == \A u \in 1 .. issued : u > t => session[u] # session[t]

\* A page waits for a login or a refresh, each in a slot of its own.
AwaitedOK ==
  \A b \in Tabs :
    /\ login[b] \in Slots => call[login[b]].at \in {"login.insert", "reply", "failed"}
    /\ flight[b] \in Slots => call[flight[b]].at \in Refreshing \cup {"reply", "failed"}
    /\ login[b] \in Slots => login[b] # flight[b]

\* Only the newest token of a session is exchanged, by one request, and what
\* that one inserts its new token after is dead; unless the page was left.
EngagedOK ==
  /\ \A c \in Slots : call[c].at = "refresh.insert" => call[c].token \in dead
  /\ \A c \in Slots : Engaged(c) /\ SessionOf(c) \notin abandoned => Newest(call[c].token)
  /\ \A c, d \in Slots : Engaged(c) /\ Engaged(d) /\ SessionOf(c) = SessionOf(d) =>
       c = d \/ SessionOf(c) \in abandoned

ChainOK ==
  \A s, t \in 1 .. issued :
    s < t /\ session[s] = session[t] => s \in dead \/ session[s] \in abandoned

\* Only the tab's own refresh exchanges the stored token, and that token is the
\* newest of its session until the refresh has its answer.
StoredOK ==
  stored # NoToken =>
    /\ session[stored] \notin loggedOut
    /\ session[stored] \notin abandoned =>
         /\ \A c \in Slots : Engaged(c) /\ SessionOf(c) = session[stored] =>
              \E b \in Tabs : flight[b] = c
         /\ \/ Newest(stored)
            \/ \E b \in Tabs : /\ flight[b] \in Slots /\ call[flight[b]].at = "reply"
                               /\ SessionOf(flight[b]) = session[stored]

\* What is about to be stored was not left or logged out of.
AnswersOK ==
  \A b \in Tabs :
    /\ login[b] \in Slots /\ call[login[b]].at = "reply" =>
         SessionOf(login[b]) \notin abandoned \cup loggedOut
    /\ flight[b] \in Slots /\ Engaged(flight[b]) => SessionOf(flight[b]) \notin loggedOut

TabInv == AwaitedOK /\ EngagedOK /\ ChainOK /\ StoredOK /\ AnswersOK

\* Tokens under way and stored, and their sessions, have been issued.
LEMMA TokensIssued ==
  ASSUME Inv
  PROVE  /\ issued \in Nat /\ \A t \in 1 .. issued : session[t] \in 1 .. issued
         /\ \A c \in Slots : call[c].at \in Refreshing \cup {"reply"} =>
              call[c].token \in 1 .. issued /\ SessionOf(c) \in 1 .. issued
         /\ \A c \in Slots : Engaged(c) => call[c].token \in 1 .. issued
         /\ stored # NoToken => stored \in 1 .. issued
         /\ abandoned \subseteq 1 .. issued /\ loggedOut \subseteq 1 .. issued
         /\ NoToken \notin 1 .. issued
<1>1. issued \in Nat
  BY BoundsAssumption DEF Inv, ServerInv, ServerTypeOK
<1>2. \A t \in 1 .. issued : session[t] \in 1 .. issued
  BY DEF Inv, ServerInv, SessionOK
<1>3. \A c \in Slots : call[c].at \in Refreshing \cup {"reply"} => call[c].token \in 1 .. issued
  BY DEF Inv, ServerInv, Sound
<1>4. stored # NoToken => stored \in 1 .. issued
  BY <1>1 DEF Inv, ClientTypeOK, NoToken
<1>5. abandoned \subseteq 1 .. issued /\ loggedOut \subseteq 1 .. issued
  BY DEF Inv, ClientTypeOK
<1>6. NoToken \notin 1 .. issued
  BY DEF NoToken
<1> QED BY <1>1, <1>2, <1>3, <1>4, <1>5, <1>6 DEF SessionOf, Engaged

\* A step that issues nothing and engages no slot.
LEMMA NoneEngaged ==
  ASSUME Inv, TabInv, UNCHANGED <<issued, session>>, dead \subseteq dead',
         abandoned \subseteq abandoned',
         \A c \in Slots : Engaged(c)' => Engaged(c) /\ call'[c].token = call[c].token,
         \A c \in Slots : call'[c].at = "refresh.insert" => call'[c].token \in dead'
  PROVE  EngagedOK' /\ ChainOK'
<1>1. ChainOK'
  BY DEF TabInv, ChainOK
<1>2. \A t : Newest(t) => \A u \in 1 .. issued' : u > t => session'[u] # session'[t]
  BY DEF Newest
<1>3. ASSUME NEW c \in Slots, Engaged(c)', SessionOf(c)' \notin abandoned'
      PROVE  Newest(call[c].token)'
  <2>1. Engaged(c) /\ SessionOf(c) \notin abandoned /\ call'[c].token = call[c].token
    BY <1>3 DEF SessionOf
  <2>2. Newest(call[c].token)
    BY <2>1 DEF TabInv, EngagedOK
  <2> QED BY <2>1, <2>2 DEF Newest
<1>4. \A c, d \in Slots : Engaged(c)' /\ Engaged(d)' /\ SessionOf(c)' = SessionOf(d)' =>
        c = d \/ SessionOf(c)' \in abandoned'
  BY DEF TabInv, EngagedOK, SessionOf
<1> QED BY <1>1, <1>3, <1>4 DEF EngagedOK

\* A step that moreover leaves what is stored, and what is on its way there.
LEMMA TabCalm ==
  ASSUME Inv, TabInv, UNCHANGED <<issued, session, stored, flight, abandoned, loggedOut>>,
         dead \subseteq dead', AwaitedOK',
         \A c \in Slots : Engaged(c)' => Engaged(c) /\ call'[c].token = call[c].token,
         \A c \in Slots : call'[c].at = "refresh.insert" => call'[c].token \in dead',
         \A b \in Tabs : flight[b] \in Slots /\ call[flight[b]].at = "reply" =>
                           call'[flight[b]] = call[flight[b]],
         \A b \in Tabs : login'[b] \in Slots /\ call'[login'[b]].at = "reply" =>
                           login'[b] = login[b] /\ call'[login[b]] = call[login[b]]
  PROVE  TabInv'
<1>1. EngagedOK' /\ ChainOK'
  BY NoneEngaged
<1>2. StoredOK'
  <2> SUFFICES ASSUME stored # NoToken
               PROVE  /\ session[stored] \notin loggedOut
                      /\ session[stored] \notin abandoned =>
                          /\ \A c \in Slots : Engaged(c)' /\ SessionOf(c)' = session[stored] =>
                               \E b \in Tabs : flight[b] = c
                          /\ \/ Newest(stored)
                             \/ \E b \in Tabs : /\ flight[b] \in Slots
                                                /\ call'[flight[b]].at = "reply"
                                                /\ SessionOf(flight[b])' = session[stored]
    BY DEF StoredOK, Newest
  <2>1. session[stored] \notin loggedOut
    BY DEF TabInv, StoredOK
  <2>2. ASSUME session[stored] \notin abandoned, NEW c \in Slots, Engaged(c)',
               SessionOf(c)' = session[stored]
        PROVE  \E b \in Tabs : flight[b] = c
    BY <2>2 DEF TabInv, StoredOK, SessionOf
  <2>3. ASSUME session[stored] \notin abandoned, ~Newest(stored)
        PROVE  \E b \in Tabs : /\ flight[b] \in Slots /\ call'[flight[b]].at = "reply"
                               /\ SessionOf(flight[b])' = session[stored]
    BY <2>3 DEF TabInv, StoredOK, SessionOf
  <2> QED BY <2>1, <2>2, <2>3
<1>3. AnswersOK'
  BY DEF TabInv, AnswersOK, SessionOf
<1> QED BY <1>1, <1>2, <1>3 DEF TabInv

\* The server goes on with one request and issues nothing.
LEMMA SlotCalm ==
  ASSUME Inv, TabInv, NEW c \in Slots, NEW d, call' = [call EXCEPT ![c] = d],
         UNCHANGED <<issued, session, clientVars>>, dead \subseteq dead',
         call[c].at \notin {"reply", "failed"},
         d.at \in Refreshing \cup {"failed"},
         d.at \in Refreshing => call[c].at \in Refreshing /\ d.token = call[c].token,
         d.at = "refresh.insert" => d.token \in dead'
  PROVE  TabInv'
<1>1. \A e \in Slots : call'[e] = IF e = c THEN d ELSE call[e]
  BY DEF Inv, ServerInv, ServerTypeOK
<1>2. UNCHANGED <<stored, flight, login, abandoned, loggedOut>>
  BY DEF clientVars, storageVars
<1>3. AwaitedOK'
  BY <1>1, <1>2 DEF TabInv, AwaitedOK, Refreshing
<1>4. \A e \in Slots : Engaged(e)' => Engaged(e) /\ call'[e].token = call[e].token
  BY <1>1, <1>2 DEF Engaged, Awaited, Refreshing
<1>5. \A e \in Slots : call'[e].at = "refresh.insert" => call'[e].token \in dead'
  BY <1>1 DEF TabInv, EngagedOK
<1>6. \A b \in Tabs : flight[b] \in Slots /\ call[flight[b]].at = "reply" =>
        call'[flight[b]] = call[flight[b]]
  BY <1>1
<1>7. \A b \in Tabs : login'[b] \in Slots /\ call'[login'[b]].at = "reply" =>
        login'[b] = login[b] /\ call'[login[b]] = call[login[b]]
  BY <1>1, <1>2 DEF Refreshing
<1> QED BY <1>2, <1>3, <1>4, <1>5, <1>6, <1>7, TabCalm

LEMMA ServerCalm ==
  ASSUME Inv, TabInv, NEW c \in Slots, UNCHANGED clientVars,
         RefreshCheck(c) \/ RefreshRevoke(c) \/ Logout(c) \/ Abort(c)
  PROVE  TabInv'
<1>1. call[c] \in Calls
  BY DEF Inv, ServerInv, ServerTypeOK
<1>2. At("failed", NoToken).at = "failed"
  BY DEF At
<1>3. CASE RefreshCheck(c) /\ call[c].token \in live
  <2> DEFINE d == [call[c] EXCEPT !.at = "refresh.revoke"]
  <2>1. call' = [call EXCEPT ![c] = d]
    BY <1>3 DEF RefreshCheck, Goto
  <2>2. d.at = "refresh.revoke" /\ d.token = call[c].token /\ call[c].at = "refresh.check"
    BY <1>1, <1>3 DEF Calls, RefreshCheck
  <2>3. UNCHANGED <<issued, dead, session>>
    BY <1>3 DEF RefreshCheck, tokenVars, historyVars
  <2> HIDE DEF d
  <2> QED BY <2>1, <2>2, <2>3, SlotCalm DEF Refreshing
<1>4. CASE RefreshRevoke(c)
  <2> DEFINE d == [call[c] EXCEPT !.at = "refresh.insert"]
  <2>1. call' = [call EXCEPT ![c] = d]
    BY <1>4 DEF RefreshRevoke, Goto
  <2>2. d.at = "refresh.insert" /\ d.token = call[c].token /\ call[c].at = "refresh.revoke"
    BY <1>1, <1>4 DEF Calls, RefreshRevoke
  <2>3. UNCHANGED <<issued, session>> /\ dead' = dead \cup {call[c].token}
    BY <1>4 DEF RefreshRevoke, historyVars
  <2> HIDE DEF d
  <2> QED BY <2>1, <2>2, <2>3, SlotCalm DEF Refreshing
<1>5. CASE (RefreshCheck(c) /\ call[c].token \notin live) \/ Logout(c) \/ Abort(c)
  <2>1. /\ call' = [call EXCEPT ![c] = At("failed", NoToken)]
        /\ UNCHANGED <<issued, session>> /\ dead \subseteq dead'
        /\ call[c].at \notin {"reply", "failed"}
    BY <1>5 DEF RefreshCheck, Logout, Abort, Fail, tokenVars, historyVars
  <2> QED BY <1>2, <2>1, SlotCalm DEF Refreshing
<1> QED BY <1>3, <1>4, <1>5

LEMMA PasswordCalm ==
  ASSUME Inv, TabInv, UNCHANGED clientVars, SetPassword \/ Expire
  PROVE  TabInv'
<1>1. \A c \in Slots : call'[c].at = call[c].at /\ call'[c].token = call[c].token
                       /\ (call[c].at = "reply" => call'[c] = call[c])
  <2>1. CASE Expire
    BY <2>1 DEF Expire
  <2>2. CASE SetPassword
    <3> SUFFICES ASSUME NEW c \in Slots
                 PROVE  /\ call'[c].at = call[c].at /\ call'[c].token = call[c].token
                        /\ call[c].at = "reply" => call'[c] = call[c]
      OBVIOUS
    <3>1. call[c] \in Calls
      BY DEF Inv, ServerInv, ServerTypeOK
    <3>2. call'[c] = [call[c] EXCEPT !.overtaken = @ \/ call[c].at \in LetIn]
      BY <2>2 DEF SetPassword, Overtake
    <3>3. call'[c].at = call[c].at /\ call'[c].token = call[c].token
      BY <3>1, <3>2 DEF Calls
    <3>4. ASSUME call[c].at = "reply" PROVE call'[c] = call[c]
      <4>1. call'[c].overtaken = call[c].overtaken
        BY <3>1, <3>2, <3>4 DEF Calls, LetIn
      <4>2. call'[c] \in Calls
        BY <3>1, <3>2 DEF Calls
      <4> QED BY <3>1, <3>3, <4>1, <4>2 DEF Calls
    <3> QED BY <3>3, <3>4
  <2> QED BY <2>1, <2>2
<1>2. UNCHANGED <<issued, session, stored, flight, login, abandoned, loggedOut>>
      /\ dead \subseteq dead'
  BY DEF clientVars, storageVars, SetPassword, Expire, historyVars
<1>3. AwaitedOK'
  BY <1>1, <1>2 DEF TabInv, AwaitedOK
<1>4. \A c \in Slots : Engaged(c)' => Engaged(c) /\ call'[c].token = call[c].token
  BY <1>1, <1>2 DEF Engaged, Awaited
<1>5. \A c \in Slots : call'[c].at = "refresh.insert" => call'[c].token \in dead'
  BY <1>1, <1>2 DEF TabInv, EngagedOK
<1> QED BY <1>1, <1>2, <1>3, <1>4, <1>5, TabCalm

\* The page waits for less, or for nothing new that is stored when it comes.
LEMMA PageCalm ==
  ASSUME Inv, TabInv, NEW b \in Tabs,
         \/ \E c \in Slots : LoginClick(b, c)
         \/ LoginFails(b)
         \/ \E f \in Fetches :
              Send(b, f) \/ Answer(b, f) \/ DeniedNoToken(b, f) \/ DeniedJoin(b, f)
  PROVE  TabInv'
<1>1. ASSUME NEW c \in Slots, LoginClick(b, c) PROVE TabInv'
  <2> DEFINE d == At("login.insert", NoToken)
  <2>1. /\ call' = [call EXCEPT ![c] = d] /\ call[c].at = "idle"
        /\ login' = [login EXCEPT ![b] = c]
        /\ UNCHANGED <<issued, dead, session, stored, flight, abandoned, loggedOut>>
    BY <1>1 DEF LoginClick, Login, Begin, tokenVars, historyVars, storageVars
  <2>2. d.at = "login.insert"
    BY DEF At
  <2> HIDE DEF d
  <2>3. /\ \A e \in Slots : call'[e] = IF e = c THEN d ELSE call[e]
        /\ \A a \in Tabs : login'[a] = IF a = b THEN c ELSE login[a]
    BY <2>1 DEF Inv, ServerInv, ServerTypeOK, ClientTypeOK
  <2>4. \A a \in Tabs : c # login[a] /\ c # flight[a]
    BY <2>1 DEF TabInv, AwaitedOK, Refreshing
  <2>5. AwaitedOK'
    BY <2>1, <2>2, <2>3, <2>4 DEF TabInv, AwaitedOK
  <2>6. \A e \in Slots : Engaged(e)' => Engaged(e) /\ call'[e].token = call[e].token
    BY <2>1, <2>2, <2>3 DEF Engaged, Awaited, Refreshing
  <2>7. \A e \in Slots : call'[e].at = "refresh.insert" => call'[e].token \in dead'
    BY <2>1, <2>2, <2>3 DEF TabInv, EngagedOK
  <2>8. \A a \in Tabs : flight[a] \in Slots /\ call[flight[a]].at = "reply" =>
          call'[flight[a]] = call[flight[a]]
    BY <2>1, <2>3
  <2>9. \A a \in Tabs : login'[a] \in Slots /\ call'[login'[a]].at = "reply" =>
          login'[a] = login[a] /\ call'[login[a]] = call[login[a]]
    BY <2>2, <2>3, <2>4
  <2> QED BY <2>1, <2>5, <2>6, <2>7, <2>8, <2>9, TabCalm
<1>2. CASE LoginFails(b)
  <2>1. /\ login' = [login EXCEPT ![b] = NoSlot]
        /\ UNCHANGED <<issued, dead, session, call, stored, flight, abandoned, loggedOut>>
    BY <1>2 DEF LoginFails, serverVars, tokenVars, historyVars, storageVars
  <2>2. \A a \in Tabs : login'[a] = IF a = b THEN NoSlot ELSE login[a]
    BY <2>1 DEF Inv, ClientTypeOK
  <2>3. AwaitedOK'
    BY <2>1, <2>2, NoSlotAssumption DEF TabInv, AwaitedOK
  <2>4. \A e \in Slots : Engaged(e)' => Engaged(e)
    BY <2>1, <2>2, NoSlotAssumption DEF Engaged, Awaited
  <2>5. \A e \in Slots : call'[e].at = "refresh.insert" => call'[e].token \in dead'
    BY <2>1 DEF TabInv, EngagedOK
  <2> QED BY <2>1, <2>2, <2>3, <2>4, <2>5, NoSlotAssumption, TabCalm
<1>3. ASSUME NEW f \in Fetches,
             Send(b, f) \/ Answer(b, f) \/ DeniedNoToken(b, f) \/ DeniedJoin(b, f)
      PROVE  TabInv'
  <2>1. UNCHANGED <<issued, dead, session, call, stored, flight, login, abandoned, loggedOut>>
    BY <1>3 DEF Send, Answer, DeniedNoToken, DeniedJoin, clearSession, serverVars, tokenVars,
                historyVars, storageVars
  <2>2. AwaitedOK' /\ \A e \in Slots : Engaged(e)' <=> Engaged(e)
    BY <2>1 DEF TabInv, AwaitedOK, Engaged, Awaited
  <2>3. \A e \in Slots : call'[e].at = "refresh.insert" => call'[e].token \in dead'
    BY <2>1 DEF TabInv, EngagedOK
  <2> QED BY <2>1, <2>2, <2>3, TabCalm
<1> QED BY <1>1, <1>2, <1>3

\* A slot is emptied, and whoever waited for it waits no more.
LEMMA SlotForgotten ==
  ASSUME Inv, TabInv, NEW c \in Slots, Forget(c), UNCHANGED <<tokenVars, historyVars>>,
         abandoned' = abandoned,
         \A b \in Tabs : /\ login'[b] = login[b] \/ login'[b] = NoSlot
                         /\ flight'[b] = flight[b] \/ flight'[b] = NoSlot
                         /\ c \notin {login'[b], flight'[b]}
  PROVE  /\ AwaitedOK' /\ EngagedOK' /\ ChainOK' /\ ~Engaged(c)'
         /\ \A e \in Slots : Engaged(e)' => Engaged(e)
         /\ \A e \in Slots : e # c => call'[e] = call[e]
<1>1. /\ \A e \in Slots : call'[e] = IF e = c THEN NoCall ELSE call[e]
      /\ NoCall.at = "idle" /\ UNCHANGED <<issued, dead, session>>
  BY DEF Inv, ServerInv, ServerTypeOK, Forget, NoCall, At, tokenVars, historyVars
<1>2. AwaitedOK'
  BY <1>1, NoSlotAssumption DEF TabInv, AwaitedOK
<1>3. \A e \in Slots : Engaged(e)' => Engaged(e) /\ e # c
  BY <1>1, NoSlotAssumption DEF Engaged, Awaited, Refreshing
<1>4. \A e \in Slots : call'[e].at = "refresh.insert" => call'[e].token \in dead'
  BY <1>1 DEF TabInv, EngagedOK
<1>5. \A e \in Slots : Engaged(e)' => call'[e].token = call[e].token
  BY <1>1, <1>3
<1>6. EngagedOK' /\ ChainOK'
  BY <1>1, <1>3, <1>4, <1>5, NoneEngaged
<1> QED BY <1>1, <1>2, <1>3, <1>6

LEMMA ReleaseCalm ==
  ASSUME Inv, TabInv, NEW c \in Slots, Release(c)
  PROVE  TabInv'
<1>1. /\ Forget(c) /\ ~Awaited(c) /\ call[c].at \in {"reply", "failed"}
      /\ UNCHANGED <<tokenVars, historyVars, stored, flight, login, abandoned, loggedOut>>
  BY DEF Release, clientVars, storageVars
<1>2. UNCHANGED <<issued, dead, session>>
  BY <1>1 DEF tokenVars, historyVars
<1>3. \A b \in Tabs : c # login[b] /\ c # flight[b]
  BY <1>1 DEF Awaited
<1>4. /\ AwaitedOK' /\ ~Engaged(c)' /\ \A e \in Slots : Engaged(e)' => Engaged(e)
      /\ \A e \in Slots : e # c => call'[e] = call[e]
      /\ EngagedOK'
  BY <1>1, <1>3, SlotForgotten
<1>5. \A e \in Slots : call'[e].at = "refresh.insert" => call'[e].token \in dead'
  BY <1>4 DEF EngagedOK
<1> QED BY <1>1, <1>2, <1>3, <1>4, <1>5, TabCalm

\* An answer is stored: its token is the newest of a session nobody else is at.
LEMMA AnswerStored ==
  ASSUME Inv, OneTab, TabInv, NEW b \in Tabs, NEW c \in Slots, c \in {login[b], flight[b]},
         call[c].at = "reply", Forget(c), stored' = call[c].token,
         UNCHANGED <<tokenVars, historyVars, abandoned, loggedOut>>,
         \A a \in Tabs : /\ login'[a] = login[a] \/ login'[a] = NoSlot
                         /\ flight'[a] = flight[a] \/ flight'[a] = NoSlot
                         /\ c \notin {login'[a], flight'[a]}
  PROVE  TabInv'
<1>1. UNCHANGED <<issued, dead, session>>
  BY DEF tokenVars, historyVars
<1>2. /\ AwaitedOK' /\ EngagedOK' /\ ChainOK' /\ ~Engaged(c)'
      /\ \A e \in Slots : Engaged(e)' => Engaged(e)
      /\ \A e \in Slots : e # c => call'[e] = call[e]
  BY SlotForgotten
<1>3. Engaged(c)
  BY DEF Engaged, Awaited
<1>4. SessionOf(c) \notin loggedOut
  BY <1>3 DEF TabInv, AnswersOK
<1>5. StoredOK'
  <2> SUFFICES ASSUME session[call[c].token] \notin abandoned
               PROVE  /\ \A e \in Slots : Engaged(e)' => SessionOf(e)' # session[call[c].token]
                      /\ Newest(call[c].token)
    BY <1>1, <1>4 DEF StoredOK, Newest, SessionOf
  <2>1. Newest(call[c].token)
    BY <1>3 DEF TabInv, EngagedOK, SessionOf
  <2>2. ASSUME NEW e \in Slots, Engaged(e)', SessionOf(e)' = session[call[c].token]
        PROVE  FALSE
    <3>1. Engaged(e) /\ e # c /\ SessionOf(e) = SessionOf(c)
      BY <1>1, <1>2, <2>2 DEF SessionOf
    <3> QED BY <1>3, <3>1 DEF TabInv, EngagedOK, SessionOf
  <2> QED BY <2>1, <2>2
<1>6. AnswersOK'
  <2>1. \A a \in Tabs : login'[a] \in Slots => login'[a] = login[a] /\ login[a] # c
    BY NoSlotAssumption
  <2>2. \A a \in Tabs : flight'[a] \in Slots => flight'[a] = flight[a] /\ flight[a] # c
    BY NoSlotAssumption
  <2>3. ASSUME NEW a \in Tabs, NEW e \in Slots, flight'[a] = e, Engaged(e)'
        PROVE  SessionOf(e)' \notin loggedOut
    BY <1>1, <1>2, <2>2, <2>3 DEF TabInv, AnswersOK, SessionOf
  <2>4. ASSUME NEW a \in Tabs, NEW e \in Slots, login'[a] = e, call'[e].at = "reply"
        PROVE  SessionOf(e)' \notin abandoned \cup loggedOut
    BY <1>1, <1>2, <2>1, <2>4 DEF TabInv, AnswersOK, SessionOf
  <2> QED BY <2>3, <2>4 DEF AnswersOK, SessionOf, Engaged, Awaited
<1> QED BY <1>2, <1>5, <1>6 DEF TabInv

LEMMA RepliesStored ==
  ASSUME Inv, OneTab, TabInv, NEW b \in Tabs, LoginReply(b) \/ FlightReply(b)
  PROVE  TabInv'
<1>1. CASE LoginReply(b)
  <2>1. /\ login[b] \in Slots /\ call[login[b]].at = "reply" /\ Forget(login[b])
        /\ stored' = call[login[b]].token /\ login' = [login EXCEPT ![b] = NoSlot]
        /\ UNCHANGED <<tokenVars, historyVars, abandoned, loggedOut, flight>>
    BY <1>1 DEF LoginReply, storeSession, Inv, ClientTypeOK
  <2>2. \A a \in Tabs : login'[a] = NoSlot /\ a = b
    BY <2>1 DEF OneTab, Inv, ClientTypeOK
  <2>3. login[b] # flight[b]
    BY <2>1 DEF TabInv, AwaitedOK
  <2> QED BY <2>1, <2>2, <2>3, NoSlotAssumption, AnswerStored
<1>2. CASE FlightReply(b)
  <2>1. /\ flight[b] \in Slots /\ call[flight[b]].at = "reply" /\ Forget(flight[b])
        /\ stored' = call[flight[b]].token /\ flight' = [flight EXCEPT ![b] = NoSlot]
        /\ UNCHANGED <<tokenVars, historyVars, abandoned, loggedOut, login>>
    BY <1>2 DEF FlightReply, storeSession, Inv, ClientTypeOK
  <2>2. \A a \in Tabs : flight'[a] = NoSlot /\ a = b
    BY <2>1 DEF OneTab, Inv, ClientTypeOK
  <2>3. login[b] # flight[b]
    BY <2>1 DEF TabInv, AwaitedOK
  <2> QED BY <2>1, <2>2, <2>3, NoSlotAssumption, AnswerStored
<1> QED BY <1>1, <1>2

LEMMA LogoutForgets ==
  ASSUME Inv, OneTab, TabInv, NEW c \in Slots, LogoutClick(c)
  PROVE  TabInv'
<1> DEFINE d == At("logout.revoke", stored)
<1>1. /\ stored # NoToken /\ stored' = NoToken
      /\ call[c].at = "idle" /\ call' = [call EXCEPT ![c] = d]
      /\ loggedOut' = IF \E b \in Tabs : flight[b] # NoSlot THEN loggedOut
                      ELSE loggedOut \cup {session[stored]}
      /\ UNCHANGED <<issued, dead, session, flight, login, abandoned>>
  BY DEF LogoutClick, SendLogout, clearSession, Begin, tokenVars, historyVars
<1>2. d.at = "logout.revoke"
  BY DEF At
<1> HIDE DEF d
<1>3. \A e \in Slots : call'[e] = IF e = c THEN d ELSE call[e]
  BY <1>1 DEF Inv, ServerInv, ServerTypeOK
<1>4. \A b \in Tabs : c # login[b] /\ c # flight[b]
  BY <1>1 DEF TabInv, AwaitedOK, Refreshing
<1>5. AwaitedOK'
  BY <1>1, <1>3, <1>4 DEF TabInv, AwaitedOK
<1>6. \A e \in Slots : Engaged(e)' => Engaged(e) /\ call'[e].token = call[e].token
  BY <1>1, <1>2, <1>3 DEF Engaged, Awaited, Refreshing
<1>7. \A e \in Slots : call'[e].at = "refresh.insert" => call'[e].token \in dead'
  BY <1>1, <1>2, <1>3 DEF TabInv, EngagedOK
<1>8. EngagedOK' /\ ChainOK'
  BY <1>1, <1>6, <1>7, NoneEngaged
<1>9. AnswersOK'
  <2>1. ASSUME NEW b \in Tabs, NEW e \in Slots, login[b] = e, call'[e].at = "reply"
        PROVE  session'[call'[e].token] \notin abandoned' \cup loggedOut'
    <3>1. /\ call'[e] = call[e] /\ SessionOf(e) \notin abandoned \cup loggedOut
          /\ Engaged(e)
      BY <1>2, <1>3, <2>1 DEF TabInv, AnswersOK, Engaged, Awaited
    <3>2. SessionOf(e) = session[stored] => \E a \in Tabs : flight[a] = e
      BY <1>1, <3>1 DEF TabInv, StoredOK
    <3>3. \A a \in Tabs : flight[a] # e
      BY <2>1 DEF TabInv, AwaitedOK, OneTab
    <3> QED BY <1>1, <3>1, <3>2, <3>3 DEF SessionOf
  <2>2. ASSUME NEW b \in Tabs, NEW e \in Slots, flight[b] = e, Engaged(e)'
        PROVE  session'[call'[e].token] \notin loggedOut'
    <3>1. call'[e].token = call[e].token /\ SessionOf(e) \notin loggedOut
      BY <1>6, <2>2 DEF TabInv, AnswersOK
    <3> QED BY <1>1, <2>2, <3>1, NoSlotAssumption DEF SessionOf
  <2> QED BY <1>1, <2>1, <2>2 DEF AnswersOK, SessionOf
<1>10. StoredOK'
  BY <1>1 DEF StoredOK
<1> QED BY <1>5, <1>8, <1>9, <1>10 DEF TabInv

\* The refresh fails for the page, or the page is left: the session is cleared,
\* or counts as abandoned.
LEMMA PageLeaves ==
  ASSUME Inv, OneTab, TabInv, NEW b \in Tabs, FlightFails(b) \/ Reload(b)
  PROVE  TabInv'
<1>1. /\ \A a \in Tabs : flight'[a] = NoSlot
      /\ \A a \in Tabs : login'[a] = login[a] \/ login'[a] = NoSlot
      /\ UNCHANGED <<issued, dead, session, call, loggedOut>>
      /\ abandoned \subseteq abandoned'
  <2>1. /\ flight' = [flight EXCEPT ![b] = NoSlot]
        /\ login' = login \/ login' = [login EXCEPT ![b] = NoSlot]
        /\ UNCHANGED <<serverVars, loggedOut>> /\ abandoned \subseteq abandoned'
    BY DEF FlightFails, Reload
  <2>2. \A a \in Tabs : a = b
    BY DEF OneTab
  <2> QED BY <2>1, <2>2 DEF Inv, ClientTypeOK, serverVars, tokenVars, historyVars
<1>2. AwaitedOK'
  BY <1>1, NoSlotAssumption DEF TabInv, AwaitedOK
<1>3. \A e \in Slots : Engaged(e)' => Engaged(e) /\ call'[e].token = call[e].token
  BY <1>1, NoSlotAssumption DEF Engaged, Awaited
<1>4. \A e \in Slots : call'[e].at = "refresh.insert" => call'[e].token \in dead'
  BY <1>1 DEF TabInv, EngagedOK
<1>5. EngagedOK' /\ ChainOK'
  BY <1>1, <1>3, <1>4, NoneEngaged
<1>6. CASE FlightFails(b)
  <2>1. stored' = NoToken /\ abandoned' = abandoned
    BY <1>6 DEF FlightFails, clearSession
  <2>2. StoredOK'
    BY <2>1 DEF StoredOK
  <2>3. AnswersOK'
    BY <1>1, <2>1, NoSlotAssumption DEF TabInv, AnswersOK, SessionOf
  <2> QED BY <1>2, <1>5, <2>2, <2>3 DEF TabInv
<1>7. CASE Reload(b)
  <2>1. /\ login' = [login EXCEPT ![b] = NoSlot] /\ stored' = stored
        /\ abandoned' = IF flight[b] # NoSlot /\ stored # NoToken
                        THEN abandoned \cup {session[stored]} ELSE abandoned
    BY <1>7 DEF Reload, storageVars
  <2>2. \A a \in Tabs : login'[a] = NoSlot /\ a = b
    BY <2>1 DEF OneTab, Inv, ClientTypeOK
  <2>3. AnswersOK'
    BY <1>1, <2>2, NoSlotAssumption DEF AnswersOK
  <2>4. StoredOK'
    <3> SUFFICES ASSUME stored # NoToken, session[stored] \notin abandoned'
                 PROVE  /\ \A e \in Slots : Engaged(e)' => SessionOf(e)' # session[stored]
                        /\ Newest(stored)
      <4>1. stored # NoToken => session[stored] \notin loggedOut
        BY DEF TabInv, StoredOK
      <4> QED BY <1>1, <2>1, <4>1 DEF StoredOK, Newest, SessionOf
    <3>1. session[stored] \notin abandoned /\ \A a \in Tabs : flight[a] = NoSlot
      BY <2>1, <2>2
    <3>2. Newest(stored)
      BY <3>1, NoSlotAssumption DEF TabInv, StoredOK
    <3>3. ASSUME NEW e \in Slots, Engaged(e)', SessionOf(e)' = session[stored] PROVE FALSE
      <4>1. Engaged(e) /\ SessionOf(e) = session[stored]
        BY <1>1, <1>3, <3>3 DEF SessionOf
      <4> QED BY <3>1, <4>1, NoSlotAssumption DEF TabInv, StoredOK
    <3> QED BY <3>2, <3>3
  <2> QED BY <1>2, <1>5, <2>3, <2>4 DEF TabInv
<1> QED BY <1>6, <1>7

\* The refresh a page starts presents the newest token of a session no other
\* request is at.
LEMMA RefreshStarts ==
  ASSUME Inv, OneTab, TabInv, NEW b \in Tabs, NEW f \in Fetches, NEW c \in Slots,
         DeniedStart(b, f, c)
  PROVE  TabInv'
<1> DEFINE d == At("refresh.check", stored)
<1>1. /\ stored # NoToken /\ call[c].at = "idle" /\ call' = [call EXCEPT ![c] = d]
      /\ flight' = [flight EXCEPT ![b] = c] /\ flight[b] = NoSlot
      /\ UNCHANGED <<issued, dead, session, stored, login, abandoned, loggedOut>>
  BY DEF DeniedStart, refresh, Begin, tokenVars, historyVars, storageVars
<1>2. d.at = "refresh.check" /\ d.token = stored
  BY DEF At
<1> HIDE DEF d
<1>3. /\ \A e \in Slots : call'[e] = IF e = c THEN d ELSE call[e]
      /\ \A a \in Tabs : a = b /\ flight'[a] = c /\ flight[a] = NoSlot
  BY <1>1 DEF Inv, ServerInv, ServerTypeOK, ClientTypeOK, OneTab
<1>4. \A a \in Tabs : c # login[a]
  BY <1>1 DEF TabInv, AwaitedOK
<1>5. AwaitedOK'
  BY <1>1, <1>2, <1>3, <1>4 DEF TabInv, AwaitedOK, Refreshing
<1>6. \A e \in Slots : Engaged(e)' =>
        \/ e = c /\ call'[e] = d
        \/ e # c /\ Engaged(e) /\ call'[e] = call[e]
  BY <1>1, <1>3 DEF Engaged, Awaited
<1>7. ASSUME session[stored] \notin abandoned
      PROVE  /\ Newest(stored)
             /\ \A e \in Slots : Engaged(e) => SessionOf(e) # session[stored]
  BY <1>1, <1>3, <1>7, NoSlotAssumption DEF TabInv, StoredOK
<1>8. EngagedOK'
  <2>1. \A e \in Slots : call'[e].at = "refresh.insert" => call'[e].token \in dead'
    BY <1>1, <1>2, <1>3 DEF TabInv, EngagedOK
  <2>2. ASSUME NEW e \in Slots, Engaged(e)', session'[call'[e].token] \notin abandoned'
        PROVE  Newest(call[e].token)'
    <3>1. CASE e = c
      <4>1. call'[e].token = stored
        BY <1>2, <1>3, <3>1
      <4>2. Newest(stored)
        BY <1>1, <1>7, <2>2, <4>1
      <4> QED BY <1>1, <4>1, <4>2 DEF Newest
    <3>2. CASE e # c
      <4>1. Newest(call[e].token) /\ call'[e].token = call[e].token
        BY <1>1, <1>6, <2>2, <3>2 DEF TabInv, EngagedOK, SessionOf
      <4> QED BY <1>1, <4>1 DEF Newest
    <3> QED BY <3>1, <3>2
  <2>3. ASSUME NEW e \in Slots, NEW g \in Slots, Engaged(e)', Engaged(g)', e # g,
               SessionOf(e)' = SessionOf(g)'
        PROVE  SessionOf(e)' \in abandoned'
    <3>1. CASE e # c /\ g # c
      BY <1>1, <1>6, <2>3, <3>1 DEF TabInv, EngagedOK, SessionOf
    <3>2. CASE e = c
      <4>1. SessionOf(e)' = session[stored] /\ Engaged(g) /\ SessionOf(g) = session[stored]
        BY <1>1, <1>2, <1>3, <1>6, <2>3, <3>2 DEF SessionOf
      <4> QED BY <1>1, <1>7, <4>1
    <3>3. CASE g = c
      <4>1. SessionOf(e)' = session[stored] /\ Engaged(e) /\ SessionOf(e) = session[stored]
        BY <1>1, <1>2, <1>3, <1>6, <2>3, <3>3 DEF SessionOf
      <4> QED BY <1>1, <1>7, <4>1
    <3> QED BY <3>1, <3>2, <3>3
  <2> QED BY <2>1, <2>2, <2>3 DEF EngagedOK, SessionOf
<1>9. ChainOK'
  BY <1>1 DEF TabInv, ChainOK
<1>10. StoredOK'
  <2>1. session[stored] \notin loggedOut
    BY <1>1 DEF TabInv, StoredOK
  <2>2. ASSUME session[stored] \notin abandoned
        PROVE  /\ \A e \in Slots : Engaged(e)' /\ SessionOf(e)' = session[stored] =>
                    \E a \in Tabs : flight'[a] = e
               /\ Newest(stored)
    <3>1. \A e \in Slots : Engaged(e)' /\ SessionOf(e)' = session[stored] => e = c
      BY <1>1, <1>6, <1>7, <2>2 DEF SessionOf
    <3> QED BY <1>3, <1>7, <2>2, <3>1
  <2> QED BY <1>1, <2>1, <2>2 DEF StoredOK, Newest
<1>11. AnswersOK'
  <2>1. session[stored] \notin loggedOut
    BY <1>1 DEF TabInv, StoredOK
  <2>2. ASSUME NEW a \in Tabs, NEW e \in Slots, login[a] = e, call'[e].at = "reply"
        PROVE  session'[call'[e].token] \notin abandoned \cup loggedOut
    <3>1. call'[e] = call[e]
      BY <1>3, <1>4, <2>2
    <3> QED BY <1>1, <2>2, <3>1 DEF TabInv, AnswersOK, SessionOf
  <2>3. session'[call'[c].token] \notin loggedOut
    BY <1>1, <1>2, <1>3, <2>1
  <2> QED BY <1>1, <1>3, <2>2, <2>3 DEF AnswersOK, SessionOf
<1> QED BY <1>5, <1>8, <1>9, <1>10, <1>11 DEF TabInv

\* issueRefreshToken in detail.
LEMMA Issues ==
  ASSUME Inv, NEW c \in Slots, issueRefreshToken(c), UNCHANGED clientVars
  PROVE  LET t == issued + 1
             from == call[c].token
         IN  /\ issued' = t /\ dead' = dead /\ 1 .. issued' = (1 .. issued) \cup {t}
             /\ \A e \in Slots : e # c => call'[e] = call[e]
             /\ call'[c].at = "reply" /\ call'[c].token = t
             /\ \A s \in 1 .. issued : session'[s] = session[s] /\ s < t
             /\ session'[t] = IF from = NoToken THEN t ELSE session[from]
             /\ t \notin 1 .. issued
             /\ UNCHANGED <<stored, flight, login, abandoned, loggedOut>>
<1>1. issued \in Nat
  BY TokensIssued
<1>2. /\ issued' = issued + 1 /\ dead' = dead /\ issued < MaxTokens
      /\ call' = [call EXCEPT ![c] = At("reply", issued + 1)]
      /\ session' = [session EXCEPT ![issued + 1] =
                       IF call[c].token = NoToken THEN issued + 1 ELSE session[call[c].token]]
  BY DEF issueRefreshToken
<1>3. issued + 1 \in Tokens /\ session \in [Tokens -> 0 .. MaxTokens]
      /\ call \in [Slots -> Calls]
  BY <1>1, <1>2, BoundsAssumption DEF Tokens, Inv, ServerInv, ServerTypeOK
<1>4. At("reply", issued + 1).at = "reply" /\ At("reply", issued + 1).token = issued + 1
  BY DEF At
<1>5. /\ \A e \in Slots : e # c => call'[e] = call[e]
      /\ call'[c].at = "reply" /\ call'[c].token = issued + 1
  BY <1>2, <1>3, <1>4
<1>6. /\ \A s \in 1 .. issued : session'[s] = session[s] /\ s < issued + 1
      /\ session'[issued + 1] =
           IF call[c].token = NoToken THEN issued + 1 ELSE session[call[c].token]
      /\ issued + 1 \notin 1 .. issued
      /\ 1 .. issued + 1 = (1 .. issued) \cup {issued + 1}
  BY <1>1, <1>2, <1>3
<1> QED BY <1>2, <1>5, <1>6 DEF clientVars, storageVars

\* A token is issued: for a login it begins a session, for a refresh it follows
\* the newest one of its session, which is dead.
LEMMA TokenIssued ==
  ASSUME Inv, TabInv, NEW c \in Slots, UNCHANGED clientVars, LoginInsert(c) \/ RefreshInsert(c)
  PROVE  TabInv'
<1> DEFINE t == issued + 1
           from == call[c].token
<1>1. /\ issued' = t /\ dead' = dead /\ 1 .. issued' = (1 .. issued) \cup {t}
      /\ \A e \in Slots : e # c => call'[e] = call[e]
      /\ call'[c].at = "reply" /\ call'[c].token = t
      /\ \A s \in 1 .. issued : session'[s] = session[s] /\ s < t
      /\ session'[t] = IF from = NoToken THEN t ELSE session[from]
      /\ t \notin 1 .. issued
      /\ UNCHANGED <<stored, flight, login, abandoned, loggedOut>>
  BY Issues DEF LoginInsert, RefreshInsert
<1>2. /\ issued \in Nat /\ \A s \in 1 .. issued : session[s] \in 1 .. issued
      /\ stored # NoToken => stored \in 1 .. issued
      /\ abandoned \subseteq 1 .. issued /\ loggedOut \subseteq 1 .. issued
      /\ \A e \in Slots : call[e].at \in Refreshing \cup {"reply"} =>
                            call[e].token \in 1 .. issued
      /\ \A e \in Slots : Engaged(e) => call[e].token \in 1 .. issued
      /\ NoToken \notin 1 .. issued
  BY TokensIssued
\* Either a new session, or the one a refresh in slot c is at.
<1>3. \/ /\ call[c].at = "login.insert" /\ session'[t] = t
      \/ /\ call[c].at = "refresh.insert" /\ Engaged(c) /\ session'[t] = session[from]
         /\ from \in 1 .. issued /\ from \in dead
         /\ session[from] \notin abandoned => Newest(from)
  <2>1. CASE LoginInsert(c)
    <3>1. call[c].at = "login.insert" /\ from = NoToken
      BY <2>1 DEF LoginInsert, Inv, ServerInv, Sound
    <3> QED BY <1>1, <3>1
  <2>2. CASE RefreshInsert(c)
    <3>1. call[c].at = "refresh.insert" /\ Engaged(c)
      BY <2>2 DEF RefreshInsert, Engaged, Refreshing
    <3>2. /\ from \in 1 .. issued /\ from \in dead
          /\ session[from] \notin abandoned => Newest(from)
      BY <1>2, <3>1 DEF TabInv, EngagedOK, SessionOf
    <3> QED BY <1>1, <1>2, <3>1, <3>2
  <2> QED BY <2>1, <2>2
<1> HIDE DEF t, from
<1>4. from = call[c].token
  BY DEF from
\* The newest token of another session stays the newest.
<1>5. ASSUME NEW s \in 1 .. issued, Newest(s), session'[t] # session[s]
      PROVE  \A u \in 1 .. issued' : u > s => session'[u] # session'[s]
  BY <1>1, <1>5 DEF Newest
<1>6. AwaitedOK'
  BY <1>1, <1>3 DEF TabInv, AwaitedOK, Refreshing
<1>7. /\ \A e \in Slots : Engaged(e)' =>
           \/ e = c
           \/ /\ e # c /\ Engaged(e) /\ call'[e] = call[e] /\ call[e].token \in 1 .. issued
              /\ session'[call'[e].token] = SessionOf(e)
      /\ session'[call'[c].token] = session'[t]
  <2>1. \A e \in Slots : e # c /\ Engaged(e)' => Engaged(e) /\ call'[e] = call[e]
    BY <1>1 DEF Engaged, Awaited
  <2>2. \A e \in Slots : Engaged(e) => session'[call[e].token] = SessionOf(e)
    BY <1>1, <1>2 DEF SessionOf
  <2> QED BY <1>1, <1>2, <2>1, <2>2
\* Nobody else is at the session of the new token.
<1>8. ASSUME NEW e \in Slots, e # c, Engaged(e), SessionOf(e) = session'[t]
      PROVE  SessionOf(e) \in abandoned
  <2>1. SessionOf(e) \in 1 .. issued
    BY <1>2, <1>8 DEF SessionOf
  <2>2. Engaged(c) /\ SessionOf(e) = SessionOf(c)
    BY <1>1, <1>3, <1>4, <1>8, <2>1 DEF SessionOf
  <2> QED BY <1>8, <2>2 DEF TabInv, EngagedOK
<1>9. EngagedOK'
  <2>1. \A e \in Slots : call'[e].at = "refresh.insert" => call'[e].token \in dead'
    BY <1>1 DEF TabInv, EngagedOK
  <2>2. ASSUME NEW e \in Slots, Engaged(e)', session'[call'[e].token] \notin abandoned
        PROVE  \A u \in 1 .. issued' : u > call'[e].token =>
                 session'[u] # session'[call'[e].token]
    <3>1. CASE e = c
      <4>1. call'[e].token = t /\ \A u \in 1 .. issued' : ~(u > t)
        <5>1. \A u \in 1 .. issued : ~(u > t)
          BY <1>1, <1>2
        <5>2. issued' \in Nat /\ issued' = t
          BY <1>1, <1>2 DEF t
        <5> QED BY <1>1, <3>1, <5>2
      <4> QED BY <4>1
    <3>2. CASE e # c
      <4>1. /\ Engaged(e) /\ call'[e] = call[e] /\ call[e].token \in 1 .. issued
            /\ SessionOf(e) \notin abandoned /\ SessionOf(e) = session[call[e].token]
        BY <1>7, <2>2, <3>2 DEF SessionOf
      <4>2. Newest(call[e].token)
        BY <4>1 DEF TabInv, EngagedOK
      <4>3. session'[t] # session[call[e].token]
        BY <1>8, <3>2, <4>1
      <4> QED BY <1>5, <4>1, <4>2, <4>3
    <3> QED BY <3>1, <3>2
  <2>3. ASSUME NEW e \in Slots, NEW g \in Slots, Engaged(e)', Engaged(g)', e # g,
               session'[call'[e].token] = session'[call'[g].token]
        PROVE  session'[call'[e].token] \in abandoned
    <3>1. CASE e # c /\ g # c
      BY <1>7, <2>3, <3>1 DEF TabInv, EngagedOK
    <3>2. CASE e = c \/ g = c
      BY <1>7, <1>8, <2>3, <3>2
    <3> QED BY <3>1, <3>2
  <2> QED BY <1>1, <2>1, <2>2, <2>3 DEF EngagedOK, SessionOf, Newest
<1>10. ChainOK'
  <2> SUFFICES ASSUME NEW r \in 1 .. issued', NEW s \in 1 .. issued', r < s,
                      session'[r] = session'[s]
               PROVE  r \in dead \/ session'[r] \in abandoned
    BY <1>1 DEF ChainOK
  <2>1. r \in 1 .. issued
    BY <1>1, <1>2
  <2>2. CASE s \in 1 .. issued
    BY <1>1, <2>1, <2>2 DEF TabInv, ChainOK
  <2>3. CASE s = t
    <3>1. session[r] \in 1 .. issued /\ session'[r] = session[r]
      BY <1>1, <1>2, <2>1
    <3>2. /\ session[r] = session[from] /\ from \in 1 .. issued /\ from \in dead
          /\ session[from] \notin abandoned => Newest(from)
      BY <1>1, <1>3, <2>3, <3>1
    <3>3. CASE r = from
      BY <3>2, <3>3
    <3>4. CASE r < from
      BY <2>1, <3>1, <3>2, <3>4 DEF TabInv, ChainOK
    <3>5. CASE r > from
      BY <2>1, <3>1, <3>2, <3>5 DEF Newest
    <3> QED BY <1>2, <2>1, <3>2, <3>3, <3>4, <3>5
  <2> QED BY <1>1, <2>2, <2>3
<1>11. StoredOK'
  <2> SUFFICES ASSUME stored # NoToken
               PROVE  /\ session'[stored] \notin loggedOut
                      /\ session'[stored] \notin abandoned =>
                           /\ \A e \in Slots : Engaged(e)' /\ SessionOf(e)' = session'[stored] =>
                                \E b \in Tabs : flight[b] = e
                           /\ \/ Newest(stored)'
                              \/ \E b \in Tabs : /\ flight[b] \in Slots
                                                 /\ call'[flight[b]].at = "reply"
                                                 /\ SessionOf(flight[b])' = session'[stored]
    BY <1>1 DEF StoredOK
  <2>1. stored \in 1 .. issued /\ session'[stored] = session[stored]
        /\ session[stored] \in 1 .. issued
    BY <1>1, <1>2
  <2>2. session[stored] \notin loggedOut
    BY DEF TabInv, StoredOK
  <2>3. ASSUME session[stored] \notin abandoned, session'[t] = session[stored]
        PROVE  \E b \in Tabs : flight[b] = c
    <3>1. Engaged(c) /\ SessionOf(c) = session[stored]
      BY <1>1, <1>3, <1>4, <2>1, <2>3 DEF SessionOf
    <3> QED BY <2>3, <3>1 DEF TabInv, StoredOK
  <2>4. ASSUME session[stored] \notin abandoned, NEW e \in Slots, Engaged(e)',
               session'[call'[e].token] = session[stored]
        PROVE  \E b \in Tabs : flight[b] = e
    <3>1. CASE e = c
      BY <1>7, <2>3, <2>4, <3>1
    <3>2. CASE e # c
      BY <1>7, <2>4, <3>2 DEF TabInv, StoredOK
    <3> QED BY <3>1, <3>2
  <2>5. ASSUME session[stored] \notin abandoned,
               ~(\A u \in 1 .. issued' : u > stored => session'[u] # session'[stored])
        PROVE  \E b \in Tabs : /\ flight[b] \in Slots /\ call'[flight[b]].at = "reply"
                               /\ session'[call'[flight[b]].token] = session[stored]
    <3>1. CASE session'[t] = session[stored]
      BY <1>1, <1>7, <2>3, <2>5, <3>1
    <3>2. CASE session'[t] # session[stored]
      <4>1. ~Newest(stored)
        BY <1>5, <2>1, <2>5, <3>2
      <4>2. PICK b \in Tabs : /\ flight[b] \in Slots /\ call[flight[b]].at = "reply"
                              /\ SessionOf(flight[b]) = session[stored]
        BY <2>5, <4>1 DEF TabInv, StoredOK
      <4>3. flight[b] # c
        BY <1>3, <4>2
      <4>4. session'[call[flight[b]].token] = SessionOf(flight[b])
        BY <1>1, <1>2, <4>2 DEF SessionOf
      <4> QED BY <1>1, <4>2, <4>3, <4>4
    <3> QED BY <3>1, <3>2
  <2> QED BY <1>1, <2>1, <2>2, <2>4, <2>5 DEF SessionOf, Newest
<1>12. AnswersOK'
  <2>1. ASSUME NEW b \in Tabs, NEW e \in Slots, login[b] = e, call'[e].at = "reply"
        PROVE  session'[call'[e].token] \notin abandoned \cup loggedOut
    <3>1. CASE e = c
      <4>1. call[c].at = "login.insert"
        BY <1>3, <2>1, <3>1 DEF TabInv, AwaitedOK
      <4> QED BY <1>1, <1>2, <1>3, <1>7, <3>1, <4>1
    <3>2. CASE e # c
      <4>1. call'[e] = call[e] /\ session'[call[e].token] = SessionOf(e)
        BY <1>1, <1>2, <2>1, <3>2 DEF SessionOf
      <4> QED BY <2>1, <4>1 DEF TabInv, AnswersOK
    <3> QED BY <3>1, <3>2
  <2>2. ASSUME NEW b \in Tabs, NEW e \in Slots, flight[b] = e, Engaged(e)'
        PROVE  session'[call'[e].token] \notin loggedOut
    <3>1. CASE e = c
      <4>1. Engaged(c) /\ session'[t] = SessionOf(c)
        BY <1>3, <1>4, <2>2, <3>1 DEF TabInv, AwaitedOK, Refreshing, SessionOf
      <4> QED BY <1>7, <2>2, <3>1, <4>1 DEF TabInv, AnswersOK
    <3>2. CASE e # c
      BY <1>7, <2>2, <3>2 DEF TabInv, AnswersOK
    <3> QED BY <3>1, <3>2
  <2> QED BY <1>1, <2>1, <2>2 DEF AnswersOK, SessionOf
<1> QED BY <1>6, <1>9, <1>10, <1>11, <1>12 DEF TabInv

LEMMA TabInit == Init => TabInv
<1> SUFFICES ASSUME Init PROVE TabInv
  OBVIOUS
<1>1. /\ issued = 0 /\ \A c \in Slots : call[c] = NoCall
      /\ stored = NoToken /\ \A b \in Tabs : flight[b] = NoSlot /\ login[b] = NoSlot
  BY DEF Init, ServerInit
<1>2. NoCall.at = "idle"
  BY DEF NoCall, At
<1>3. \A c \in Slots : ~Engaged(c)
  BY <1>1, <1>2 DEF Engaged, Refreshing
<1>4. EngagedOK /\ StoredOK
  BY <1>1, <1>2, <1>3 DEF EngagedOK, StoredOK
<1>5. AwaitedOK /\ AnswersOK
  BY <1>1, NoSlotAssumption DEF AwaitedOK, AnswersOK
<1>6. ChainOK
  BY <1>1 DEF ChainOK
<1> QED BY <1>4, <1>5, <1>6 DEF TabInv

LEMMA TabNext == Inv /\ TabInv /\ OneTab /\ [Next]_vars => TabInv'
<1> SUFFICES ASSUME Inv, TabInv, OneTab, [Next]_vars PROVE TabInv'
  OBVIOUS
<1>1. ASSUME UNCHANGED <<issued, dead, session, call>>,
             UNCHANGED <<stored, flight, login, abandoned, loggedOut>>
      PROVE  TabInv'
  <2>1. AwaitedOK' /\ \A e \in Slots : Engaged(e)' <=> Engaged(e)
    BY <1>1 DEF TabInv, AwaitedOK, Engaged, Awaited
  <2>2. \A e \in Slots : call'[e].at = "refresh.insert" => call'[e].token \in dead'
    BY <1>1 DEF TabInv, EngagedOK
  <2> QED BY <1>1, <2>1, <2>2, TabCalm
<1>2. ASSUME NEW c \in Slots, Server(c) PROVE TabInv'
  BY <1>2, ServerCalm, TokenIssued DEF Server, Serve
<1>3. ASSUME NEW c \in Slots, Release(c) PROVE TabInv'
  BY <1>3, ReleaseCalm
<1>4. ASSUME NEW c \in Slots, LogoutClick(c) PROVE TabInv'
  BY <1>4, LogoutForgets
<1>5. ASSUME NEW b \in Tabs, Browser(b) PROVE TabInv'
  BY <1>5, PageCalm, RepliesStored, PageLeaves, RefreshStarts DEF Browser, Continue, React
<1>6. CASE AccessExpires \/ UNCHANGED vars
  BY <1>1, <1>6 DEF AccessExpires, vars, serverVars, clientVars, storageVars, tokenVars,
                            historyVars
<1>7. CASE (SetPassword \/ Expire) /\ UNCHANGED clientVars
  BY <1>7, PasswordCalm
<1> QED BY <1>2, <1>3, <1>4, <1>5, <1>6, <1>7 DEF Next

\* However many requests a page fires, in a client open in one tab no two
\* refreshes present one token and no session forks, unless a page was left in
\* mid-refresh (refreshPromise, client.ts 97-125).
THEOREM OneTabUnforked == OneTab => (Spec => []SessionsUnforked)
<1> SUFFICES ASSUME OneTab PROVE Spec => []SessionsUnforked
  OBVIOUS
<1>1. Init => Inv /\ TabInv
  BY InitInv, TabInit
<1>2. Inv /\ TabInv /\ [Next]_vars => (Inv /\ TabInv)'
  BY NextInv, TabNext
<1>3. ASSUME Inv, TabInv PROVE SessionsUnforked
  <2>1. ASSUME NEW c \in Slots, NEW d \in Slots, SameToken(c, d)
        PROVE  c = d \/ session[call[c].token] \in abandoned
    BY <1>3, <2>1 DEF SameToken, TabInv, EngagedOK, Engaged, SessionOf
  <2>2. ASSUME NEW s \in live, NEW t \in live, session[s] = session[t], s # t
        PROVE  session[s] \in abandoned
    <3>1. s \in 1 .. issued /\ t \in 1 .. issued /\ s \notin dead /\ t \notin dead
      BY <2>2 DEF live
    <3>2. s < t \/ t < s
      BY <1>3, <2>2, <3>1, TokensIssued
    <3> QED BY <1>3, <2>2, <3>1, <3>2 DEF TabInv, ChainOK
  <2> QED BY <2>1, <2>2 DEF SessionsUnforked
<1> QED BY <1>1, <1>2, <1>3, PTL DEF Spec

\* What one tab stores is never out of date, whichever answers are lost, and a
\* session logged out of does not come back (client.ts 80-90, 97-125).
THEOREM OneTabCurrent == OneTab => (Spec => []StoredIsCurrent)
<1> SUFFICES ASSUME OneTab PROVE Spec => []StoredIsCurrent
  OBVIOUS
<1>1. Init => Inv /\ TabInv
  BY InitInv, TabInit
<1>2. Inv /\ TabInv /\ [Next]_vars => (Inv /\ TabInv)'
  BY NextInv, TabNext
<1>3. ASSUME Inv, TabInv PROVE StoredIsCurrent
  <2> SUFFICES ASSUME stored # NoToken
               PROVE  /\ session[stored] \notin loggedOut
                      /\ (\A b \in Tabs : flight[b] = NoSlot) /\ session[stored] \notin abandoned
                           => \A t \in stored + 1 .. issued : session[t] # session[stored]
    BY DEF StoredIsCurrent
  <2>1. session[stored] \notin loggedOut
    BY <1>3 DEF TabInv, StoredOK
  <2>2. ASSUME \A b \in Tabs : flight[b] = NoSlot, session[stored] \notin abandoned,
               NEW t \in stored + 1 .. issued
        PROVE  session[t] # session[stored]
    <3>1. Newest(stored)
      BY <1>3, <2>2, NoSlotAssumption DEF TabInv, StoredOK
    <3>2. t \in 1 .. issued /\ t > stored
      BY <1>3, TokensIssued
    <3> QED BY <3>1, <3>2 DEF Newest
  <2> QED BY <2>1, <2>2
<1> QED BY <1>1, <1>2, <1>3, PTL DEF Spec
=============================================================================
