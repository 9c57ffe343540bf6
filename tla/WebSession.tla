----------------------------- MODULE WebSession -----------------------------
(***************************************************************************)
(* The session as the web client keeps it (web/src/api/client.ts): tokens   *)
(* in the browser's storage, one refresh at a time for all requests of a    *)
(* tab, login and logout; composed with the server of module Sessions.      *)
(*                                                                          *)
(* JavaScript runs to completion: everything a tab does between two awaited *)
(* network answers is one action, the reactions of all requests that wait   *)
(* for the same promise included.                                           *)
(***************************************************************************)
EXTENDS Sessions, TLC

CONSTANTS Tabs,     \* pages of the application open in one browser
          Fetches,  \* authFetch calls in progress at the same time in a tab
          NoSlot

ASSUME NoSlotAssumption == NoSlot \notin Slots

VARIABLES
  stored,     \* the refresh token in local storage
  fresh,      \* the access token in local storage is there and not expired
  fetch,      \* how far each authFetch is
  flight,     \* refreshPromise: the slot that serves the tab's refresh
  login,      \* the slot that serves the tab's login form
  abandoned,  \* history: the sessions of which a page was left in mid-refresh
  loggedOut   \* history: the sessions logged out of with no refresh under way

storageVars == <<stored, fresh>>
clientVars == <<storageVars, fetch, flight, login, abandoned, loggedOut>>
vars == <<serverVars, clientVars>>

Init ==
  /\ ServerInit
  /\ stored = NoToken /\ fresh = FALSE
  /\ fetch = [b \in Tabs |-> [f \in Fetches |-> "idle"]]
  /\ flight = [b \in Tabs |-> NoSlot]
  /\ login = [b \in Tabs |-> NoSlot]
  /\ abandoned = {} /\ loggedOut = {}

storeSession(t) == stored' = t /\ fresh' = TRUE
clearSession == stored' = NoToken /\ fresh' = FALSE

\* A slot whose answer a page still waits for.
Awaited(c) == \E b \in Tabs : c \in {login[b], flight[b]}

\* Every request in tab b that waits for the refresh goes on like this.
Resume(b, step) ==
  fetch' = [fetch EXCEPT ![b] =
              [f \in Fetches |-> IF @[f] = "waiting" THEN step ELSE @[f]]]

-----------------------------------------------------------------------------
(* login, logout                                                            *)

\* The login page can be opened with a session stored.
LoginClick(b, c) ==
  /\ login[b] = NoSlot
  /\ Login(c)
  /\ login' = [login EXCEPT ![b] = c]
  /\ UNCHANGED <<storageVars, fetch, flight, abandoned, loggedOut>>

LoginReply(b) ==
  /\ login[b] # NoSlot
  /\ call[login[b]].at = "reply"
  /\ storeSession(call[login[b]].token)
  /\ Forget(login[b])
  /\ login' = [login EXCEPT ![b] = NoSlot]
  /\ UNCHANGED <<tokenVars, passwords, historyVars, fetch, flight, abandoned, loggedOut>>

\* The login fails or its answer does not come; the form shows an error.
LoginFails(b) ==
  /\ login[b] # NoSlot
  /\ login' = [login EXCEPT ![b] = NoSlot]
  /\ UNCHANGED <<serverVars, storageVars, fetch, flight, abandoned, loggedOut>>

\* Mutant: no token is looked for.
SendLogoutAlways(c) ==
  /\ Begin(c, "logout.revoke", stored)
  /\ loggedOut' = loggedOut
  /\ UNCHANGED <<tokenVars, passwords, historyVars, fetch, flight, login, abandoned>>

SendLogout(c) ==
  /\ stored # NoToken
  /\ Begin(c, "logout.revoke", stored)
  /\ loggedOut' = IF \E b \in Tabs : flight[b] # NoSlot THEN loggedOut
                  ELSE loggedOut \cup {session[stored]}
  /\ UNCHANGED <<tokenVars, passwords, historyVars, fetch, flight, login, abandoned>>

\* Clear first, then tell the server; no answer changes anything.
LogoutClick(c) == SendLogout(c) /\ clearSession

-----------------------------------------------------------------------------
(* authFetch                                                                *)

\* The header carries the stored access token: "sent" if it will be accepted.
Send(b, f) ==
  /\ stored # NoToken
  /\ fetch[b][f] = "idle"
  /\ fetch' = [fetch EXCEPT ![b][f] = IF fresh THEN "sent" ELSE "stale"]
  /\ UNCHANGED <<serverVars, storageVars, flight, login, abandoned, loggedOut>>

\* An answer other than 401, or none at all, and the call is over.
Answer(b, f) ==
  /\ fetch[b][f] = "sent"
  /\ fetch' = [fetch EXCEPT ![b][f] = "idle"]
  /\ UNCHANGED <<serverVars, storageVars, flight, login, abandoned, loggedOut>>

\* Answer 401 with no refresh token left: notifySessionExpired.
DeniedNoToken(b, f) ==
  /\ fetch[b][f] = "stale"
  /\ stored = NoToken
  /\ clearSession
  /\ fetch' = [fetch EXCEPT ![b][f] = "idle"]
  /\ UNCHANGED <<serverVars, flight, login, abandoned, loggedOut>>

refresh(b, f, c) ==
  /\ fetch[b][f] = "stale"
  /\ stored # NoToken
  /\ Begin(c, "refresh.check", stored)
  /\ flight' = [flight EXCEPT ![b] = c]
  /\ fetch' = [fetch EXCEPT ![b][f] = "waiting"]
  /\ UNCHANGED <<tokenVars, passwords, historyVars, storageVars, login, abandoned, loggedOut>>

\* Answer 401: start a refresh ...
DeniedStart(b, f, c) == flight[b] = NoSlot /\ refresh(b, f, c)

\* ... or wait for the one that is under way.
DeniedJoin(b, f) ==
  /\ fetch[b][f] = "stale"
  /\ stored # NoToken /\ flight[b] # NoSlot
  /\ fetch' = [fetch EXCEPT ![b][f] = "waiting"]
  /\ UNCHANGED <<serverVars, storageVars, flight, login, abandoned, loggedOut>>

\* Mutant: one of the waiting requests is repeated, the others are forgotten.
FlightReplyOne(b) ==
  /\ flight[b] # NoSlot
  /\ call[flight[b]].at = "reply"
  /\ storeSession(call[flight[b]].token)
  /\ Forget(flight[b])
  /\ flight' = [flight EXCEPT ![b] = NoSlot]
  /\ \E f \in Fetches : /\ fetch[b][f] = "waiting"
                        /\ fetch' = [fetch EXCEPT ![b][f] = "sent"]
  /\ UNCHANGED <<tokenVars, passwords, historyVars, login, abandoned, loggedOut>>

\* Store the new pair and repeat every request that waits (bound: the access
\* token just issued does not expire before the repeated request arrives).
FlightReply(b) ==
  /\ flight[b] # NoSlot
  /\ call[flight[b]].at = "reply"
  /\ storeSession(call[flight[b]].token)
  /\ Forget(flight[b])
  /\ flight' = [flight EXCEPT ![b] = NoSlot]
  /\ Resume(b, "sent")
  /\ UNCHANGED <<tokenVars, passwords, historyVars, login, abandoned, loggedOut>>

\* Mutant: the session is kept for another attempt.
FlightFailsKeeps(b) ==
  /\ flight[b] # NoSlot
  /\ flight' = [flight EXCEPT ![b] = NoSlot]
  /\ Resume(b, "idle")
  /\ UNCHANGED <<serverVars, storageVars, login, abandoned, loggedOut>>

\* Refused, cut short, or the connection is lost: every request that waits
\* ends in notifySessionExpired.
FlightFails(b) ==
  /\ flight[b] # NoSlot
  /\ flight' = [flight EXCEPT ![b] = NoSlot]
  /\ clearSession
  /\ Resume(b, "idle")
  /\ UNCHANGED <<serverVars, login, abandoned, loggedOut>>

\* The page is reloaded or closed: what it waited for goes on without it.  (With
\* nothing of that kind under way a reload is the end of every request.)
Reload(b) ==
  /\ flight[b] # NoSlot \/ login[b] # NoSlot
  /\ fetch' = [fetch EXCEPT ![b] = [f \in Fetches |-> "idle"]]
  /\ flight' = [flight EXCEPT ![b] = NoSlot]
  /\ login' = [login EXCEPT ![b] = NoSlot]
  /\ abandoned' = IF flight[b] # NoSlot /\ stored # NoToken
                  THEN abandoned \cup {session[stored]} ELSE abandoned
  /\ UNCHANGED <<serverVars, storageVars, loggedOut>>

\* The 15 minutes of the stored access token are over.
AccessExpires ==
  /\ fresh
  /\ fresh' = FALSE
  /\ UNCHANGED <<serverVars, stored, fetch, flight, login, abandoned, loggedOut>>

\* A slot nobody waits for becomes free when its request has ended.
Release(c) ==
  /\ call[c].at \in {"reply", "failed"}
  /\ ~Awaited(c)
  /\ Forget(c)
  /\ UNCHANGED <<tokenVars, passwords, historyVars, clientVars>>

-----------------------------------------------------------------------------
Server(c) == (Serve(c) \/ Abort(c)) /\ UNCHANGED clientVars

React(b) == FlightReply(b) \/ FlightFails(b)

Continue(b, f) ==
  \/ Answer(b, f) \/ DeniedNoToken(b, f) \/ DeniedJoin(b, f)
  \/ \E c \in Slots : DeniedStart(b, f, c)

Browser(b) ==
  \/ \E c \in Slots : LoginClick(b, c)
  \/ LoginReply(b) \/ LoginFails(b)
  \/ \E f \in Fetches : Send(b, f) \/ Continue(b, f)
  \/ React(b) \/ Reload(b)

Next ==
  \/ \E c \in Slots : Server(c) \/ Release(c) \/ LogoutClick(c)
  \/ \E b \in Tabs : Browser(b)
  \/ AccessExpires
  \/ (SetPassword \/ Expire) /\ UNCHANGED clientVars

Spec == Init /\ [][Next]_vars

\* The server ends every request within 30 s, one way or the other, and the
\* browser reports every answer or its absence.
FairSpec ==
  /\ Spec
  /\ \A c \in Slots : WF_vars(Server(c)) /\ WF_vars(Release(c))
  /\ \A b \in Tabs : WF_vars(React(b))
  /\ \A b \in Tabs : \A f \in Fetches : SF_vars(Continue(b, f))
  /\ \A b \in Tabs : WF_vars(LoginReply(b) \/ LoginFails(b))

\* For TLC: slots and requests are interchangeable.
Symmetry == Permutations(Slots) \cup Permutations(Fetches)

-----------------------------------------------------------------------------
\* Client and server hold what they may; the browser stores only tokens the
\* server has issued.
TypeOK ==
  /\ ServerTypeOK
  /\ stored \in 0 .. issued /\ fresh \in BOOLEAN
  /\ fetch \in [Tabs -> [Fetches -> {"idle", "sent", "stale", "waiting"}]]
  /\ flight \in [Tabs -> Slots \cup {NoSlot}]
  /\ login \in [Tabs -> Slots \cup {NoSlot}]
  /\ abandoned \subseteq 1 .. issued /\ loggedOut \subseteq 1 .. issued

\* Refreshes that present the same token: the server would let both succeed.
SameToken(c, d) ==
  /\ call[c].at \in Refreshing /\ call[d].at \in Refreshing
  /\ call[c].token = call[d].token

\* "so a page that fires several requests at once only triggers one refresh call
\* instead of a burst of them": in a client open in one tab no two refreshes
\* present the same token, and so a session, which the server would let them
\* fork, has one live token; unless a page was left in mid-refresh.
SessionsUnforked ==
  /\ \A c, d \in Slots :
       SameToken(c, d) => c = d \/ session[call[c].token] \in abandoned
  /\ \A s, t \in live :
       session[s] = session[t] => s = t \/ session[s] \in abandoned

\* What is in the browser's storage is never out of date: with no refresh under
\* way the token there is the newest of its session, so that the next refresh
\* does not present one that has been exchanged already, whichever answers were
\* lost; and a session the user has logged out of does not come back, whatever
\* requests were still waiting, unless a refresh was under way.
StoredIsCurrent ==
  stored # NoToken =>
    /\ session[stored] \notin loggedOut
    /\ (\A b \in Tabs : flight[b] = NoSlot) /\ session[stored] \notin abandoned
         => \A t \in stored + 1 .. issued : session[t] # session[stored]

\* Every request of a page comes to an end: the answer, the repeated request or
\* the report that the session has expired.
FetchEnds ==
  \A b \in Tabs, f \in Fetches : fetch[b][f] # "idle" ~> fetch[b][f] = "idle"
=============================================================================
