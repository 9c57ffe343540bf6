------------------------------- MODULE Dockets -------------------------------
(***************************************************************************)
(* Delivery dockets (internal/logistics): the units on a docket, its        *)
(* dispatch and its receipt, which check every unit out of and into store   *)
(* custody and move it to Installation one statement at a time; together    *)
(* with the board requests of module Board.                                 *)
(*                                                                          *)
(* The docket page (web/src/pages/DocketDetailPage.tsx) offers a sign-off   *)
(* according to the docket as it was when the page was loaded; the server   *)
(* does not look again.  Loading the page is therefore the first step of    *)
(* those two requests.                                                      *)
(***************************************************************************)
EXTENDS Board

CONSTANT MaxDockets   \* bound: dockets created

ASSUME MaxDocketsAssumption == MaxDockets \in Nat

\* Dockets are numbered in the order of their created_at.
DocketIds == 1 .. MaxDockets
Statuses == {"draft", "dispatched", "in_transit", "arrived_at_site", "delivered"}
Buttons == {"in_transit", "arrived_at_site"}   \* the page's stage buttons

VARIABLES
  made,      \* the number of dockets created
  status,    \* delivery_dockets.status
  sent,      \* the dockets whose dispatched_at is set
  received,  \* the dockets whose received_at is set
  items,     \* the units on each docket: delivery_docket_items
  custody,   \* <<unit, docket, action>>: store_custody_logs, for_dispatch
  events,    \* <<docket, status>>: the system's tracking events
  job        \* the docket each slot works on, and the units still to do

docketVars == <<made, status, sent, received, items>>
logVars == <<custody, events>>
vars == <<boardVars, docketVars, logVars, job>>

NoJob == [docket |-> 0, left |-> {}]
On(d) == [docket |-> d, left |-> {}]

DocketSteps == {"add.unit", "add.insert", "remove.delete",
                "dispatch.write", "dispatch.list", "dispatch.custody", "dispatch.event",
                "receive.write", "receive.list", "receive.custody", "receive.advance",
                "receive.event"} \cup Buttons
Steps == {"idle"} \cup BoardSteps \cup DocketSteps

\* Units that have reached Shipment.
Init ==
  /\ column = [u \in Units |-> "shipment"]
  /\ mover = [u \in Units |-> "signoff"]
  /\ granted = [u \in Units |-> {"pre_deployment", "configuration"}]
  /\ req = [p \in Slots |-> NoRequest]
  /\ made = 0
  /\ status = [d \in DocketIds |-> "draft"]
  /\ sent = {} /\ received = {}
  /\ items = [d \in DocketIds |-> {}]
  /\ custody = {} /\ events = {}
  /\ job = [p \in Slots |-> NoJob]

Done(p) == Finish(p) /\ job' = [job EXCEPT ![p] = NoJob]

\* The sign-offs of Shipment are complete for the units of a docket that has
\* been dispatched and received.
Shipped(u, it, rcv) == \E d \in sent \cap rcv : u \in it[d]
GrantShipped(it, rcv) ==
  granted' = [u \in Units |-> granted[u] \cup
                IF Shipped(u, it, rcv) THEN {"shipment"} ELSE {}]

-----------------------------------------------------------------------------
InsertDocket == made < MaxDockets /\ made' = made + 1

CreateDocket(p) ==
  /\ req[p].at = "idle"
  /\ InsertDocket
  /\ UNCHANGED <<boardVars, status, sent, received, items, logVars, job>>

(* AddItem: is the docket a draft, is the unit in Shipment, insert.         *)

\* Mutant: the status is not asked for.
DraftAny(d) == d <= made

Draft(d) == d <= made /\ status[d] = "draft"

AddItem(p, d, u) ==
  /\ Draft(d)
  /\ Begin(p, Serving(u, "add.unit"))
  /\ job' = [job EXCEPT ![p] = On(d)]
  /\ UNCHANGED <<ledgerVars, docketVars, logVars>>

AddUnit(p) ==
  /\ req[p].at = "add.unit"
  /\ IF column[req[p].unit] = "shipment"
     THEN Goto(p, "add.insert") /\ UNCHANGED job
     ELSE Done(p)
  /\ UNCHANGED <<ledgerVars, docketVars, logVars>>

AddInsert(p) ==
  /\ req[p].at = "add.insert"
  /\ items' = [items EXCEPT ![job[p].docket] = @ \cup {req[p].unit}]
  /\ GrantShipped(items', received)
  /\ Done(p)
  /\ UNCHANGED <<column, mover, made, status, sent, received, logVars>>

RemoveItem(p, d, u) ==
  /\ Draft(d) /\ u \in items[d]
  /\ Begin(p, Serving(u, "remove.delete"))
  /\ job' = [job EXCEPT ![p] = On(d)]
  /\ UNCHANGED <<ledgerVars, docketVars, logVars>>

RemoveDelete(p) ==
  /\ req[p].at = "remove.delete"
  /\ items' = [items EXCEPT ![job[p].docket] = @ \ {req[p].unit}]
  /\ Done(p)
  /\ UNCHANGED <<ledgerVars, made, status, sent, received, logVars>>

-----------------------------------------------------------------------------
(* RecordDispatch: mark the docket, list its items, check each out, log.    *)

Open(p, d, step) ==
  /\ d <= made
  /\ Begin(p, [NoRequest EXCEPT !.at = step])
  /\ job' = [job EXCEPT ![p] = On(d)]
  /\ UNCHANGED <<ledgerVars, docketVars, logVars>>

Dispatch(p, d) == Open(p, d, "dispatch.write")

\* The page offers "Mark Dispatched" while dispatched_at is not set and there
\* are items to send.
DispatchOpen(p, d) == d \notin sent /\ items[d] # {} /\ Dispatch(p, d)

DispatchWrite(p) ==
  /\ req[p].at = "dispatch.write"
  /\ status' = [status EXCEPT ![job[p].docket] = "dispatched"]
  /\ sent' = sent \cup {job[p].docket}
  /\ Goto(p, "dispatch.list")
  /\ UNCHANGED <<ledgerVars, made, received, items, logVars, job>>

\* listItems, the same for a receipt; the loop below goes through the list.
List(p, here, each, after) ==
  /\ req[p].at = here
  /\ job' = [job EXCEPT ![p].left = items[job[p].docket]]
  /\ Goto(p, IF items[job[p].docket] = {} THEN after ELSE each)
  /\ UNCHANGED <<ledgerVars, docketVars, logVars>>

DispatchList(p) == List(p, "dispatch.list", "dispatch.custody", "dispatch.event")

LogStoreCustody(u, d, action) == custody' = custody \cup {<<u, d, action>>}

DispatchCustody(p, u) ==
  /\ req[p].at = "dispatch.custody" /\ u \in job[p].left
  /\ LogStoreCustody(u, job[p].docket, "checked_out")
  /\ job' = [job EXCEPT ![p].left = @ \ {u}]
  /\ Goto(p, IF job[p].left = {u} THEN "dispatch.event" ELSE "dispatch.custody")
  /\ UNCHANGED <<ledgerVars, docketVars, events>>

RecordTrackingEvent(p, here, s) ==
  /\ req[p].at = here
  /\ events' = events \cup {<<job[p].docket, s>>}
  /\ Done(p)
  /\ UNCHANGED <<ledgerVars, docketVars, custody>>

DispatchEvent(p) == RecordTrackingEvent(p, "dispatch.event", "dispatched")

-----------------------------------------------------------------------------
(* RecordReceipt: mark, list, check each unit in and move it, log.          *)

Receive(p, d) == Open(p, d, "receive.write")

\* Mutant: "Mark Received" is offered from the start.
ReceiveOpenDraft(p, d) == d \notin received /\ Receive(p, d)

\* The page offers "Mark Received" between dispatched_at and received_at.
ReceiveOpen(p, d) == d \in sent \ received /\ Receive(p, d)

ReceiveWrite(p) ==
  /\ req[p].at = "receive.write"
  /\ status' = [status EXCEPT ![job[p].docket] = "delivered"]
  /\ received' = received \cup {job[p].docket}
  /\ GrantShipped(items, received')
  /\ Goto(p, "receive.list")
  /\ UNCHANGED <<column, mover, made, sent, items, logVars, job>>

ReceiveList(p) == List(p, "receive.list", "receive.custody", "receive.event")

\* Mutant: the action of the dispatch.
ReceiveCustodyOut(p, u) ==
  /\ req[p].at = "receive.custody" /\ u \in job[p].left
  /\ LogStoreCustody(u, job[p].docket, "checked_out")
  /\ req' = [req EXCEPT ![p].at = "receive.advance", ![p].unit = u]
  /\ UNCHANGED <<ledgerVars, docketVars, events, job>>

ReceiveCustody(p, u) ==
  /\ req[p].at = "receive.custody" /\ u \in job[p].left
  /\ LogStoreCustody(u, job[p].docket, "checked_in")
  /\ req' = [req EXCEPT ![p].at = "receive.advance", ![p].unit = u]
  /\ UNCHANGED <<ledgerVars, docketVars, events, job>>

ReceiveAdvance(p) ==
  /\ req[p].at = "receive.advance"
  /\ AdvanceBoardColumn(req[p].unit, "installation", "signoff")
  /\ job' = [job EXCEPT ![p].left = @ \ {req[p].unit}]
  /\ Goto(p, IF job[p].left = {req[p].unit} THEN "receive.event"
                                            ELSE "receive.custody")
  /\ UNCHANGED <<granted, docketVars, logVars>>

ReceiveEvent(p) == RecordTrackingEvent(p, "receive.event", "delivered")

\* Mutants: a stage button changes the status of a delivered docket too; the
\* buttons are there before the dispatch.
AddTrackingEventAlways(p, d, s) ==
  /\ d \in sent
  /\ status' = [status EXCEPT ![d] = s]
  /\ Begin(p, [NoRequest EXCEPT !.at = s])
  /\ job' = [job EXCEPT ![p] = On(d)]
  /\ UNCHANGED <<ledgerVars, made, sent, received, items, logVars>>

AddTrackingEventUnsent(p, d, s) ==
  /\ d <= made
  /\ status' = [status EXCEPT ![d] = IF @ = "delivered" THEN @ ELSE s]
  /\ Begin(p, [NoRequest EXCEPT !.at = s])
  /\ job' = [job EXCEPT ![p] = On(d)]
  /\ UNCHANGED <<ledgerVars, made, sent, received, items, logVars>>

\* A delivered docket keeps its status.
UpdateStatus(d, s) == status' = [status EXCEPT ![d] = IF @ = "delivered" THEN @ ELSE s]

\* AddTrackingEvent, from the In Transit and Arrived at Site buttons, which
\* the page shows once the docket is dispatched.
AddTrackingEvent(p, d, s) ==
  /\ d \in sent
  /\ UpdateStatus(d, s)
  /\ Begin(p, [NoRequest EXCEPT !.at = s])
  /\ job' = [job EXCEPT ![p] = On(d)]
  /\ UNCHANGED <<ledgerVars, made, sent, received, items, logVars>>

TrackEvent(p) ==
  \E s \in Buttons : RecordTrackingEvent(p, s, s)

-----------------------------------------------------------------------------
(* The board requests.                                                      *)

DocketMoveRead(p, u, c, resetAcceptance) ==
  MoveRead(p, u, c, resetAcceptance) /\ UNCHANGED <<docketVars, logVars, job>>

DocketMoveWrite(p) == MoveWrite(p) /\ UNCHANGED <<docketVars, logVars, job>>

DocketMoveReset(p) == MoveReset(p) /\ UNCHANGED <<docketVars, logVars, job>>

DocketSyncRead(p, u) == SyncRead(p, u) /\ UNCHANGED <<docketVars, logVars, job>>

\* Mutant: received_at is not asked for.
ReadyToLeaveSent(u) ==
  \E d \in sent : u \in items[d] /\ \A e \in DocketIds : u \in items[e] => e <= d

\* The readiness query of Shipment looks at the latest docket of the unit.
ReadyToLeave(u) ==
  \E d \in sent \cap received :
    u \in items[d] /\ \A e \in DocketIds : u \in items[e] => e <= d

\* Those of the other columns read tables that other modules model.
MayAnswer(u, c, ready) ==
  IF c = "shipment" THEN ready = ReadyToLeave(u) ELSE ready => c \in granted[u]

DocketSyncCheck(p) ==
  /\ \E ready \in BOOLEAN : /\ MayAnswer(req[p].unit, req[p].col, ready)
                            /\ SyncCheck(p, ready)
  /\ UNCHANGED <<docketVars, logVars, job>>

DocketSyncWrite(p) == SyncWrite(p) /\ UNCHANGED <<docketVars, logVars, job>>

AbortRequest(p) ==
  /\ Abort(p)
  /\ job' = [job EXCEPT ![p] = NoJob]
  /\ UNCHANGED <<docketVars, logVars>>

-----------------------------------------------------------------------------
Start(p) ==
  \/ CreateDocket(p)
  \/ \E d \in DocketIds, u \in Units : AddItem(p, d, u) \/ RemoveItem(p, d, u)
  \/ \E d \in DocketIds : DispatchOpen(p, d) \/ ReceiveOpen(p, d)
  \/ \E d \in DocketIds, s \in Buttons : AddTrackingEvent(p, d, s)
  \/ \E u \in Units, c \in MoveTargets, resetAcceptance \in BOOLEAN :
       DocketMoveRead(p, u, c, resetAcceptance)
  \/ \E u \in Units : DocketSyncRead(p, u)

Continue(p) ==
  \/ AddUnit(p) \/ AddInsert(p) \/ RemoveDelete(p)
  \/ DispatchWrite(p) \/ DispatchList(p) \/ DispatchEvent(p)
  \/ \E u \in Units : DispatchCustody(p, u) \/ ReceiveCustody(p, u)
  \/ ReceiveWrite(p) \/ ReceiveList(p) \/ ReceiveAdvance(p) \/ ReceiveEvent(p)
  \/ TrackEvent(p)
  \/ DocketMoveWrite(p) \/ DocketMoveReset(p)
  \/ DocketSyncCheck(p) \/ DocketSyncWrite(p)

Next == \E p \in Slots : Start(p) \/ Continue(p) \/ AbortRequest(p)

Spec == Init /\ [][Next]_vars

\* Every request that has begun goes on until it ends or is cut short, and
\* users who find a card in the wrong column keep asking for a sync of it,
\* and not all of these requests are cut short.
FairSpec ==
  /\ Spec
  /\ \A p \in Slots : WF_vars(Continue(p) \/ AbortRequest(p))
  /\ \A u \in Units :
       /\ SF_vars(\E p \in Slots : DocketSyncRead(p, u))
       /\ SF_vars(\E p \in Slots : req[p].unit = u /\ DocketSyncCheck(p))
       /\ SF_vars(\E p \in Slots : req[p].unit = u /\ DocketSyncWrite(p))

-----------------------------------------------------------------------------
\* The tables and slots hold what their columns allow; a docket is received only
\* after it has been dispatched, from however old a page.
TypeOK ==
  /\ column \in [Units -> Columns]
  /\ mover \in [Units -> Ledger!Movers]
  /\ granted \in [Units -> SUBSET Columns]
  /\ req \in [Slots -> Requests(Steps)]
  /\ made \in 0 .. MaxDockets
  /\ status \in [DocketIds -> Statuses]
  /\ received \subseteq sent /\ sent \subseteq 1 .. made
  /\ items \in [DocketIds -> SUBSET Units]
  /\ custody \subseteq Units \X DocketIds \X {"checked_out", "checked_in"}
  /\ events \subseteq DocketIds \X Statuses
  /\ job \in [Slots -> [docket : 0 .. MaxDockets, left : SUBSET Units]]

\* A unit is in Installation because the docket it was on has been dispatched
\* and received ("The shipment dispatched and marked received",
\* users_manual.md), or because an administrator put it there.
AdvanceBacked == Ledger!AdvanceBacked

\* ... and every step is one the board's promise allows.
ImplementsLedger == Ledger!Spec

\* The status, which AddItem and RemoveItem ask for, and dispatched_at, which
\* the page and the readiness query ask for, agree: a docket is a draft as long
\* as it has not been dispatched, whatever is repeated or arrives late.
DraftIffUnsent == \A d \in DocketIds : status[d] = "draft" <=> d \notin sent

\* A request that has found the docket a draft, or a page that has found it not
\* yet dispatched, and has not written what follows from that.
Editing(d) ==
  \E p \in Slots : /\ req[p].at \in {"add.unit", "add.insert", "remove.delete"}
                   /\ job[p].docket = d
Dispatching(d) == \E p \in Slots : req[p].at = "dispatch.write" /\ job[p].docket = d

\* What is on a docket does not change once it has left the store ("The
\* docket must still be in draft status"), and a delivered docket stays
\* delivered, whatever is pressed on pages loaded before: what can still change
\* them is a request that found the docket a draft before the dispatch, or the
\* second of two dispatches.  Once none is under way, none comes after.
SentDocketKept ==
  [][\A d \in sent :
       /\ ~Editing(d) => items'[d] = items[d] /\ ~Editing(d)'
       /\ status[d] = "delivered" /\ ~Dispatching(d)
            => status'[d] = "delivered" /\ ~Dispatching(d)']_vars

\* When the tracking history says a docket was dispatched (delivered), every
\* unit on it has been checked out of (into) custody for it, wherever earlier
\* attempts were cut short.
TrackedMeansHandled ==
  \A d \in DocketIds : \A u \in items[d] :
    /\ <<d, "dispatched">> \in events => <<u, d, "checked_out">> \in custody
    /\ <<d, "delivered">> \in events => <<u, d, "checked_in">> \in custody

\* A receipt that is cut short leaves units behind in Shipment; a sync moves
\* them on, unless a newer docket comes to carry them.
ReceivedCatchesUp ==
  \A u \in Units : (column[u] = "shipment" /\ ReadyToLeave(u))
                     ~> (column[u] # "shipment" \/ ~ReadyToLeave(u))

\* "the normal AdvanceBoardColumn path only ever moves a unit forward".  This does
\* not hold: a receipt takes a unit back that an administrator has moved on.
OnlyAdminMovesBack ==
  [][\A u \in Units : Rank[column'[u]] < Rank[column[u]]
                       => mover'[u] = "admin"]_vars
=============================================================================
