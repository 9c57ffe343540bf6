--------------------------- MODULE Dockets_proofs ---------------------------
(***************************************************************************)
(* Proofs about module Dockets, for every set of units and request slots    *)
(* and any number of dockets.                                               *)
(***************************************************************************)
EXTENDS Dockets, Board_proofs

DocketOK ==
  /\ made \in 0 .. MaxDockets
  /\ status \in [DocketIds -> Statuses]
  /\ received \subseteq sent /\ sent \subseteq 1 .. made
  /\ items \in [DocketIds -> SUBSET Units]
  /\ \A d \in DocketIds : items[d] # {} => d \in 1 .. made
  /\ custody \subseteq Units \X DocketIds \X {"checked_out", "checked_in"}
  /\ events \subseteq DocketIds \X Statuses
  /\ job \in [Slots -> [docket : 0 .. MaxDockets, left : SUBSET Units]]

\* What a request knows of the docket it works on: it exists, a receipt is of
\* one that was dispatched, and the units a receipt still has to move have
\* their Shipment sign-off.
JobFine(p) ==
  /\ req[p].at \in DocketSteps => job[p].docket \in 1 .. made
  /\ req[p].at = "receive.write" => job[p].docket \in sent
  /\ req[p].at = "receive.list" => job[p].docket \in sent \cap received
  /\ req[p].at \in {"receive.custody", "receive.advance"} =>
       \A u \in job[p].left : "shipment" \in granted[u]
  /\ req[p].at = "receive.advance" => "shipment" \in granted[req[p].unit]

\* The units of a received docket have their Shipment sign-off.
ShippedOK ==
  \A u \in Units : Shipped(u, items, received) => "shipment" \in granted[u]

Inv ==
  /\ BoardOK /\ ReqOK(Steps) /\ SyncOK /\ SyncGranted
  /\ DocketOK /\ ShippedOK /\ DraftIffUnsent
  /\ \A p \in Slots : JobFine(p)

LEMMA InvTyped == Inv => TypeOK
  BY DEF Inv, BoardOK, ReqOK, DocketOK, TypeOK

LEMMA InitInv == Init => Inv
<1> SUFFICES ASSUME Init PROVE Inv
  OBVIOUS
<1>1. BoardOK
  BY DEF Init, BoardOK, Ledger!Movers, Columns
<1>2. ReqOK(Steps) /\ \A p \in Slots : req[p].at = "idle"
  BY NoRequestTyped DEF Init, ReqOK, Steps
<1>3. DocketOK
  BY MaxDocketsAssumption DEF Init, DocketOK, Statuses, NoJob, DocketIds
<1>4. ShippedOK /\ DraftIffUnsent
  BY DEF Init, ShippedOK, Shipped, DraftIffUnsent
<1>5. \A p \in Slots : JobFine(p)
  BY <1>2 DEF JobFine, DocketSteps, Buttons
<1>6. SyncOK /\ SyncGranted
  BY <1>2 DEF SyncOK, SyncGranted
<1>7. QED BY <1>1, <1>2, <1>3, <1>4, <1>5, <1>6 DEF Inv

-----------------------------------------------------------------------------
(* What every step of a docket request keeps.                               *)

\* Only the job of slot p changes.
JobsOf(p) == \A q \in Slots \ {p} : job'[q] = job[q]

LEMMA JobTyped ==
  ASSUME Inv, NEW p \in Slots
  PROVE  /\ req[p].unit \in Units /\ req[p].at \in Steps
         /\ job[p].docket \in 0 .. MaxDockets /\ job[p].left \subseteq Units
         /\ 1 .. made \subseteq DocketIds /\ sent \subseteq DocketIds
         /\ (job[p].docket \in 1 .. made => job[p].docket \in DocketIds)
<1>1. req[p].unit \in Units /\ req[p].at \in Steps
  BY SlotReq DEF Inv
<1>2. 1 .. made \subseteq DocketIds /\ sent \subseteq 1 .. made
  BY MaxDocketsAssumption DEF Inv, DocketOK, DocketIds
<1>3. job[p] \in [docket : 0 .. MaxDockets, left : SUBSET Units]
  BY DEF Inv, DocketOK
<1>4. QED BY <1>1, <1>2, <1>3

\* A step of slot p preserves the invariant when nothing granted, sent or
\* received is taken back and what it leaves in the slot is fine.
LEMMA SlotStep ==
  ASSUME Inv, NEW p \in Slots,
         ReqOK(Steps)', Others(p), req'[p].at \notin {"sync.check", "sync.write"},
         BoardOK', DocketOK', ShippedOK', DraftIffUnsent',
         JobsOf(p), JobFine(p)',
         \A u \in Units : granted[u] \subseteq granted'[u],
         1 .. made \subseteq 1 .. made', sent \subseteq sent', received \subseteq received'
  PROVE  Inv'
<1>1. SyncOK' /\ SyncGranted'
  BY SyncFrame DEF Inv
<1>2. ASSUME NEW q \in Slots \ {p}
      PROVE  JobFine(q)'
  <2>1. /\ JobFine(q) /\ req'[q] = req[q] /\ job'[q] = job[q]
        /\ req[q].unit \in Units /\ job[q].left \subseteq Units
    BY JobTyped DEF Inv, Others, JobsOf
  <2>2. QED BY <2>1 DEF JobFine
<1>3. QED BY <1>1, <1>2 DEF Inv

\* The steps that leave the board and the dockets alone.
LEMMA QuietStep ==
  ASSUME Inv, NEW p \in Slots,
         ReqOK(Steps)', Others(p), req'[p].at \notin {"sync.check", "sync.write"},
         UNCHANGED <<ledgerVars, docketVars>>,
         custody' \subseteq Units \X DocketIds \X {"checked_out", "checked_in"},
         events' \subseteq DocketIds \X Statuses,
         job' \in [Slots -> [docket : 0 .. MaxDockets, left : SUBSET Units]],
         JobsOf(p), JobFine(p)'
  PROVE  Inv'
<1>1. BoardOK' /\ DocketOK' /\ ShippedOK' /\ DraftIffUnsent'
  BY DEF Inv, BoardOK, DocketOK, ShippedOK, Shipped, DraftIffUnsent, ledgerVars, docketVars
<1>2. QED BY <1>1, SlotStep DEF ledgerVars, docketVars

\* A request that ends holds no job.
LEMMA DoneStep ==
  ASSUME Inv, NEW p \in Slots, Done(p)
  PROVE  /\ ReqOK(Steps)' /\ Others(p) /\ req'[p].at = "idle"
         /\ job' \in [Slots -> [docket : 0 .. MaxDockets, left : SUBSET Units]]
         /\ JobsOf(p) /\ JobFine(p)'
<1>1. ReqOK(Steps)' /\ Others(p) /\ req'[p].at = "idle"
  BY FinishReq DEF Inv, Done, Steps
<1>2. /\ job' \in [Slots -> [docket : 0 .. MaxDockets, left : SUBSET Units]]
      /\ JobsOf(p)
  BY MaxDocketsAssumption DEF Inv, DocketOK, Done, NoJob, JobsOf
<1>3. JobFine(p)'
  BY <1>1 DEF JobFine, DocketSteps, Buttons
<1>4. QED BY <1>1, <1>2, <1>3

\* A docket request begins at a step that asks for nothing but a docket.
LEMMA OpenStep ==
  ASSUME Inv, NEW p \in Slots, NEW d \in 1 .. made, NEW r \in Requests(Steps),
         r.at \in DocketSteps \ {"receive.list", "receive.custody", "receive.advance"},
         r.at = "receive.write" => d \in sent,
         Begin(p, r), job' = [job EXCEPT ![p] = On(d)],
         UNCHANGED <<made, sent>>
  PROVE  /\ ReqOK(Steps)' /\ Others(p)
         /\ req'[p].at \notin {"sync.check", "sync.write"}
         /\ job' \in [Slots -> [docket : 0 .. MaxDockets, left : SUBSET Units]]
         /\ JobsOf(p) /\ JobFine(p)'
<1>1. ReqOK(Steps)' /\ req'[p] = r /\ Others(p)
  BY BeginReq DEF Inv
<1>2. d \in 0 .. MaxDockets
  BY MaxDocketsAssumption DEF Inv, DocketOK
<1>3. /\ job' \in [Slots -> [docket : 0 .. MaxDockets, left : SUBSET Units]]
      /\ job'[p].docket = d /\ JobsOf(p)
  BY <1>2 DEF Inv, DocketOK, On, JobsOf
<1>4. JobFine(p)'
  BY <1>1, <1>3 DEF JobFine
<1>5. QED BY <1>1, <1>3, <1>4 DEF DocketSteps, Buttons

LEMMA StepNamed ==
  ASSUME NEW step \in Steps
  PROVE  /\ [NoRequest EXCEPT !.at = step] \in Requests(Steps)
         /\ [NoRequest EXCEPT !.at = step].at = step
<1>1. NoRequest \in Requests(Steps)
  BY NoRequestTyped DEF Steps
<1>2. QED BY <1>1 DEF Requests

\* A unit taken off the job's list.
LEMMA OneLess ==
  ASSUME Inv, NEW p \in Slots, NEW u, job' = [job EXCEPT ![p].left = @ \ {u}]
  PROVE  /\ job' \in [Slots -> [docket : 0 .. MaxDockets, left : SUBSET Units]]
         /\ job'[p].docket = job[p].docket /\ job'[p].left \subseteq job[p].left
         /\ JobsOf(p)
  BY DEF Inv, DocketOK, JobsOf

-----------------------------------------------------------------------------
(* The steps, one by one.                                                   *)

LEMMA ItemSteps ==
  ASSUME Inv, NEW p \in Slots,
         \/ CreateDocket(p)
         \/ \E d \in DocketIds, u \in Units : AddItem(p, d, u) \/ RemoveItem(p, d, u)
         \/ AddUnit(p) \/ AddInsert(p) \/ RemoveDelete(p)
  PROVE  Inv' /\ [Ledger!Next]_ledgerVars
<1>0. /\ req[p].unit \in Units /\ 1 .. made \subseteq DocketIds
      /\ sent \subseteq 1 .. made /\ JobFine(p)
  BY JobTyped DEF Inv, DocketOK
<1>1. CASE CreateDocket(p)
  <2>1. made' \in 0 .. MaxDockets /\ 1 .. made \subseteq 1 .. made'
    BY <1>1, MaxDocketsAssumption DEF CreateDocket, InsertDocket, Inv, DocketOK
  <2>2. /\ UNCHANGED <<column, mover, granted, req, status, sent, received, items,
                       custody, events, job>>
    BY <1>1 DEF CreateDocket, InsertDocket, boardVars, logVars
  <2>3. DocketOK'
    BY <2>1, <2>2 DEF Inv, DocketOK
  <2>4. \A q \in Slots : JobFine(q)'
    BY <2>1, <2>2 DEF Inv, JobFine
  <2>5. QED BY <2>2, <2>3, <2>4
            DEF Inv, BoardOK, ReqOK, SyncOK, SyncGranted, ShippedOK, Shipped,
                DraftIffUnsent, ledgerVars
<1>2. ASSUME NEW d \in DocketIds, NEW u \in Units, AddItem(p, d, u)
      PROVE  Inv' /\ [Ledger!Next]_ledgerVars
  <2>1. d \in 1 .. made
    BY <1>2 DEF AddItem, Draft, DocketIds, Inv, DocketOK
  <2>2. Serving(u, "add.unit") \in Requests(Steps) /\ Serving(u, "add.unit").at = "add.unit"
    BY ServingTyped DEF Steps, DocketSteps
  <2>3. UNCHANGED <<ledgerVars, docketVars, logVars>>
    BY <1>2 DEF AddItem, Draft, Draft
  <2>4. Inv'
    BY <1>2, <2>1, <2>2, <2>3, OpenStep, QuietStep
    DEF AddItem, Draft, DocketSteps, docketVars, logVars, Inv, DocketOK
  <2>5. QED BY <2>3, <2>4
<1>3. ASSUME NEW d \in DocketIds, NEW u \in Units, RemoveItem(p, d, u)
      PROVE  Inv' /\ [Ledger!Next]_ledgerVars
  <2>1. d \in 1 .. made
    BY <1>3 DEF RemoveItem, Draft, Inv, DocketOK
  <2>2. /\ Serving(u, "remove.delete") \in Requests(Steps)
        /\ Serving(u, "remove.delete").at = "remove.delete"
    BY ServingTyped DEF Steps, DocketSteps
  <2>3. UNCHANGED <<ledgerVars, docketVars, logVars>>
    BY <1>3 DEF RemoveItem, Draft, Draft
  <2>4. Inv'
    BY <1>3, <2>1, <2>2, <2>3, OpenStep, QuietStep
    DEF RemoveItem, Draft, DocketSteps, docketVars, logVars, Inv, DocketOK
  <2>5. QED BY <2>3, <2>4
<1>4. CASE AddUnit(p)
  <2>1. UNCHANGED <<ledgerVars, docketVars, logVars>>
    BY <1>4 DEF AddUnit
  <2>2. CASE column[req[p].unit] = "shipment"
    <3>1. ReqOK(Steps)' /\ req'[p].at = "add.insert" /\ Others(p) /\ UNCHANGED job
      BY <1>4, <2>2, GotoReq DEF AddUnit, Steps, DocketSteps, Inv
    <3>2. JobFine(p)'
      BY <1>0, <1>4, <2>1, <3>1 DEF JobFine, AddUnit, DocketSteps, docketVars
    <3>3. QED BY <2>1, <3>1, <3>2, QuietStep
              DEF docketVars, logVars, Inv, DocketOK, JobsOf
  <2>3. CASE column[req[p].unit] # "shipment"
    BY <1>4, <2>1, <2>3, DoneStep, QuietStep DEF AddUnit, logVars, Inv, DocketOK
  <2>4. QED BY <2>1, <2>2, <2>3
<1>5. CASE AddInsert(p)
  <2> DEFINE us == {u \in Units : Shipped(u, items', received)}
  <2>1. job[p].docket \in 1 .. made /\ job[p].docket \in DocketIds
    BY <1>0, <1>5 DEF AddInsert, JobFine, DocketSteps
  <2>2. UNCHANGED <<column, mover, made, status, sent, received, logVars>>
    BY <1>5 DEF AddInsert
  <2>3. DocketOK'
    BY <1>0, <1>5, <2>1, <2>2, DoneStep DEF AddInsert, Inv, DocketOK, logVars
  <2>4. Ledger!Grant(us, "shipment")
    BY <1>5 DEF AddInsert, GrantShipped, Ledger!Grant
  <2>5. /\ BoardOK' /\ ShippedOK'
        /\ \A u \in Units : granted[u] \subseteq granted'[u]
    BY <1>5, <2>2 DEF AddInsert, GrantShipped, Inv, BoardOK, ShippedOK, Shipped, Columns
  <2>6. Inv'
    BY <1>5, <2>2, <2>3, <2>5, DoneStep, SlotStep DEF AddInsert, Inv, DraftIffUnsent
  <2>7. QED BY <2>4, <2>6, SameColumns DEF Ledger!Next, Columns
<1>6. CASE RemoveDelete(p)
  <2>1. job[p].docket \in DocketIds
    BY <1>0, <1>6 DEF RemoveDelete, JobFine, DocketSteps
  <2>2. UNCHANGED <<ledgerVars, made, status, sent, received, logVars>>
    BY <1>6 DEF RemoveDelete
  <2>3. DocketOK' /\ \A d \in DocketIds : items'[d] \subseteq items[d]
    BY <1>6, <2>1, <2>2, DoneStep DEF RemoveDelete, Inv, DocketOK, logVars
  <2>4. BoardOK'
    BY <2>2 DEF Inv, BoardOK, ledgerVars
  <2>5. \A d \in sent \cap received : d \in DocketIds /\ items'[d] \subseteq items[d]
    BY <2>3, JobTyped
  <2>6. ShippedOK'
    BY <2>2, <2>5 DEF Inv, ShippedOK, Shipped, ledgerVars
  <2>7. Inv'
    BY <1>6, <2>2, <2>3, <2>4, <2>6, DoneStep, SlotStep
    DEF RemoveDelete, Inv, DraftIffUnsent, ledgerVars
  <2>8. QED BY <2>2, <2>7
<1>7. QED BY <1>1, <1>2, <1>3, <1>4, <1>5, <1>6

LEMMA DispatchSteps ==
  ASSUME Inv, NEW p \in Slots,
         \/ \E d \in DocketIds : DispatchOpen(p, d)
         \/ DispatchWrite(p) \/ DispatchList(p)
         \/ \E u \in Units : DispatchCustody(p, u)
         \/ DispatchEvent(p) \/ TrackEvent(p)
         \/ \E d \in DocketIds, s \in Buttons : AddTrackingEvent(p, d, s)
  PROVE  Inv' /\ UNCHANGED ledgerVars
<1>0. /\ req[p].unit \in Units /\ 1 .. made \subseteq DocketIds
      /\ sent \subseteq 1 .. made /\ JobFine(p)
  BY JobTyped DEF Inv, DocketOK
<1>1. ASSUME NEW d \in DocketIds, DispatchOpen(p, d)
      PROVE  Inv' /\ UNCHANGED ledgerVars
  <2>1. d \in 1 .. made /\ UNCHANGED <<ledgerVars, docketVars, logVars>>
    BY <1>1 DEF DispatchOpen, Dispatch, Open, DocketIds, Inv, DocketOK
  <2>2. [NoRequest EXCEPT !.at = "dispatch.write"] \in Requests(Steps)
        /\ [NoRequest EXCEPT !.at = "dispatch.write"].at = "dispatch.write"
    BY StepNamed DEF Steps, DocketSteps
  <2>3. QED BY <1>1, <2>1, <2>2, OpenStep, QuietStep
            DEF DispatchOpen, Dispatch, Open, DocketSteps, docketVars, logVars, Inv, DocketOK
<1>2. CASE DispatchWrite(p)
  <2>1. job[p].docket \in 1 .. made /\ job[p].docket \in DocketIds
    BY <1>0, <1>2 DEF DispatchWrite, JobFine, DocketSteps
  <2>2. UNCHANGED <<ledgerVars, made, received, items, logVars, job>>
    BY <1>2 DEF DispatchWrite
  <2>3. DocketOK' /\ sent \subseteq sent'
    BY <1>0, <1>2, <2>1, <2>2 DEF DispatchWrite, Inv, DocketOK, logVars, Statuses
  <2>4. BoardOK' /\ ShippedOK'
    BY <1>2, <2>2 DEF DispatchWrite, Inv, DocketOK, BoardOK, ShippedOK, Shipped, ledgerVars
  <2>5. DraftIffUnsent'
    BY <1>2, <2>1 DEF DispatchWrite, Inv, DocketOK, DraftIffUnsent
  <2>6. ReqOK(Steps)' /\ Others(p) /\ req'[p].at = "dispatch.list"
    BY <1>2, GotoReq DEF DispatchWrite, Steps, DocketSteps, Inv
  <2>7. JobFine(p)'
    BY <2>1, <2>2, <2>6 DEF JobFine
  <2>8. QED BY <2>2, <2>3, <2>4, <2>5, <2>6, <2>7, SlotStep DEF JobsOf, ledgerVars
<1>3. CASE DispatchList(p)
  <2>1. job[p].docket \in 1 .. made /\ job[p].docket \in DocketIds
    BY <1>0, <1>3 DEF DispatchList, List, JobFine, DocketSteps
  <2>2. UNCHANGED <<ledgerVars, docketVars, logVars>>
    BY <1>3 DEF DispatchList, List
  <2>3. /\ ReqOK(Steps)' /\ Others(p)
        /\ req'[p].at \in {"dispatch.custody", "dispatch.event"}
    BY <1>3, GotoReq DEF DispatchList, List, Steps, DocketSteps, Inv
  <2>4. /\ job' \in [Slots -> [docket : 0 .. MaxDockets, left : SUBSET Units]]
        /\ job'[p].docket = job[p].docket /\ JobsOf(p)
    BY <1>3, <2>1 DEF DispatchList, List, Inv, DocketOK, JobsOf
  <2>5. JobFine(p)'
    BY <2>1, <2>2, <2>3, <2>4 DEF JobFine, docketVars
  <2>6. QED BY <2>2, <2>3, <2>4, <2>5, QuietStep DEF logVars, Inv, DocketOK
<1>4. ASSUME NEW u \in Units, DispatchCustody(p, u)
      PROVE  Inv' /\ UNCHANGED ledgerVars
  <2>1. job[p].docket \in 1 .. made /\ job[p].docket \in DocketIds
    BY <1>0, <1>4 DEF DispatchCustody, JobFine, DocketSteps
  <2>2. UNCHANGED <<ledgerVars, docketVars, events>>
    BY <1>4 DEF DispatchCustody
  <2>3. /\ ReqOK(Steps)' /\ Others(p)
        /\ req'[p].at \in {"dispatch.custody", "dispatch.event"}
    BY <1>4, GotoReq DEF DispatchCustody, Steps, DocketSteps, Inv
  <2>4. /\ job' \in [Slots -> [docket : 0 .. MaxDockets, left : SUBSET Units]]
        /\ job'[p].docket = job[p].docket /\ JobsOf(p)
    BY <1>4, OneLess DEF DispatchCustody
  <2>5. custody' \subseteq Units \X DocketIds \X {"checked_out", "checked_in"}
    BY <1>4, <2>1 DEF DispatchCustody, LogStoreCustody, Inv, DocketOK
  <2>6. JobFine(p)'
    BY <2>1, <2>2, <2>3, <2>4 DEF JobFine, docketVars
  <2>7. QED BY <2>2, <2>3, <2>4, <2>5, <2>6, QuietStep DEF Inv, DocketOK
<1>5. ASSUME NEW s \in Statuses, NEW here \in DocketSteps, RecordTrackingEvent(p, here, s)
      PROVE  Inv' /\ UNCHANGED ledgerVars
  <2>1. job[p].docket \in DocketIds
    BY <1>0, <1>5 DEF RecordTrackingEvent, JobFine
  <2>2. events' \subseteq DocketIds \X Statuses
    BY <1>5, <2>1 DEF RecordTrackingEvent, Inv, DocketOK
  <2>3. UNCHANGED <<ledgerVars, docketVars, custody>> /\ Done(p)
    BY <1>5 DEF RecordTrackingEvent
  <2>4. QED BY <2>2, <2>3, DoneStep, QuietStep DEF Inv, DocketOK
<1>6. ASSUME NEW d \in DocketIds, NEW s \in Buttons, AddTrackingEvent(p, d, s)
      PROVE  Inv' /\ UNCHANGED ledgerVars
  <2>1. d \in 1 .. made /\ d \in sent
    BY <1>0, <1>6 DEF AddTrackingEvent, UpdateStatus
  <2>2. [NoRequest EXCEPT !.at = s] \in Requests(Steps)
        /\ [NoRequest EXCEPT !.at = s].at = s
    BY StepNamed DEF Steps, DocketSteps
  <2>3. UNCHANGED <<ledgerVars, made, sent, received, items, logVars>>
    BY <1>6 DEF AddTrackingEvent, UpdateStatus
  <2>4. /\ ReqOK(Steps)' /\ Others(p)
        /\ req'[p].at \notin {"sync.check", "sync.write"}
        /\ job' \in [Slots -> [docket : 0 .. MaxDockets, left : SUBSET Units]]
        /\ JobsOf(p) /\ JobFine(p)'
    BY <1>6, <2>1, <2>2, <2>3, OpenStep DEF AddTrackingEvent, UpdateStatus, DocketSteps, Buttons
  <2>5. DocketOK' /\ DraftIffUnsent'
    BY <1>6, <2>1, <2>3, <2>4
    DEF AddTrackingEvent, UpdateStatus, Inv, DocketOK, DraftIffUnsent, Buttons,
        Statuses, logVars
  <2>6. BoardOK' /\ ShippedOK'
    BY <2>3 DEF Inv, BoardOK, ShippedOK, Shipped, ledgerVars
  <2>7. QED BY <2>3, <2>4, <2>5, <2>6, SlotStep DEF ledgerVars
<1>7. QED
  BY <1>1, <1>2, <1>3, <1>4, <1>5, <1>6
  DEF DispatchEvent, TrackEvent, Buttons, Statuses, DocketSteps

LEMMA ReceiptSteps ==
  ASSUME Inv, NEW p \in Slots,
         \/ \E d \in DocketIds : ReceiveOpen(p, d)
         \/ ReceiveWrite(p) \/ ReceiveList(p)
         \/ \E u \in Units : ReceiveCustody(p, u)
         \/ ReceiveAdvance(p) \/ ReceiveEvent(p)
  PROVE  Inv' /\ [Ledger!Next]_ledgerVars
<1>0. /\ req[p].unit \in Units /\ 1 .. made \subseteq DocketIds
      /\ sent \subseteq 1 .. made /\ JobFine(p)
  BY JobTyped DEF Inv, DocketOK
<1>1. ASSUME NEW d \in DocketIds, ReceiveOpen(p, d)
      PROVE  Inv' /\ [Ledger!Next]_ledgerVars
  <2>1. d \in 1 .. made /\ d \in sent /\ UNCHANGED <<ledgerVars, docketVars, logVars>>
    BY <1>0, <1>1 DEF ReceiveOpen, Receive, Open
  <2>2. [NoRequest EXCEPT !.at = "receive.write"] \in Requests(Steps)
        /\ [NoRequest EXCEPT !.at = "receive.write"].at = "receive.write"
    BY StepNamed DEF Steps, DocketSteps
  <2>3. QED BY <1>1, <2>1, <2>2, OpenStep, QuietStep
            DEF ReceiveOpen, Receive, Open, DocketSteps, docketVars, logVars, Inv, DocketOK
<1>2. CASE ReceiveWrite(p)
  <2> DEFINE us == {u \in Units : Shipped(u, items, received')}
  <2>1. job[p].docket \in 1 .. made /\ job[p].docket \in DocketIds
        /\ job[p].docket \in sent
    BY <1>0, <1>2 DEF ReceiveWrite, JobFine, DocketSteps
  <2>2. UNCHANGED <<column, mover, made, sent, items, logVars, job>>
    BY <1>2 DEF ReceiveWrite
  <2>3. DocketOK' /\ received \subseteq received' /\ job[p].docket \in received'
    BY <1>2, <2>1, <2>2 DEF ReceiveWrite, Inv, DocketOK, logVars, Statuses
  <2>4. Ledger!Grant(us, "shipment")
    BY <1>2 DEF ReceiveWrite, GrantShipped, Ledger!Grant
  <2>5. /\ BoardOK' /\ ShippedOK'
        /\ \A u \in Units : granted[u] \subseteq granted'[u]
    BY <1>2, <2>2 DEF ReceiveWrite, GrantShipped, Inv, BoardOK, ShippedOK, Shipped, Columns
  <2>6. DraftIffUnsent'
    BY <1>2, <2>1, <2>2 DEF ReceiveWrite, Inv, DocketOK, DraftIffUnsent
  <2>7. ReqOK(Steps)' /\ Others(p) /\ req'[p].at = "receive.list"
    BY <1>2, GotoReq DEF ReceiveWrite, Steps, DocketSteps, Inv
  <2>8. JobFine(p)'
    BY <2>1, <2>2, <2>3, <2>7 DEF JobFine
  <2>9. Inv'
    BY <2>2, <2>3, <2>5, <2>6, <2>7, <2>8, SlotStep DEF JobsOf
  <2>10. QED BY <2>4, <2>9, SameColumns DEF Ledger!Next, Columns
<1>3. CASE ReceiveList(p)
  <2>1. job[p].docket \in 1 .. made /\ job[p].docket \in DocketIds
        /\ job[p].docket \in sent \cap received
    BY <1>0, <1>3 DEF ReceiveList, List, JobFine, DocketSteps
  <2>2. UNCHANGED <<ledgerVars, docketVars, logVars>>
    BY <1>3 DEF ReceiveList, List
  <2>3. /\ ReqOK(Steps)' /\ Others(p)
        /\ req'[p].at \in {"receive.custody", "receive.event"}
    BY <1>3, GotoReq DEF ReceiveList, List, Steps, DocketSteps, Inv
  <2>4. /\ job' \in [Slots -> [docket : 0 .. MaxDockets, left : SUBSET Units]]
        /\ job'[p].docket = job[p].docket /\ job'[p].left = items[job[p].docket]
        /\ JobsOf(p)
    BY <1>3, <2>1 DEF ReceiveList, List, Inv, DocketOK, JobsOf
  <2>5. \A u \in items[job[p].docket] : "shipment" \in granted[u]
    BY <2>1 DEF Inv, DocketOK, ShippedOK, Shipped
  <2>6. JobFine(p)'
    BY <2>1, <2>2, <2>3, <2>4, <2>5 DEF JobFine, ledgerVars, docketVars
  <2>7. QED BY <2>2, <2>3, <2>4, <2>6, QuietStep DEF logVars, Inv, DocketOK
<1>4. ASSUME NEW u \in Units, ReceiveCustody(p, u)
      PROVE  Inv' /\ [Ledger!Next]_ledgerVars
  <2>1. /\ job[p].docket \in 1 .. made /\ job[p].docket \in DocketIds
        /\ u \in job[p].left /\ \A v \in job[p].left : "shipment" \in granted[v]
    BY <1>0, <1>4 DEF ReceiveCustody, JobFine, DocketSteps
  <2>2. UNCHANGED <<ledgerVars, docketVars, events, job>>
    BY <1>4 DEF ReceiveCustody
  <2>3. /\ ReqOK(Steps)' /\ Others(p)
        /\ req'[p].at = "receive.advance" /\ req'[p].unit = u
    BY <1>4 DEF ReceiveCustody, Steps, DocketSteps, Inv, ReqOK, Requests, Others
  <2>4. custody' \subseteq Units \X DocketIds \X {"checked_out", "checked_in"}
    BY <1>4, <2>1 DEF ReceiveCustody, LogStoreCustody, Inv, DocketOK
  <2>5. JobFine(p)'
    BY <2>1, <2>2, <2>3 DEF JobFine, ledgerVars, docketVars
  <2>6. QED BY <2>2, <2>3, <2>4, <2>5, QuietStep DEF Inv, DocketOK, JobsOf
<1>5. CASE ReceiveAdvance(p)
  <2>1. /\ job[p].docket \in 1 .. made /\ "shipment" \in granted[req[p].unit]
        /\ \A v \in job[p].left : "shipment" \in granted[v]
    BY <1>0, <1>5 DEF ReceiveAdvance, JobFine, DocketSteps
  <2>2. /\ UNCHANGED <<granted, docketVars, logVars>>
        /\ AdvanceBoardColumn(req[p].unit, Following["shipment"], "signoff")
    BY <1>5 DEF ReceiveAdvance, Following
  <2>3. /\ ReqOK(Steps)' /\ Others(p)
        /\ req'[p].at \in {"receive.custody", "receive.event"}
    BY <1>5, GotoReq DEF ReceiveAdvance, Steps, DocketSteps, Inv
  <2>4. /\ job' \in [Slots -> [docket : 0 .. MaxDockets, left : SUBSET Units]]
        /\ job'[p].docket = job[p].docket /\ job'[p].left \subseteq job[p].left
        /\ JobsOf(p)
    BY <1>5, OneLess DEF ReceiveAdvance
  <2>5. JobFine(p)'
    BY <2>1, <2>2, <2>3, <2>4 DEF JobFine, docketVars
  <2>6. BoardOK'
    BY <1>0, <2>2, AdvanceTyped DEF Inv, Ledger!Movers, Columns, Following
  <2>7. DocketOK' /\ ShippedOK' /\ DraftIffUnsent'
    BY <2>2, <2>4
    DEF Inv, DocketOK, ShippedOK, Shipped, DraftIffUnsent, docketVars, logVars
  <2>8. Inv'
    BY <2>2, <2>3, <2>4, <2>5, <2>6, <2>7, SlotStep DEF docketVars
  <2>9. Ledger!Next
    BY <1>0, <2>1, <2>2, EnterLedger DEF Columns
  <2>10. QED BY <2>8, <2>9
<1>6. CASE ReceiveEvent(p)
  <2>1. job[p].docket \in DocketIds
    BY <1>0, <1>6 DEF ReceiveEvent, RecordTrackingEvent, JobFine, DocketSteps
  <2>2. events' \subseteq DocketIds \X Statuses
    BY <1>6, <2>1 DEF ReceiveEvent, RecordTrackingEvent, Inv, DocketOK, Statuses
  <2>3. UNCHANGED <<ledgerVars, docketVars, custody>> /\ Done(p)
    BY <1>6 DEF ReceiveEvent, RecordTrackingEvent
  <2>4. QED BY <2>2, <2>3, DoneStep, QuietStep DEF Inv, DocketOK
<1>7. QED BY <1>1, <1>2, <1>3, <1>4, <1>5, <1>6

BoardRequest(p) ==
  \/ \E u \in Units, c \in MoveTargets, reset \in BOOLEAN :
       DocketMoveRead(p, u, c, reset)
  \/ DocketMoveWrite(p) \/ DocketMoveReset(p)
  \/ \E u \in Units : DocketSyncRead(p, u)
  \/ DocketSyncCheck(p) \/ DocketSyncWrite(p) \/ AbortRequest(p)

\* A readiness query that says yes says it of what was granted.
LEMMA BoardRequestKept ==
  ASSUME Inv, NEW p \in Slots, BoardRequest(p)
  PROVE  /\ BoardKept(Steps, p) /\ UNCHANGED <<docketVars, logVars>>
         /\ job' \in [Slots -> [docket : 0 .. MaxDockets, left : SUBSET Units]]
         /\ JobsOf(p)
<1>0. /\ req[p].unit \in Units /\ BoardSteps \cup {"idle"} \subseteq Steps
  BY JobTyped DEF Steps
<1>1. CASE AbortRequest(p)
  <2>1. BoardKept(Steps, p)
    BY <1>1, AbortStep DEF Inv, AbortRequest, Steps
  <2>2. /\ job' \in [Slots -> [docket : 0 .. MaxDockets, left : SUBSET Units]]
        /\ JobsOf(p) /\ UNCHANGED <<docketVars, logVars>>
    BY <1>1, MaxDocketsAssumption DEF AbortRequest, Inv, DocketOK, NoJob, JobsOf
  <2>3. QED BY <2>1, <2>2
<1>2. CASE ~AbortRequest(p)
  <2>1. BoardKept(Steps, p)
    <3>1. CASE DocketSyncCheck(p)
      <4>1. PICK ready \in BOOLEAN : /\ MayAnswer(req[p].unit, req[p].col, ready)
                                     /\ SyncCheck(p, ready)
        BY <3>1 DEF DocketSyncCheck
      <4>2. ready => req[p].col \in granted[req[p].unit]
        BY <1>0, <4>1 DEF MayAnswer, ReadyToLeave, Inv, ShippedOK, Shipped
      <4>3. QED BY <1>0, <3>1, <4>1, <4>2, SyncSteps DEF Inv, DocketSyncCheck
    <3>2. CASE (\E u \in Units : DocketSyncRead(p, u)) \/ DocketSyncWrite(p)
      BY <1>0, <3>2, SyncSteps DEF Inv, DocketSyncRead, DocketSyncWrite
    <3>3. CASE \/ \E u \in Units, c \in MoveTargets, reset \in BOOLEAN :
                    DocketMoveRead(p, u, c, reset)
               \/ DocketMoveWrite(p) \/ DocketMoveReset(p)
      BY <1>0, <3>3, MoveSteps
      DEF Inv, DocketMoveRead, DocketMoveWrite, DocketMoveReset
    <3>4. QED BY <1>2, <3>1, <3>2, <3>3 DEF BoardRequest
  <2>2. UNCHANGED <<docketVars, logVars, job>>
    BY <1>2 DEF BoardRequest, DocketMoveRead, DocketMoveWrite, DocketMoveReset,
                DocketSyncRead, DocketSyncCheck, DocketSyncWrite
  <2>3. QED BY <2>1, <2>2 DEF Inv, DocketOK, JobsOf
<1>3. QED BY <1>1, <1>2

LEMMA BoardRequests ==
  ASSUME Inv, NEW p \in Slots, BoardRequest(p)
  PROVE  Inv' /\ [Ledger!Next]_ledgerVars
<1>1. /\ BoardKept(Steps, p) /\ UNCHANGED <<docketVars, logVars>>
      /\ job' \in [Slots -> [docket : 0 .. MaxDockets, left : SUBSET Units]]
      /\ JobsOf(p)
  BY BoardRequestKept
<1>2. JobFine(p)'
  BY <1>1 DEF BoardKept, JobFine, BoardSteps, DocketSteps, Buttons
<1>3. DocketOK' /\ ShippedOK' /\ DraftIffUnsent'
  BY <1>1
  DEF BoardKept, Inv, DocketOK, ShippedOK, Shipped, DraftIffUnsent, docketVars, logVars
<1>4. ASSUME NEW q \in Slots \ {p}
      PROVE  JobFine(q)'
  <2>1. /\ JobFine(q) /\ req'[q] = req[q] /\ job'[q] = job[q]
        /\ UNCHANGED <<granted, docketVars>>
    BY <1>1 DEF BoardKept, Inv, Others, JobsOf
  <2>2. QED BY <2>1 DEF JobFine, docketVars
<1>5. QED BY <1>1, <1>2, <1>3, <1>4 DEF BoardKept, Inv

LEMMA NextInv ==
  ASSUME Inv, [Next]_vars
  PROVE  Inv' /\ [Ledger!Next]_ledgerVars
<1>1. ASSUME NEW p \in Slots, Start(p) \/ Continue(p) \/ AbortRequest(p)
      PROVE  Inv' /\ [Ledger!Next]_ledgerVars
  BY <1>1, ItemSteps, DispatchSteps, ReceiptSteps, BoardRequests
  DEF Start, Continue, BoardRequest
<1>2. CASE UNCHANGED vars
  BY <1>2
  DEF vars, boardVars, ledgerVars, docketVars, logVars, Inv, BoardOK, ReqOK, SyncOK,
      SyncGranted, DocketOK, ShippedOK, Shipped, DraftIffUnsent, JobFine
<1>3. QED BY <1>1, <1>2 DEF Next

LEMMA Invariance == Spec => []Inv
<1>1. Inv /\ [Next]_vars => Inv'
  BY NextInv
<1>2. QED BY InitInv, <1>1, PTL DEF Spec

-----------------------------------------------------------------------------
\* Every variable keeps its type; a docket is received only after it has been
\* dispatched, and dispatched only after it has been created.
THEOREM TypeCorrect == Spec => []TypeOK
  BY Invariance, InvTyped, PTL

\* A docket is a draft exactly as long as it has not been dispatched.
THEOREM DraftsUnsent == Spec => []DraftIffUnsent
<1>1. Inv => DraftIffUnsent
  BY DEF Inv
<1>2. QED BY <1>1, Invariance, PTL

LEMMA LedgerInit == Init => Ledger!Init
<1> SUFFICES ASSUME Init PROVE Ledger!Init
  OBVIOUS
<1>1. "configuration" \in Preceding("shipment") /\ "shipment" \in Columns
  BY DEF Preceding, Columns, Following
<1>2. \A u \in Units : Ledger!Backed(u)
  BY <1>1, SameColumns DEF Init, Ledger!Backed, Columns
<1>3. BoardOK
  BY InitInv DEF Inv
<1>4. QED BY <1>2, <1>3, SameColumns DEF Ledger!Init, Ledger!AdvanceBacked, BoardOK

\* The docket handlers, interleaved with each other and with the board's
\* requests and cut short anywhere, implement the board's promise.
THEOREM LedgerImplemented == Spec => ImplementsLedger
<1>1. Inv /\ [Next]_vars => [Ledger!Next]_(Ledger!ledgerVars)
  BY NextInv DEF ledgerVars, Ledger!ledgerVars
<1>2. QED BY LedgerInit, <1>1, Invariance, PTL DEF Spec, Ledger!Spec, ImplementsLedger

\* A unit is in Installation because its docket was dispatched and received,
\* or because an administrator put it there.
THEOREM AlwaysBacked == Spec => []AdvanceBacked
<1>1. Init => Ledger!AdvanceBacked
  BY LedgerInit DEF Ledger!Init
<1>2. Inv /\ Ledger!AdvanceBacked /\ [Next]_vars => Ledger!AdvanceBacked'
  BY NextInv, BackedStep DEF Inv
<1>3. QED BY <1>1, <1>2, Invariance, PTL DEF Spec, AdvanceBacked

-----------------------------------------------------------------------------
(* What holds as long as a docket is not dispatched while a unit is being    *)
(* added to it.  Everything else may overlap: two dispatches of one docket,  *)
(* a dispatch and a receipt, what is done to different dockets, the board's  *)
(* requests.                                                                *)

Same(p, q) == p # q /\ job[p].docket = job[q].docket /\ job[p].docket # 0

\* A docket is not about to be dispatched while a unit is being added to it.
AddsApart ==
  \A p, q \in Slots :
    req[p].at = "dispatch.write" /\ Same(p, q) => req[q].at \notin {"add.unit", "add.insert"}

\* Custody of the units in a set was logged for docket d.
AllOut(d, us) == \A u \in us : <<u, d, "checked_out">> \in custody
AllIn(d, us) == \A u \in us : <<u, d, "checked_in">> \in custody

\* What a request knows of its docket when it goes on: the docket it adds to
\* has not left the store, the one it handles has, and the units that are off
\* its list have been handled.
Handling(p) ==
  /\ req[p].at \in {"add.unit", "add.insert"} => job[p].docket \notin sent
  /\ req[p].at \in {"dispatch.list", "dispatch.custody", "dispatch.event",
                    "receive.write", "receive.list", "receive.custody",
                    "receive.advance", "receive.event"} =>
       job[p].docket \in sent
  /\ req[p].at = "dispatch.custody" =>
       AllOut(job[p].docket, items[job[p].docket] \ job[p].left)
  /\ req[p].at = "dispatch.event" => AllOut(job[p].docket, items[job[p].docket])
  /\ req[p].at \in {"receive.custody", "receive.advance"} =>
       AllIn(job[p].docket, items[job[p].docket] \ job[p].left)
  /\ req[p].at = "receive.advance" => AllIn(job[p].docket, {req[p].unit})
  /\ req[p].at = "receive.event" => AllIn(job[p].docket, items[job[p].docket])

\* What the tracking history says of a docket is so, and the docket is away.
Tracked(d) ==
  /\ <<d, "dispatched">> \in events => d \in sent /\ AllOut(d, items[d])
  /\ <<d, "delivered">> \in events => d \in sent /\ AllIn(d, items[d])

HandlingInv ==
  /\ \A p \in Slots : Handling(p)
  /\ \A d \in DocketIds : Tracked(d)

LEMMA HandlingInit == Init => HandlingInv
<1> SUFFICES ASSUME Init PROVE HandlingInv
  OBVIOUS
<1>1. \A p \in Slots : req[p].at = "idle"
  BY DEF Init, NoRequest
<1>2. QED BY <1>1 DEF HandlingInv, Handling, Tracked, Init

\* A step of slot p after which what left the store earlier carries no unit it
\* did not carry, and nothing leaves the store but by a dispatch.
LEMMA DocketFrame ==
  ASSUME Inv, HandlingInv, AddsApart, NEW p \in Slots, NEW e, e = job[p].docket,
         Others(p), JobsOf(p),
         sent \subseteq sent',
         \A d \in DocketIds :
           d \in sent' => d \in sent \/ (d = e /\ req[p].at = "dispatch.write"),
         \A d \in sent : items'[d] \subseteq items[d],
         custody \subseteq custody',
         \A d \in DocketIds :
           /\ <<d, "dispatched">> \in events' =>
                <<d, "dispatched">> \in events \/ (d \in sent /\ AllOut(d, items[d]))
           /\ <<d, "delivered">> \in events' =>
                <<d, "delivered">> \in events \/ (d \in sent /\ AllIn(d, items[d])),
         Handling(p)'
  PROVE  HandlingInv'
<1>1. ASSUME NEW q \in Slots \ {p} PROVE Handling(q)'
  <2>1. /\ Handling(q) /\ req'[q] = req[q] /\ job'[q] = job[q]
    BY DEF HandlingInv, Others, JobsOf
  <2>2. CASE req[q].at \in {"add.unit", "add.insert"}
    <3>1. job[q].docket \in DocketIds /\ job[q].docket # 0
      BY <2>2, JobTyped DEF Inv, JobFine, DocketSteps, DocketIds
    <3>2. ~(job[q].docket = e /\ req[p].at = "dispatch.write")
      BY <2>2, <3>1 DEF AddsApart, Same
    <3>3. QED BY <2>1, <2>2, <3>1, <3>2 DEF Handling
  <2>3. CASE req[q].at \notin {"add.unit", "add.insert"}
    BY <2>1, <2>3 DEF Handling, AllOut, AllIn
  <2>4. QED BY <2>2, <2>3
<1>2. ASSUME NEW d \in DocketIds PROVE Tracked(d)'
  <2>1. Tracked(d)
    BY DEF HandlingInv
  <2>2. QED BY <2>1 DEF Tracked, AllOut, AllIn
<1>3. QED BY <1>1, <1>2 DEF HandlingInv

\* The steps that leave the dockets and the logs alone.
LEMMA HandlingQuiet ==
  ASSUME Inv, HandlingInv, AddsApart, NEW p \in Slots, Others(p), JobsOf(p),
         UNCHANGED <<docketVars, logVars>>, Handling(p)'
  PROVE  HandlingInv'
<1>1. items' = items /\ sent' = sent /\ custody' = custody /\ events' = events
  BY DEF docketVars, logVars
<1>2. QED BY <1>1, DocketFrame

LEMMA HandlingBoard ==
  ASSUME Inv, HandlingInv, AddsApart, NEW p \in Slots, BoardRequest(p)
  PROVE  HandlingInv'
<1>1. BoardKept(Steps, p) /\ UNCHANGED <<docketVars, logVars>> /\ JobsOf(p)
  BY BoardRequestKept
<1>2. Handling(p)'
  BY <1>1 DEF BoardKept, BoardSteps, Handling
<1>3. QED BY <1>1, <1>2, HandlingQuiet DEF BoardKept

LEMMA HandlingItems ==
  ASSUME Inv, HandlingInv, AddsApart, NEW p \in Slots, NEW e, e = job[p].docket,
         \/ CreateDocket(p)
         \/ \E d \in DocketIds, u \in Units : AddItem(p, d, u) \/ RemoveItem(p, d, u)
         \/ AddUnit(p) \/ AddInsert(p) \/ RemoveDelete(p)
  PROVE  HandlingInv'
<1>0. /\ ReqOK(Steps) /\ DocketOK /\ DraftIffUnsent /\ Handling(p)
      /\ sent \subseteq DocketIds
  BY JobTyped DEF Inv, HandlingInv
<1>1. CASE CreateDocket(p)
  <2>1. UNCHANGED <<req, items, sent, custody, events, job>>
    BY <1>1 DEF CreateDocket, InsertDocket, boardVars, logVars
  <2>2. QED BY <2>1 DEF HandlingInv, Handling, Tracked, AllOut, AllIn
<1>2. ASSUME NEW d \in DocketIds, NEW u \in Units, AddItem(p, d, u) \/ RemoveItem(p, d, u)
      PROVE  HandlingInv'
  <2>1. /\ d \notin sent /\ job' = [job EXCEPT ![p] = On(d)]
        /\ UNCHANGED <<docketVars, logVars>>
    BY <1>0, <1>2 DEF AddItem, RemoveItem, Draft, DraftIffUnsent
  <2>2. req'[p].at \in {"add.unit", "remove.delete"} /\ Others(p)
    BY <1>0, <1>2, ServeReq DEF AddItem, RemoveItem, Steps, DocketSteps
  <2>3. job'[p].docket = d /\ JobsOf(p)
    BY <1>0, <2>1 DEF DocketOK, On, JobsOf
  <2>4. Handling(p)'
    BY <2>1, <2>2, <2>3 DEF Handling, docketVars
  <2>5. QED BY <2>1, <2>2, <2>3, <2>4, HandlingQuiet
<1>3. CASE AddUnit(p)
  <2>1. req[p].at = "add.unit" /\ UNCHANGED <<docketVars, logVars>>
    BY <1>3 DEF AddUnit
  <2>2. CASE Goto(p, "add.insert") /\ UNCHANGED job
    <3>1. req'[p].at = "add.insert" /\ Others(p) /\ JobsOf(p)
      BY <1>0, <2>2, GotoReq DEF Steps, DocketSteps, JobsOf
    <3>2. Handling(p)'
      BY <1>0, <2>1, <2>2, <3>1 DEF Handling, docketVars
    <3>3. QED BY <2>1, <3>1, <3>2, HandlingQuiet
  <2>3. CASE Done(p)
    <3>1. Others(p) /\ req'[p].at = "idle" /\ JobsOf(p)
      BY <2>3, DoneStep
    <3>2. QED BY <2>1, <3>1, HandlingQuiet DEF Handling
  <2>4. QED BY <1>3, <2>2, <2>3 DEF AddUnit
<1>4. CASE AddInsert(p) \/ RemoveDelete(p)
  <2>1. /\ req[p].at \in {"add.insert", "remove.delete"} /\ Done(p)
        /\ UNCHANGED <<sent, custody, events>>
    BY <1>4 DEF AddInsert, RemoveDelete, logVars
  <2>2. Others(p) /\ req'[p].at = "idle" /\ JobsOf(p)
    BY <2>1, DoneStep
  <2>3. req[p].at = "add.insert" => e \notin sent
    BY <1>0 DEF Handling
  <2>4. \A d \in sent : items'[d] \subseteq items[d]
    BY <1>0, <1>4, <2>3 DEF AddInsert, RemoveDelete, DocketOK
  <2>5. QED BY <2>1, <2>2, <2>4, DocketFrame DEF Handling
<1>5. QED BY <1>1, <1>2, <1>3, <1>4

\* The list that a dispatch or a receipt goes through is that of its docket.
LEMMA HandlingList ==
  ASSUME Inv, HandlingInv, AddsApart, NEW p \in Slots, NEW e, e = job[p].docket,
         DispatchList(p) \/ ReceiveList(p)
  PROVE  HandlingInv'
<1>0. /\ ReqOK(Steps) /\ DocketOK /\ Handling(p)
  BY DEF Inv, HandlingInv
<1>1. /\ req[p].at \in {"dispatch.list", "receive.list"}
      /\ job' = [job EXCEPT ![p].left = items[e]]
      /\ UNCHANGED <<docketVars, logVars>>
  BY DEF DispatchList, ReceiveList, List
<1>2. /\ Others(p)
      /\ req'[p].at \in {"dispatch.custody", "dispatch.event",
                         "receive.custody", "receive.event"}
      /\ req'[p].at \in {"dispatch.event", "receive.event"} => items[e] = {}
  BY <1>0, GotoReq DEF DispatchList, ReceiveList, List, Steps, DocketSteps
<1>3. job'[p].docket = e /\ job'[p].left = items[e] /\ JobsOf(p)
  BY <1>0, <1>1 DEF DocketOK, JobsOf
<1>4. e \in sent
  BY <1>0, <1>1 DEF Handling
<1>5. Handling(p)'
  BY <1>1, <1>2, <1>3, <1>4 DEF Handling, AllOut, AllIn, docketVars
<1>6. QED BY <1>1, <1>2, <1>3, <1>5, HandlingQuiet

\* An entry in the tracking history is made when the units are handled.
LEMMA HandlingEvent ==
  ASSUME Inv, HandlingInv, AddsApart, NEW p \in Slots, NEW e, e = job[p].docket,
         DispatchEvent(p) \/ ReceiveEvent(p) \/ TrackEvent(p)
  PROVE  HandlingInv'
<1>0. Handling(p)
  BY DEF HandlingInv
<1>1. PICK s :
        /\ \/ s = "dispatched" /\ req[p].at = "dispatch.event"
           \/ s = "delivered" /\ req[p].at = "receive.event"
           \/ s \in Buttons
        /\ events' = events \cup {<<e, s>>}
        /\ Done(p) /\ UNCHANGED <<docketVars, custody>>
  BY DEF DispatchEvent, ReceiveEvent, TrackEvent, RecordTrackingEvent
<1>2. Others(p) /\ req'[p].at = "idle" /\ JobsOf(p)
  BY <1>1, DoneStep
<1>3. /\ s = "dispatched" => e \in sent /\ AllOut(e, items[e])
      /\ s = "delivered" => e \in sent /\ AllIn(e, items[e])
  BY <1>0, <1>1 DEF Handling, Buttons
<1>4. \A d \in DocketIds :
        /\ <<d, "dispatched">> \in events' =>
             <<d, "dispatched">> \in events \/ (d \in sent /\ AllOut(d, items[d]))
        /\ <<d, "delivered">> \in events' =>
             <<d, "delivered">> \in events \/ (d \in sent /\ AllIn(d, items[d]))
  BY <1>1, <1>3
<1>5. Handling(p)'
  BY <1>2 DEF Handling
<1>6. items' = items /\ sent' = sent /\ custody' = custody
  BY <1>1 DEF docketVars
<1>7. QED BY <1>2, <1>4, <1>5, <1>6, DocketFrame

\* Opening a page and pressing its button.
LEMMA OpenedStep ==
  ASSUME NEW p \in Slots, NEW d \in DocketIds,
         \/ DispatchOpen(p, d) \/ ReceiveOpen(p, d)
         \/ \E s \in Buttons : AddTrackingEvent(p, d, s)
  PROVE  \E step \in {"dispatch.write", "receive.write"} \cup Buttons :
           /\ Begin(p, [NoRequest EXCEPT !.at = step]) /\ job' = [job EXCEPT ![p] = On(d)]
           /\ step = "dispatch.write" => d \notin sent /\ UNCHANGED docketVars
           /\ step = "receive.write" => d \in sent
<1>1. CASE DispatchOpen(p, d)
  <2>1. WITNESS "dispatch.write" \in {"dispatch.write", "receive.write"} \cup Buttons
  <2>2. QED BY <1>1 DEF DispatchOpen, Dispatch, Open
<1>2. CASE ReceiveOpen(p, d)
  <2>1. WITNESS "receive.write" \in {"dispatch.write", "receive.write"} \cup Buttons
  <2>2. QED BY <1>2 DEF ReceiveOpen, Receive, Open
<1>3. ASSUME NEW s \in Buttons, AddTrackingEvent(p, d, s)
      PROVE  /\ Begin(p, [NoRequest EXCEPT !.at = s]) /\ job' = [job EXCEPT ![p] = On(d)]
             /\ s # "dispatch.write" /\ s # "receive.write"
  BY <1>3 DEF AddTrackingEvent, Buttons
<1>4. QED BY <1>1, <1>2, <1>3

LEMMA HandlingOpen ==
  ASSUME Inv, HandlingInv, AddsApart, NEW p \in Slots, NEW d \in DocketIds,
         \/ DispatchOpen(p, d) \/ ReceiveOpen(p, d)
         \/ \E s \in Buttons : AddTrackingEvent(p, d, s)
  PROVE  HandlingInv'
<1>0. ReqOK(Steps) /\ DocketOK
  BY DEF Inv
<1>1. PICK step \in {"dispatch.write", "receive.write"} \cup Buttons :
        /\ Begin(p, [NoRequest EXCEPT !.at = step]) /\ job' = [job EXCEPT ![p] = On(d)]
        /\ step = "dispatch.write" => d \notin sent
        /\ step = "receive.write" => d \in sent
  BY OpenedStep
<1>2. step \in Steps
  BY DEF Steps, DocketSteps
<1>3. Others(p) /\ req'[p].at = step
  BY <1>0, <1>1, <1>2, StepNamed, BeginReq
<1>4. job'[p].docket = d /\ JobsOf(p)
  BY <1>0, <1>1 DEF DocketOK, On, JobsOf
<1>5. items' = items /\ sent' = sent /\ custody' = custody /\ events' = events
  BY DEF DispatchOpen, Dispatch, ReceiveOpen, Receive, Open, AddTrackingEvent,
         docketVars, logVars
<1>6. Handling(p)'
  BY <1>1, <1>3, <1>4, <1>5 DEF Handling, Buttons
<1>7. QED BY <1>3, <1>4, <1>5, <1>6, DocketFrame

\* Dispatching or receiving a docket, before the units are gone through.
LEMMA HandlingWrite ==
  ASSUME Inv, HandlingInv, AddsApart, NEW p \in Slots, NEW e, e = job[p].docket,
         DispatchWrite(p) \/ ReceiveWrite(p)
  PROVE  HandlingInv'
<1>0. ReqOK(Steps) /\ Handling(p)
  BY DEF Inv, HandlingInv
<1>1. UNCHANGED <<items, custody, events, job>> /\ JobsOf(p)
  BY DEF DispatchWrite, ReceiveWrite, logVars, JobsOf
<1>2. CASE DispatchWrite(p)
  <2>1. req[p].at = "dispatch.write" /\ sent' = sent \cup {e}
    BY <1>2 DEF DispatchWrite
  <2>2. req'[p].at = "dispatch.list" /\ Others(p)
    BY <1>0, <1>2, GotoReq DEF DispatchWrite, Steps, DocketSteps
  <2>3. Handling(p)'
    BY <1>1, <2>1, <2>2 DEF Handling
  <2>4. QED BY <1>1, <2>1, <2>2, <2>3, DocketFrame
<1>3. CASE ReceiveWrite(p)
  <2>1. req[p].at = "receive.write" /\ sent' = sent
    BY <1>3 DEF ReceiveWrite
  <2>2. req'[p].at = "receive.list" /\ Others(p)
    BY <1>0, <1>3, GotoReq DEF ReceiveWrite, Steps, DocketSteps
  <2>3. Handling(p)'
    BY <1>0, <1>1, <2>1, <2>2 DEF Handling
  <2>4. QED BY <1>1, <2>1, <2>2, <2>3, DocketFrame
<1>4. QED BY <1>2, <1>3

\* Going through the units: a unit leaves the list when it is handled.
LEMMA HandlingUnits ==
  ASSUME Inv, HandlingInv, AddsApart, NEW p \in Slots, NEW e, e = job[p].docket,
         (\E u \in Units : DispatchCustody(p, u) \/ ReceiveCustody(p, u)) \/ ReceiveAdvance(p)
  PROVE  HandlingInv'
<1>0. /\ ReqOK(Steps) /\ DocketOK /\ Handling(p)
  BY DEF Inv, HandlingInv
<1>1. UNCHANGED <<items, sent, events>> /\ custody \subseteq custody'
  BY DEF DispatchCustody, ReceiveCustody, ReceiveAdvance, LogStoreCustody, docketVars, logVars
<1>2. ASSUME Others(p), JobsOf(p), Handling(p)' PROVE HandlingInv'
  BY <1>1, <1>2, DocketFrame
<1>3. ASSUME NEW u \in Units, DispatchCustody(p, u)
      PROVE  Others(p) /\ JobsOf(p) /\ Handling(p)'
  <2>1. /\ req[p].at = "dispatch.custody" /\ u \in job[p].left
        /\ custody' = custody \cup {<<u, e, "checked_out">>}
        /\ job' = [job EXCEPT ![p].left = @ \ {u}]
    BY <1>3 DEF DispatchCustody, LogStoreCustody
  <2>2. /\ Others(p) /\ req'[p].at \in {"dispatch.event", "dispatch.custody"}
        /\ req'[p].at = "dispatch.event" => job[p].left = {u}
    BY <1>0, <1>3, GotoReq DEF DispatchCustody, Steps, DocketSteps
  <2>3. job'[p].docket = e /\ job'[p].left = job[p].left \ {u} /\ JobsOf(p)
    BY <1>0, <2>1 DEF DocketOK, JobsOf
  <2>4. AllOut(e, items[e] \ job[p].left) /\ e \in sent
    BY <1>0, <2>1 DEF Handling
  <2>5. Handling(p)'
    BY <1>1, <2>1, <2>2, <2>3, <2>4 DEF Handling, AllOut
  <2>6. QED BY <2>2, <2>3, <2>5
<1>4. ASSUME NEW u \in Units, ReceiveCustody(p, u)
      PROVE  Others(p) /\ JobsOf(p) /\ Handling(p)'
  <2>1. /\ req[p].at = "receive.custody" /\ job' = job
        /\ custody' = custody \cup {<<u, e, "checked_in">>}
        /\ req' = [req EXCEPT ![p].at = "receive.advance", ![p].unit = u]
    BY <1>4 DEF ReceiveCustody, LogStoreCustody
  <2>2. Others(p) /\ req'[p].at = "receive.advance" /\ req'[p].unit = u
    BY <1>0, <2>1 DEF ReqOK, Requests, Others
  <2>3. AllIn(e, items[e] \ job[p].left) /\ e \in sent
    BY <1>0, <2>1 DEF Handling
  <2>4. Handling(p)'
    BY <1>1, <2>1, <2>2, <2>3 DEF Handling, AllIn
  <2>5. QED BY <2>1, <2>2, <2>4 DEF JobsOf
<1>5. CASE ReceiveAdvance(p)
  <2>1. PICK u : u = req[p].unit
    OBVIOUS
  <2>2. /\ req[p].at = "receive.advance" /\ custody' = custody
        /\ job' = [job EXCEPT ![p].left = @ \ {u}]
    BY <1>5, <2>1 DEF ReceiveAdvance, logVars
  <2>3. /\ Others(p) /\ req'[p].at \in {"receive.event", "receive.custody"}
        /\ req'[p].at = "receive.event" => job[p].left = {u}
    BY <1>0, <1>5, <2>1, GotoReq DEF ReceiveAdvance, Steps, DocketSteps
  <2>4. job'[p].docket = e /\ job'[p].left = job[p].left \ {u} /\ JobsOf(p)
    BY <1>0, <2>2 DEF DocketOK, JobsOf
  <2>5. AllIn(e, items[e] \ job[p].left) /\ AllIn(e, {u}) /\ e \in sent
    BY <1>0, <2>1, <2>2 DEF Handling
  <2>6. Handling(p)'
    BY <1>1, <2>2, <2>3, <2>4, <2>5 DEF Handling, AllIn
  <2>7. QED BY <1>2, <2>3, <2>4, <2>6
<1>6. QED BY <1>2, <1>3, <1>4, <1>5

LEMMA HandlingStep ==
  ASSUME Inv, HandlingInv, AddsApart, [Next]_vars
  PROVE  HandlingInv'
<1>1. ASSUME NEW p \in Slots, Start(p) \/ Continue(p) \/ AbortRequest(p)
      PROVE  HandlingInv'
  <2>1. PICK e : e = job[p].docket
    OBVIOUS
  <2>2. CASE BoardRequest(p)
    BY <2>2, HandlingBoard
  <2>3. CASE \E d \in DocketIds :
               \/ DispatchOpen(p, d) \/ ReceiveOpen(p, d)
               \/ \E s \in Buttons : AddTrackingEvent(p, d, s)
    BY <2>3, HandlingOpen
  <2>4. CASE \/ CreateDocket(p)
             \/ \E d \in DocketIds, u \in Units : AddItem(p, d, u) \/ RemoveItem(p, d, u)
             \/ AddUnit(p) \/ AddInsert(p) \/ RemoveDelete(p)
    BY <2>1, <2>4, HandlingItems
  <2>5. QED
    BY <1>1, <2>1, <2>2, <2>3, <2>4, HandlingList, HandlingEvent, HandlingWrite,
       HandlingUnits
    DEF Start, Continue, BoardRequest
<1>2. CASE UNCHANGED vars
  BY <1>2 DEF vars, boardVars, docketVars, logVars, HandlingInv, Handling, Tracked,
              AllOut, AllIn
<1>3. QED BY <1>1, <1>2 DEF Next

LEMMA HandlingInvariance == Spec /\ []AddsApart => []HandlingInv
<1>1. Inv /\ AddsApart /\ HandlingInv /\ [Next]_vars => HandlingInv'
  BY HandlingStep
<1>2. QED BY <1>1, HandlingInit, Invariance, PTL DEF Spec

\* While no docket is dispatched under a request that adds a unit to it, the
\* tracking history tells the truth: RecordDispatch and RecordReceipt log their
\* event only after the custody of every unit on their list, and the docket
\* gains no unit after it was marked.
THEOREM HistoryIsTrue == Spec /\ []AddsApart => []TrackedMeansHandled
<1>1. HandlingInv => TrackedMeansHandled
  BY DEF HandlingInv, Tracked, AllOut, AllIn, TrackedMeansHandled
<1>2. QED BY <1>1, HandlingInvariance, PTL

-----------------------------------------------------------------------------
(* What holds with no condition on the requests.                            *)

Edits == {"add.unit", "add.insert", "remove.delete"}

\* What a step may do to docket d when it has left the store.
StaysAway(d) ==
  /\ ~Editing(d) => items'[d] = items[d] /\ ~Editing(d)'
  /\ status[d] = "delivered" /\ ~Dispatching(d)
       => status'[d] = "delivered" /\ ~Dispatching(d)'

\* A step of slot p leaves a docket alone that its own request is not, and does
\* not come to be, about to edit or to dispatch.
LEMMA AwayFrame ==
  ASSUME NEW p \in Slots, NEW d, Others(p), JobsOf(p),
         req'[p].at \in Edits /\ job'[p].docket = d => req[p].at \in Edits /\ job[p].docket = d,
         req'[p].at = "dispatch.write" => job'[p].docket # d,
         items'[d] = items[d] \/ (req[p].at \in Edits /\ job[p].docket = d),
         status[d] = "delivered" =>
           status'[d] = "delivered" \/ (req[p].at = "dispatch.write" /\ job[p].docket = d)
  PROVE  StaysAway(d)
<1>1. ASSUME NEW q \in Slots \ {p} PROVE req'[q] = req[q] /\ job'[q] = job[q]
  BY DEF Others, JobsOf
<1>2. ~Editing(d) => items'[d] = items[d] /\ ~Editing(d)'
  <2>1. SUFFICES ASSUME ~Editing(d), NEW q \in Slots
                 PROVE  items'[d] = items[d] /\ ~(req'[q].at \in Edits /\ job'[q].docket = d)
    BY DEF Editing, Edits
  <2>2. ~(req[p].at \in Edits /\ job[p].docket = d)
        /\ ~(req[q].at \in Edits /\ job[q].docket = d)
    BY <2>1 DEF Editing, Edits
  <2>3. QED BY <1>1, <2>2
<1>3. status[d] = "delivered" /\ ~Dispatching(d)
        => status'[d] = "delivered" /\ ~Dispatching(d)'
  <2>1. SUFFICES ASSUME status[d] = "delivered", ~Dispatching(d), NEW q \in Slots
                 PROVE  /\ status'[d] = "delivered"
                        /\ ~(req'[q].at = "dispatch.write" /\ job'[q].docket = d)
    BY DEF Dispatching
  <2>2. /\ ~(req[p].at = "dispatch.write" /\ job[p].docket = d)
        /\ ~(req[q].at = "dispatch.write" /\ job[q].docket = d)
    BY <2>1 DEF Dispatching
  <2>3. QED BY <1>1, <2>1, <2>2
<1>4. QED BY <1>2, <1>3 DEF StaysAway

\* The steps that leave the dockets alone and begin no edit or dispatch.
LEMMA AwayQuiet ==
  ASSUME NEW p \in Slots, NEW d, Others(p), JobsOf(p), UNCHANGED docketVars,
         req'[p].at \notin Edits \cup {"dispatch.write"}
  PROVE  StaysAway(d)
<1>1. items' = items /\ status' = status
  BY DEF docketVars
<1>2. QED BY <1>1, AwayFrame

LEMMA AwayBoard ==
  ASSUME Inv, NEW p \in Slots, NEW d, BoardRequest(p)
  PROVE  StaysAway(d)
<1>1. BoardKept(Steps, p) /\ UNCHANGED docketVars /\ JobsOf(p)
  BY BoardRequestKept
<1>2. QED BY <1>1, AwayQuiet DEF BoardKept, BoardSteps, Edits

\* The steps of a dispatch and a receipt after the docket was marked, and the
\* last step of a stage button.
LEMMA AwayLoop ==
  ASSUME Inv, NEW p \in Slots, NEW d,
         \/ DispatchList(p) \/ ReceiveList(p) \/ ReceiveAdvance(p)
         \/ \E u \in Units : DispatchCustody(p, u) \/ ReceiveCustody(p, u)
         \/ DispatchEvent(p) \/ ReceiveEvent(p) \/ TrackEvent(p)
  PROVE  StaysAway(d)
<1>0. ReqOK(Steps) /\ DocketOK
  BY DEF Inv
<1>1. UNCHANGED docketVars
  BY DEF DispatchList, ReceiveList, List, ReceiveAdvance, DispatchCustody, ReceiveCustody,
         DispatchEvent, ReceiveEvent, TrackEvent, RecordTrackingEvent
<1>2. Others(p) /\ JobsOf(p)
      /\ req'[p].at \notin {"add.unit", "add.insert", "remove.delete", "dispatch.write"}
  <2>1. CASE DispatchList(p) \/ ReceiveList(p)
    <3>1. /\ Others(p)
          /\ req'[p].at \in {"dispatch.custody", "dispatch.event",
                             "receive.custody", "receive.event"}
      BY <1>0, <2>1, GotoReq DEF DispatchList, ReceiveList, List, Steps, DocketSteps
    <3>2. JobsOf(p)
      BY <1>0, <2>1 DEF DispatchList, ReceiveList, List, DocketOK, JobsOf
    <3>3. QED BY <3>1, <3>2
  <2>2. CASE ReceiveAdvance(p)
    <3>1. Others(p) /\ req'[p].at \in {"receive.event", "receive.custody"}
      BY <1>0, <2>2, GotoReq DEF ReceiveAdvance, Steps, DocketSteps
    <3>2. QED BY <2>2, <3>1, OneLess DEF ReceiveAdvance
  <2>3. ASSUME NEW u \in Units, DispatchCustody(p, u)
        PROVE  Others(p) /\ JobsOf(p) /\ req'[p].at \in {"dispatch.event", "dispatch.custody"}
    <3>1. Others(p) /\ req'[p].at \in {"dispatch.event", "dispatch.custody"}
      BY <1>0, <2>3, GotoReq DEF DispatchCustody, Steps, DocketSteps
    <3>2. QED BY <2>3, <3>1, OneLess DEF DispatchCustody
  <2>4. ASSUME NEW u \in Units, ReceiveCustody(p, u)
        PROVE  Others(p) /\ JobsOf(p) /\ req'[p].at = "receive.advance"
    BY <1>0, <2>4 DEF ReceiveCustody, ReqOK, Requests, Others, JobsOf
  <2>5. CASE DispatchEvent(p) \/ ReceiveEvent(p) \/ TrackEvent(p)
    <3>1. Done(p)
      BY <2>5 DEF DispatchEvent, ReceiveEvent, TrackEvent, RecordTrackingEvent
    <3>2. QED BY <3>1, DoneStep
  <2>6. QED BY <2>1, <2>2, <2>3, <2>4, <2>5
<1>3. QED BY <1>1, <1>2, AwayQuiet DEF Edits

\* AddItem and RemoveItem begin on drafts, and no sent docket is one.
LEMMA AwayItems ==
  ASSUME Inv, NEW p \in Slots, NEW d \in sent,
         \/ CreateDocket(p)
         \/ \E c \in DocketIds, u \in Units : AddItem(p, c, u) \/ RemoveItem(p, c, u)
         \/ AddUnit(p) \/ AddInsert(p) \/ RemoveDelete(p)
  PROVE  StaysAway(d)
<1>0. ReqOK(Steps) /\ DocketOK /\ DraftIffUnsent /\ sent \subseteq DocketIds
  BY JobTyped DEF Inv
<1>1. CASE CreateDocket(p)
  BY <1>1 DEF CreateDocket, InsertDocket, boardVars, StaysAway, Editing, Dispatching
<1>2. ASSUME NEW c \in DocketIds, NEW u \in Units, AddItem(p, c, u) \/ RemoveItem(p, c, u)
      PROVE  StaysAway(d)
  <2>1. /\ c \notin sent /\ job' = [job EXCEPT ![p] = On(c)] /\ UNCHANGED docketVars
    BY <1>0, <1>2 DEF AddItem, RemoveItem, Draft, DraftIffUnsent
  <2>2. req'[p].at \in {"add.unit", "remove.delete"} /\ Others(p)
    BY <1>0, <1>2, ServeReq DEF AddItem, RemoveItem, Steps, DocketSteps
  <2>3. job'[p].docket # d /\ JobsOf(p)
    BY <1>0, <2>1 DEF DocketOK, On, JobsOf
  <2>4. items' = items /\ status' = status
    BY <2>1 DEF docketVars
  <2>5. QED BY <2>2, <2>3, <2>4, AwayFrame
<1>3. CASE AddUnit(p)
  <2>1. req[p].at = "add.unit" /\ UNCHANGED docketVars
    BY <1>3 DEF AddUnit
  <2>2. CASE Goto(p, "add.insert") /\ UNCHANGED job
    <3>1. req'[p].at = "add.insert" /\ Others(p) /\ JobsOf(p)
      BY <1>0, <2>2, GotoReq DEF Steps, DocketSteps, JobsOf
    <3>2. items' = items /\ status' = status /\ job' = job
      BY <2>1, <2>2 DEF docketVars
    <3>3. QED BY <2>1, <3>1, <3>2, AwayFrame DEF Edits
  <2>3. CASE Done(p)
    BY <2>1, <2>3, DoneStep, AwayQuiet DEF Edits
  <2>4. QED BY <1>3, <2>2, <2>3 DEF AddUnit
<1>4. CASE AddInsert(p) \/ RemoveDelete(p)
  <2>1. /\ req[p].at \in Edits /\ Done(p) /\ status' = status
        /\ items' \in {[items EXCEPT ![job[p].docket] = @ \cup {req[p].unit}],
                       [items EXCEPT ![job[p].docket] = @ \ {req[p].unit}]}
    BY <1>4 DEF AddInsert, RemoveDelete, Edits
  <2>2. Others(p) /\ req'[p].at = "idle" /\ JobsOf(p)
    BY <2>1, DoneStep
  <2>3. job[p].docket # d => items'[d] = items[d]
    BY <1>0, <2>1 DEF DocketOK
  <2>4. QED BY <2>1, <2>2, <2>3, AwayFrame DEF Edits
<1>5. QED BY <1>1, <1>2, <1>3, <1>4

\* Opening a page and pressing its button: "Mark Dispatched" is offered of a
\* docket in the store, and a stage button leaves a delivered docket delivered.
LEMMA AwayOpen ==
  ASSUME Inv, NEW p \in Slots, NEW d \in sent, NEW c \in DocketIds,
         \/ DispatchOpen(p, c) \/ ReceiveOpen(p, c)
         \/ \E s \in Buttons : AddTrackingEvent(p, c, s)
  PROVE  StaysAway(d)
<1>0. ReqOK(Steps) /\ DocketOK /\ sent \subseteq DocketIds
  BY JobTyped DEF Inv
<1>1. PICK step \in {"dispatch.write", "receive.write"} \cup Buttons :
        /\ Begin(p, [NoRequest EXCEPT !.at = step]) /\ job' = [job EXCEPT ![p] = On(c)]
        /\ step = "dispatch.write" => c \notin sent
  BY OpenedStep
<1>2. step \in Steps
  BY DEF Steps, DocketSteps
<1>3. Others(p) /\ req'[p].at = step
  BY <1>0, <1>1, <1>2, StepNamed, BeginReq
<1>4. job'[p].docket = c /\ JobsOf(p)
  BY <1>0, <1>1 DEF DocketOK, On, JobsOf
<1>5. items' = items
  BY DEF DispatchOpen, Dispatch, ReceiveOpen, Receive, Open, AddTrackingEvent, docketVars
<1>6. status[d] = "delivered" => status'[d] = "delivered"
  BY <1>0 DEF DispatchOpen, Dispatch, ReceiveOpen, Receive, Open, AddTrackingEvent,
              UpdateStatus, docketVars, DocketOK
<1>7. req'[p].at \notin Edits
  BY <1>3 DEF Edits, Buttons
<1>8. QED BY <1>1, <1>3, <1>4, <1>5, <1>6, <1>7, AwayFrame

LEMMA AwayWrite ==
  ASSUME Inv, NEW p \in Slots, NEW d \in sent, DispatchWrite(p) \/ ReceiveWrite(p)
  PROVE  StaysAway(d)
<1>0. ReqOK(Steps) /\ DocketOK /\ sent \subseteq DocketIds
  BY JobTyped DEF Inv
<1>1. items' = items /\ JobsOf(p)
  BY DEF DispatchWrite, ReceiveWrite, JobsOf
<1>2. req'[p].at \in {"dispatch.list", "receive.list"} /\ Others(p)
  BY <1>0, GotoReq DEF DispatchWrite, ReceiveWrite, Steps, DocketSteps
<1>3. \/ status'[d] = "delivered" \/ status'[d] = status[d]
      \/ req[p].at = "dispatch.write" /\ job[p].docket = d
  BY <1>0 DEF DispatchWrite, ReceiveWrite, DocketOK
<1>4. QED BY <1>1, <1>2, <1>3, AwayFrame DEF Edits

\* A docket that has been dispatched keeps what is on it from the moment that
\* no request is left that found it a draft, and a docket that has been received
\* stays delivered from the moment that no second dispatch of it is left,
\* however many requests overlap and wherever they are cut short.
THEOREM SentDocketsAreKept == Spec => SentDocketKept
<1>1. Inv /\ [Next]_vars => [\A d \in sent : StaysAway(d)]_vars
  <2>1. SUFFICES ASSUME Inv, NEW d \in sent, Next
                 PROVE  StaysAway(d)
    OBVIOUS
  <2>2. PICK p \in Slots : Start(p) \/ Continue(p) \/ AbortRequest(p)
    BY <2>1 DEF Next
  <2>3. CASE BoardRequest(p)
    BY <2>1, <2>3, AwayBoard
  <2>4. CASE \E c \in DocketIds :
               \/ DispatchOpen(p, c) \/ ReceiveOpen(p, c)
               \/ \E s \in Buttons : AddTrackingEvent(p, c, s)
    BY <2>1, <2>4, AwayOpen
  <2>5. CASE \/ CreateDocket(p)
             \/ \E c \in DocketIds, u \in Units : AddItem(p, c, u) \/ RemoveItem(p, c, u)
             \/ AddUnit(p) \/ AddInsert(p) \/ RemoveDelete(p)
    BY <2>1, <2>5, AwayItems
  <2>6. QED BY <2>1, <2>2, <2>3, <2>4, <2>5, AwayWrite, AwayLoop
            DEF Start, Continue, BoardRequest
<1>2. QED BY <1>1, Invariance, PTL DEF Spec, SentDocketKept, StaysAway

\* With one request at a time there is nothing to overlap.
THEOREM OneRequestAtATime ==
  (\A p, q \in Slots : p = q) => (Spec => []AddsApart)
<1> SUFFICES ASSUME \A p, q \in Slots : p = q PROVE Spec => []AddsApart
  OBVIOUS
<1>1. AddsApart
  BY DEF AddsApart, Same
<1>2. QED BY <1>1, PTL
=============================================================================
