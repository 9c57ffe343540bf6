---------------------------- MODULE Board_proofs ----------------------------
(***************************************************************************)
(* Lemmas about module Board, for whatever steps S the module that extends  *)
(* it adds to the requests, and about BoardLedger.                          *)
(***************************************************************************)
EXTENDS Board, TLAPS

ReqOK(S) == req \in [Slots -> Requests(S)]

BoardOK ==
  /\ column \in [Units -> Columns]
  /\ mover \in [Units -> Ledger!Movers]
  /\ granted \in [Units -> SUBSET Columns]

\* No sync looks for what follows the last column.
SyncOK ==
  \A p \in Slots : req[p].at \in {"sync.check", "sync.write"} => req[p].col # "completed"

\* What a sync is about to act on has once been granted.
SyncGranted ==
  \A p \in Slots : req[p].at = "sync.write" => req[p].col \in granted[req[p].unit]

-----------------------------------------------------------------------------
(* Request slots.                                                           *)

LEMMA NoRequestTyped ==
  ASSUME NEW S, "idle" \in S
  PROVE  NoRequest \in Requests(S) /\ NoRequest.at = "idle"
  BY UnitsAssumption DEF NoRequest, Requests, Columns

LEMMA ServingTyped ==
  ASSUME NEW S, NEW u \in Units, NEW step \in S
  PROVE  /\ Serving(u, step) \in Requests(S)
         /\ Serving(u, step).at = step /\ Serving(u, step).unit = u
  BY DEF NoRequest, Serving, Requests, Columns

\* The requests that MoveRead and SyncRead begin.
LEMMA MoveRequest ==
  ASSUME NEW S, "move.write" \in S, NEW u \in Units, NEW c \in MoveTargets
  PROVE  [at |-> "move.write", unit |-> u, col |-> c, back |-> IsBackward(u, c)]
           \in Requests(S)
  BY MoveTargetsAssumption DEF Requests, IsBackward

LEMMA SyncRequest ==
  ASSUME NEW S, "sync.check" \in S, NEW u \in Units, column[u] \in Columns
  PROVE  LET r == [Serving(u, "sync.check") EXCEPT !.col = column[u]]
         IN  r \in Requests(S) /\ r.at = "sync.check" /\ r.col = column[u]
<1>1. Serving(u, "sync.check") \in Requests(S) /\ Serving(u, "sync.check").at = "sync.check"
  BY ServingTyped
<1>2. QED BY <1>1 DEF Requests

\* What slot p holds after each way of moving on; the others keep theirs.
Others(p) == \A q \in Slots \ {p} : req'[q] = req[q]

LEMMA FinishReq ==
  ASSUME NEW S, "idle" \in S, ReqOK(S), NEW p \in Slots, Finish(p)
  PROVE  ReqOK(S)' /\ req'[p].at = "idle" /\ Others(p)
  BY NoRequestTyped DEF ReqOK, Finish, Others

LEMMA GotoReq ==
  ASSUME NEW S, ReqOK(S), NEW p \in Slots, NEW step \in S, Goto(p, step)
  PROVE  /\ ReqOK(S)' /\ req'[p].at = step
         /\ req'[p].unit = req[p].unit /\ req'[p].col = req[p].col
         /\ Others(p)
  BY DEF ReqOK, Goto, Requests, Others

LEMMA BeginReq ==
  ASSUME NEW S, ReqOK(S), NEW p \in Slots, NEW r \in Requests(S), Begin(p, r)
  PROVE  ReqOK(S)' /\ req'[p] = r /\ Others(p)
  BY DEF ReqOK, Begin, Others

LEMMA ServeReq ==
  ASSUME NEW S, ReqOK(S), NEW p \in Slots, NEW u \in Units, NEW step \in S,
         Begin(p, Serving(u, step))
  PROVE  ReqOK(S)' /\ req'[p].at = step /\ req'[p].unit = u /\ Others(p)
<1>1. /\ Serving(u, step) \in Requests(S)
      /\ Serving(u, step).at = step /\ Serving(u, step).unit = u
  BY ServingTyped
<1>2. QED BY <1>1, BeginReq

LEMMA SlotReq ==
  ASSUME NEW S, ReqOK(S), NEW p \in Slots
  PROVE  req[p].unit \in Units /\ req[p].col \in Columns /\ req[p].at \in S
  BY DEF ReqOK, Requests

\* The invariants about syncs survive a step of slot p that is no part of one.
LEMMA SyncFrame ==
  ASSUME NEW S, ReqOK(S), SyncOK, SyncGranted, NEW p \in Slots, Others(p),
         req'[p].at \notin {"sync.check", "sync.write"},
         \A u \in Units : granted[u] \subseteq granted'[u]
  PROVE  SyncOK' /\ SyncGranted'
<1>1. \A q \in Slots : req[q].unit \in Units
  BY SlotReq
<1>2. QED BY <1>1 DEF SyncOK, SyncGranted, Others

-----------------------------------------------------------------------------
(* The board requests.                                                      *)

LEMMA AdvanceTyped ==
  ASSUME BoardOK, NEW u \in Units, NEW c \in Columns, NEW who \in Ledger!Movers,
         AdvanceBoardColumn(u, c, who), granted' = granted
  PROVE  BoardOK'
  BY DEF BoardOK, AdvanceBoardColumn

\* A column is preceded by the one it follows.
LEMMA FollowingPreceded ==
  ASSUME NEW c \in Columns, c # "completed"
  PROVE  /\ Following[c] \in Columns
         /\ c \in Preceding(Following[c])
  BY DEF Preceding, Columns, Following

\* BoardLedger's columns are those of module BoardColumns.
LEMMA SameColumns ==
  /\ Ledger!Columns = Columns
  /\ \A c : Ledger!Preceding(c) = Preceding(c)
  BY DEF Ledger!Columns, Columns, Ledger!Preceding, Preceding, Ledger!Following, Following

\* An advance into the column that follows a granted one is a step of
\* BoardLedger.
LEMMA EnterLedger ==
  ASSUME NEW u \in Units, NEW c \in Columns, c # "completed", c \in granted[u],
         NEW who \in {"sync", "signoff"},
         AdvanceBoardColumn(u, Following[c], who), granted' = granted
  PROVE  Ledger!Next
<1>1. Following[c] \in Columns /\ c \in Preceding(Following[c])
  BY FollowingPreceded
<1>2. Ledger!Enter(u, Following[c], who)
  BY <1>1, SameColumns DEF AdvanceBoardColumn, Ledger!Enter
<1>3. QED BY <1>1, <1>2, SameColumns DEF Ledger!Next, Ledger!Movers

\* What a step of a board request keeps, and that BoardLedger allows it.
BoardKept(S, p) ==
  /\ ReqOK(S)' /\ BoardOK' /\ SyncOK' /\ SyncGranted'
  /\ Others(p)
  /\ req'[p].at \in BoardSteps \cup {"idle"}
  /\ granted' = granted
  /\ [Ledger!Next]_ledgerVars

LEMMA MoveSteps ==
  ASSUME NEW S, BoardSteps \cup {"idle"} \subseteq S,
         ReqOK(S), BoardOK, SyncOK, SyncGranted, NEW p \in Slots,
         \/ \E u \in Units, c \in MoveTargets, reset \in BOOLEAN : MoveRead(p, u, c, reset)
         \/ MoveWrite(p)
         \/ MoveReset(p)
  PROVE  BoardKept(S, p)
<1>0. req[p].unit \in Units /\ req[p].col \in Columns
  BY SlotReq
<1>1. ASSUME NEW u \in Units, NEW c \in MoveTargets, NEW reset \in BOOLEAN,
             MoveRead(p, u, c, reset)
      PROVE  BoardKept(S, p)
  <2>1. [at |-> "move.write", unit |-> u, col |-> c, back |-> IsBackward(u, c)]
          \in Requests(S)
    BY MoveRequest DEF BoardSteps
  <2>2. ReqOK(S)' /\ req'[p].at = "move.write" /\ Others(p)
    BY <1>1, <2>1, BeginReq DEF MoveRead
  <2>3. UNCHANGED ledgerVars
    BY <1>1 DEF MoveRead
  <2>4. SyncOK' /\ SyncGranted'
    BY <2>2, <2>3, SyncFrame DEF ledgerVars
  <2>5. QED BY <2>2, <2>3, <2>4 DEF BoardKept, BoardOK, ledgerVars, BoardSteps
<1>2. CASE MoveWrite(p)
  <2>1. ReqOK(S)' /\ req'[p].at \in {"idle", "move.reset"} /\ Others(p)
    BY <1>2, FinishReq, GotoReq DEF MoveWrite, BoardSteps
  <2>2. granted' = granted /\ AdvanceBoardColumn(req[p].unit, req[p].col, "admin")
    BY <1>2 DEF MoveWrite
  <2>3. BoardOK'
    BY <1>0, <2>2, AdvanceTyped DEF Ledger!Movers
  <2>4. SyncOK' /\ SyncGranted'
    BY <2>1, <2>2, SyncFrame
  <2>5. Ledger!Next
    BY <1>0, <2>2, SameColumns DEF AdvanceBoardColumn, Ledger!AdminMove, Ledger!Next
  <2>6. QED BY <2>1, <2>2, <2>3, <2>4, <2>5 DEF BoardKept, BoardSteps
<1>3. CASE MoveReset(p)
  <2>1. ReqOK(S)' /\ req'[p].at = "idle" /\ Others(p) /\ UNCHANGED ledgerVars
    BY <1>3, FinishReq DEF MoveReset
  <2>2. SyncOK' /\ SyncGranted'
    BY <2>1, SyncFrame DEF ledgerVars
  <2>3. QED BY <2>1, <2>2 DEF BoardKept, BoardOK, ledgerVars
<1>4. QED BY <1>1, <1>2, <1>3

\* A sync acts on a readiness query that says yes only of what was granted.
LEMMA SyncSteps ==
  ASSUME NEW S, BoardSteps \cup {"idle"} \subseteq S,
         ReqOK(S), BoardOK, SyncOK, SyncGranted, NEW p \in Slots,
         \/ \E u \in Units : SyncRead(p, u)
         \/ \E ready \in BOOLEAN : /\ SyncCheck(p, ready)
                                   /\ ready => req[p].col \in granted[req[p].unit]
         \/ SyncWrite(p)
  PROVE  BoardKept(S, p)
<1>0. /\ req[p].unit \in Units /\ req[p].col \in Columns
      /\ \A q \in Slots : req[q].unit \in Units
  BY SlotReq
<1>1. ASSUME NEW u \in Units, SyncRead(p, u)
      PROVE  BoardKept(S, p)
  <2>1. LET r == [Serving(u, "sync.check") EXCEPT !.col = column[u]]
        IN  r \in Requests(S) /\ r.at = "sync.check" /\ r.col = column[u]
    BY SyncRequest DEF BoardOK, BoardSteps
  <2>2. /\ ReqOK(S)' /\ req'[p].at = "sync.check" /\ Others(p)
        /\ req'[p].col = column[u] /\ column[u] # "completed"
    BY <1>1, <2>1, BeginReq DEF SyncRead
  <2>3. UNCHANGED ledgerVars
    BY <1>1 DEF SyncRead
  <2>4. SyncOK' /\ SyncGranted'
    BY <1>0, <2>2, <2>3 DEF SyncOK, SyncGranted, Others, ledgerVars
  <2>5. QED BY <2>2, <2>3, <2>4 DEF BoardKept, BoardOK, ledgerVars, BoardSteps
<1>2. ASSUME NEW ready \in BOOLEAN, SyncCheck(p, ready),
             ready => req[p].col \in granted[req[p].unit]
      PROVE  BoardKept(S, p)
  <2>1. /\ ReqOK(S)' /\ req'[p].at \in {"idle", "sync.write"} /\ Others(p)
        /\ req'[p].at = "sync.write" =>
             ready /\ req'[p].unit = req[p].unit /\ req'[p].col = req[p].col
    BY <1>2, FinishReq, GotoReq DEF SyncCheck, BoardSteps
  <2>2. UNCHANGED ledgerVars /\ req[p].at = "sync.check"
    BY <1>2 DEF SyncCheck
  <2>3. SyncOK' /\ SyncGranted'
    BY <1>0, <1>2, <2>1, <2>2 DEF SyncOK, SyncGranted, Others, ledgerVars
  <2>4. QED BY <2>1, <2>2, <2>3 DEF BoardKept, BoardOK, ledgerVars, BoardSteps
<1>3. CASE SyncWrite(p)
  <2>1. ReqOK(S)' /\ req'[p].at = "idle" /\ Others(p)
    BY <1>3, FinishReq DEF SyncWrite
  <2>2. /\ granted' = granted
        /\ AdvanceBoardColumn(req[p].unit, Following[req[p].col], "sync")
        /\ req[p].col # "completed" /\ req[p].col \in granted[req[p].unit]
    BY <1>3 DEF SyncWrite, SyncOK, SyncGranted
  <2>3. BoardOK'
    BY <1>0, <2>2, FollowingPreceded, AdvanceTyped DEF Ledger!Movers
  <2>4. SyncOK' /\ SyncGranted'
    BY <2>1, <2>2, SyncFrame
  <2>5. Ledger!Next
    BY <1>0, <2>2, EnterLedger
  <2>6. QED BY <2>1, <2>2, <2>3, <2>4, <2>5 DEF BoardKept
<1>4. QED BY <1>1, <1>2, <1>3

LEMMA AbortStep ==
  ASSUME NEW S, "idle" \in S, ReqOK(S), BoardOK, SyncOK, SyncGranted,
         NEW p \in Slots, Abort(p)
  PROVE  BoardKept(S, p) /\ req'[p].at = "idle"
<1>1. ReqOK(S)' /\ req'[p].at = "idle" /\ Others(p) /\ UNCHANGED ledgerVars
  BY FinishReq DEF Abort
<1>2. SyncOK' /\ SyncGranted'
  BY <1>1, SyncFrame DEF ledgerVars
<1>3. QED BY <1>1, <1>2 DEF BoardKept, BoardOK, ledgerVars

-----------------------------------------------------------------------------
\* The abstract board keeps its promise: a step of BoardLedger leaves every
\* unit in a column that is backed.
LEMMA BackedStep ==
  ASSUME BoardOK, Ledger!AdvanceBacked, [Ledger!Next]_ledgerVars
  PROVE  Ledger!AdvanceBacked'
<1> SUFFICES ASSUME NEW v \in Units PROVE Ledger!Backed(v)'
  BY DEF Ledger!AdvanceBacked
<1>0. Ledger!Backed(v)
  BY DEF Ledger!AdvanceBacked
<1>1. ASSUME NEW us \in SUBSET Units, NEW c \in Columns, Ledger!Grant(us, c)
      PROVE  Ledger!Backed(v)'
  <2>1. granted[v] \subseteq granted'[v] /\ UNCHANGED <<column, mover>>
    BY <1>1 DEF Ledger!Grant, BoardOK
  <2>2. QED BY <1>0, <2>1 DEF Ledger!Backed
<1>2. ASSUME NEW u \in Units, NEW c \in Columns, NEW who \in Ledger!Movers,
             Ledger!Enter(u, c, who)
      PROVE  Ledger!Backed(v)'
  BY <1>0, <1>2 DEF Ledger!Enter, Ledger!Backed, BoardOK
<1>3. ASSUME NEW u \in Units, NEW c \in Columns, Ledger!AdminMove(u, c)
      PROVE  Ledger!Backed(v)'
  BY <1>0, <1>3 DEF Ledger!AdminMove, Ledger!Backed, BoardOK
<1>4. CASE UNCHANGED ledgerVars
  BY <1>0, <1>4 DEF Ledger!Backed, ledgerVars
<1>5. QED BY <1>1, <1>2, <1>3, <1>4, SameColumns DEF Ledger!Next
=============================================================================
