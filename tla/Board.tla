-------------------------------- MODULE Board --------------------------------
(***************************************************************************)
(* The requests that write hardware_units.board_column without recording a  *)
(* sign-off: the administrator's MoveBoardColumn and everybody's            *)
(* SyncBoardColumn.  A handler is a sequence of SQL statements, each atomic *)
(* by itself and none of them in a common transaction, so every statement   *)
(* is an action of its own; what the handler carries from one statement to  *)
(* the next is kept in its request slot.                                    *)
(*                                                                          *)
(* The modules of the workflow stages EXTEND this one and conjoin to these  *)
(* actions what they do to their own tables.                                *)
(***************************************************************************)
EXTENDS BoardColumns

CONSTANTS Units,        \* hardware units
          Slots,        \* requests the server handles at the same time
          MoveTargets   \* bound: the columns an administrator moves units to

ASSUME UnitsAssumption == Units # {}
ASSUME MoveTargetsAssumption == MoveTargets \subseteq Columns

VARIABLES column, mover, granted,   \* as in BoardLedger
          req                       \* the request each slot is serving

Ledger == INSTANCE BoardLedger WITH
  column <- column, mover <- mover, granted <- granted

ledgerVars == <<column, mover, granted>>
boardVars == <<column, mover, granted, req>>

-----------------------------------------------------------------------------
(* Request slots.                                                           *)

BoardSteps == {"move.write", "move.reset", "sync.check", "sync.write"}

Requests(steps) == [at : steps, unit : Units, col : Columns, back : BOOLEAN]

NoRequest == [at |-> "idle", unit |-> CHOOSE u \in Units : TRUE,
              col |-> "pre_deployment", back |-> FALSE]

Serving(u, step) == [NoRequest EXCEPT !.at = step, !.unit = u]

Begin(p, r) == req[p].at = "idle" /\ req' = [req EXCEPT ![p] = r]
Goto(p, step) == req' = [req EXCEPT ![p].at = step]
Finish(p) == req' = [req EXCEPT ![p] = NoRequest]

\* The client disconnects, the 30 s timeout cancels the context, a statement
\* fails or the process dies: nothing more of the request happens, and what
\* its earlier statements wrote stays.
Abort(p) ==
  /\ req[p].at # "idle"
  /\ Finish(p)
  /\ UNCHANGED ledgerVars

-----------------------------------------------------------------------------
(* AdvanceBoardColumn: an UPDATE with no condition on the current column.   *)

AdvanceBoardColumn(u, c, who) ==
  /\ column' = [column EXCEPT ![u] = c]
  /\ mover' = [mover EXCEPT ![u] = who]

(* MoveBoardColumn: read, write the column, delete the acceptance record.   *)

IsBackward(u, c) == Rank[c] < Rank[column[u]]

MoveRead(p, u, c, resetAcceptance) ==
  /\ IsBackward(u, c) => resetAcceptance
  /\ Begin(p, [at |-> "move.write", unit |-> u, col |-> c,
               back |-> IsBackward(u, c)])
  /\ UNCHANGED ledgerVars

MoveWrite(p) ==
  /\ req[p].at = "move.write"
  /\ AdvanceBoardColumn(req[p].unit, req[p].col, "admin")
  /\ IF req[p].back THEN Goto(p, "move.reset") ELSE Finish(p)
  /\ UNCHANGED granted

\* The DELETE itself is conjoined by the module that has client_acceptances.
MoveReset(p) ==
  /\ req[p].at = "move.reset"
  /\ Finish(p)
  /\ UNCHANGED ledgerVars

(* SyncBoardColumn: read the unit, run the readiness query of the column    *)
(* that was read, write the following column.                               *)

SyncRead(p, u) ==
  /\ column[u] # "completed"
  /\ Begin(p, [Serving(u, "sync.check") EXCEPT !.col = column[u]])
  /\ UNCHANGED ledgerVars

\* Mutant: the query of "installation" fails as well.
QueryRunsNot(c) == c \notin {"configuration", "installation"}

\* The query of "configuration" names firmware_configurations.qc_by, a column
\* the table does not have (it is configuration_qc_by), so it always fails.
QueryRuns(c) == c # "configuration"

SyncCheck(p, ready) ==
  /\ req[p].at = "sync.check"
  /\ IF QueryRuns(req[p].col) /\ ready THEN Goto(p, "sync.write") ELSE Finish(p)
  /\ UNCHANGED ledgerVars

\* Mutant: boardColumnOrder[idx] for boardColumnOrder[idx + 1].
SyncWriteSame(p) ==
  /\ req[p].at = "sync.write"
  /\ AdvanceBoardColumn(req[p].unit, req[p].col, "sync")
  /\ Finish(p)
  /\ UNCHANGED granted

SyncWrite(p) ==
  /\ req[p].at = "sync.write"
  /\ AdvanceBoardColumn(req[p].unit, Following[req[p].col], "sync")
  /\ Finish(p)
  /\ UNCHANGED granted
=============================================================================
