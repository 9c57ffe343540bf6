----------------------------- MODULE BoardLedger -----------------------------
(***************************************************************************)
(* What the board promises, whatever the handlers behind it interleave:     *)
(* only an administrator moves a unit freely; every other move enters a     *)
(* column whose preceding sign-offs have been granted at some time ("it can *)
(* only ever catch board_column up to state that a properly-authorized      *)
(* sign-off already produced", service.go).  The detailed modules are shown *)
(* to implement this specification.                                         *)
(***************************************************************************)
EXTENDS BoardColumns

CONSTANT Units

VARIABLES column,   \* hardware_units.board_column
          mover,    \* who wrote the column last
          granted   \* the columns whose sign-offs have once been complete

ledgerVars == <<column, mover, granted>>

Movers == {"create", "sync", "signoff", "admin"}

Backed(u) ==
  \/ mover[u] = "create" /\ column[u] = "pre_deployment"
  \/ mover[u] = "admin"
  \/ Preceding(column[u]) \cap granted[u] # {}

\* A unit is where it was created, where an administrator put it, or in a
\* column whose preceding sign-offs have really been recorded.
AdvanceBacked == \A u \in Units : Backed(u)

Init ==
  /\ column \in [Units -> Columns]
  /\ mover \in [Units -> Movers]
  /\ granted \in [Units -> SUBSET Columns]
  /\ AdvanceBacked

\* A sign-off that completes the requirements of column c is recorded for
\* some units (all those on a docket, say).
Grant(us, c) ==
  /\ granted' = [u \in Units |-> granted[u] \cup IF u \in us THEN {c} ELSE {}]
  /\ UNCHANGED <<column, mover>>

\* A unit enters the column that follows a granted one.
Enter(u, c, who) ==
  /\ who \in {"sync", "signoff"}
  /\ Preceding(c) \cap granted[u] # {}
  /\ column' = [column EXCEPT ![u] = c]
  /\ mover' = [mover EXCEPT ![u] = who]
  /\ UNCHANGED granted

AdminMove(u, c) ==
  /\ column' = [column EXCEPT ![u] = c]
  /\ mover' = [mover EXCEPT ![u] = "admin"]
  /\ UNCHANGED granted

Next ==
  \/ \E us \in SUBSET Units, c \in Columns : Grant(us, c)
  \/ \E u \in Units, c \in Columns :
       AdminMove(u, c) \/ \E who \in Movers : Enter(u, c, who)

Spec == Init /\ [][Next]_ledgerVars
=============================================================================
