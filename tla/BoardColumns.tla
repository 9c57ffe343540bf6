---------------------------- MODULE BoardColumns ----------------------------
(***************************************************************************)
(* The six columns of the Kanban board (internal/hardware/service.go), in   *)
(* the order a unit goes through them.  The current_stage label is a        *)
(* function of the column (boardColumnStages) and is written by the same    *)
(* UPDATE, so the column alone is modelled.                                 *)
(***************************************************************************)
EXTENDS Naturals

Columns == {"pre_deployment", "configuration", "shipment",
            "installation", "commissioning", "completed"}

\* boardColumnIndex: the position of a column in boardColumnOrder.
Rank == [pre_deployment |-> 0, configuration |-> 1, shipment |-> 2,
         installation |-> 3, commissioning |-> 4, completed |-> 5]

\* boardColumnOrder[idx + 1], for every column but the last.
Following == [pre_deployment |-> "configuration", configuration |-> "shipment",
              shipment |-> "installation", installation |-> "commissioning",
              commissioning |-> "completed"]

\* The columns whose sign-offs let a unit enter column c.
Preceding(c) == {d \in Columns \ {"completed"} : Following[d] = c}
=============================================================================
