----------------------------- MODULE StockLedger -----------------------------
(***************************************************************************)
(* What the stock of the items master file promises, whatever requests      *)
(* overlap: a unit is created from an item only by taking one from its      *)
(* quantity, and what is on hand and in use together never exceeds what     *)
(* the administrators put there.                                            *)
(***************************************************************************)
EXTENDS Integers

CONSTANT Items

VARIABLES onHand,    \* quantity left, per item
          inUse,     \* units created from the item that still exist
          supplied   \* what administrators entered, as corrected by edits

vars == <<onHand, inUse, supplied>>

Init == onHand = [i \in Items |-> 0] /\ inUse = onHand /\ supplied = onHand

\* An administrator creates the item or enters another quantity.
Enter(i) ==
  /\ onHand'[i] \in Nat
  /\ onHand' = [onHand EXCEPT ![i] = onHand'[i]]
  /\ supplied' = [supplied EXCEPT ![i] = @ + (onHand'[i] - onHand[i])]
  /\ UNCHANGED inUse

Take(i) ==
  /\ onHand[i] > 0
  /\ onHand' = [onHand EXCEPT ![i] = @ - 1]
  /\ inUse' = [inUse EXCEPT ![i] = @ + 1]
  /\ UNCHANGED supplied

\* A unit is purged: it is gone, and so is the one it took.
WriteOff(i) ==
  /\ inUse[i] > 0
  /\ inUse' = [inUse EXCEPT ![i] = @ - 1]
  /\ UNCHANGED <<onHand, supplied>>

\* All units are wiped; some of what they took is put back, and no more than
\* was ever supplied.
Recall ==
  /\ inUse' = [i \in Items |-> 0]
  /\ \A i \in Items : onHand'[i] \in onHand[i] .. supplied[i]
  /\ onHand' = [i \in Items |-> onHand'[i]]
  /\ UNCHANGED supplied

Next == Recall \/ \E i \in Items : Enter(i) \/ Take(i) \/ WriteOff(i)

Spec == Init /\ [][Next]_vars
=============================================================================
