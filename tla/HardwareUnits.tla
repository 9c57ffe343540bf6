---------------------------- MODULE HardwareUnits ----------------------------
(***************************************************************************)
(* The rows of hardware_units as they come and go, and the stock of the     *)
(* items they are created from: CreateUnit and WipeAll, which are           *)
(* transactions, and the identity edit, retirement, restoration, purge and  *)
(* items edits, which are statements committed one by one.                  *)
(*                                                                          *)
(* A transaction's writes are applied when it commits.  Until then it holds *)
(* PostgreSQL's locks, and what those make others wait for is in the guards:*)
(* the row of an item it updated, the unique index entry of a serial number *)
(* it inserted, and for TRUNCATE every other transaction that has read or   *)
(* written hardware_units.                                                  *)
(***************************************************************************)
EXTENDS Integers, FiniteSets, TLC

CONSTANTS Units,    \* ids of hardware_units rows
          NoUnit,
          Serials,  \* serial numbers
          NoSerial,
          Items,    \* items rows
          NoItem,
          Slots,    \* requests the server handles at the same time
          MaxQty,   \* bound: the largest quantity an administrator enters
          MaxPurges \* bound: no purge is asked for once so many happened

ASSUME UnitsAssumption == IsFiniteSet(Units) /\ NoUnit \notin Units
ASSUME ItemsAssumption == NoItem \notin Items
ASSUME SerialsAssumption == NoSerial \notin Serials
ASSUME BoundsAssumption == MaxQty \in Nat /\ MaxPurges \in Nat

VARIABLES
  unit,    \* hardware_units: serial number, item and status of each row
  item,    \* items: whether each row is there, is active, and its quantity
  req,     \* the request each slot is serving
  book,    \* history: what administrators entered, as corrected by edits
  purged,  \* history: purged units of each item
  crossed, \* history: the slots whose wipe a creation or purge overlapped
  torn     \* history: such a wipe has committed

stockVars == <<item, book, purged>>
historyVars == <<crossed, torn>>
unitVars == <<unit, item, req, book, purged, crossed, torn>>

-----------------------------------------------------------------------------
(* Rows.                                                                    *)

Statuses == {"active", "retired", "defective"}
UnitRows == [here : BOOLEAN, serial : Serials \cup {NoSerial}, item : Items \cup {NoItem},
             status : Statuses]
UnitRow(s, i) == [here |-> TRUE, serial |-> s, item |-> i, status |-> "active"]
NoRow == [here |-> FALSE, serial |-> NoSerial, item |-> NoItem, status |-> "active"]

UnitsOf(i) == {u \in Units : unit[u].here /\ unit[u].item = i}
SerialInUse(s) == \E u \in Units : unit[u].here /\ unit[u].serial = s

(* Request slots: what a handler carries from one statement to the next.    *)
(* `replaces' is the defective unit a replacement is created for, `counted' *)
(* the units per item a wipe found.                                         *)

CreateSteps == {"create.claim", "create.insert", "create.commit"}
WipeSteps == {"wipe.lock", "wipe.truncate"}
UnitSteps == CreateSteps \cup WipeSteps \cup {"purge.delete"}

Requests(steps) ==
  [at : steps, unit : Units \cup {NoUnit}, serial : Serials \cup {NoSerial},
   item : Items \cup {NoItem}, replaces : Units \cup {NoUnit},
   counted : [Items -> Nat]]

NoneCounted == [i \in Items |-> 0]
Creating(step, s, i, d) ==
  [at |-> step, unit |-> NoUnit, serial |-> s, item |-> i, replaces |-> d,
   counted |-> NoneCounted]
NoRequest == Creating("idle", NoSerial, NoItem, NoUnit)
Serving(step, u) == [NoRequest EXCEPT !.at = step, !.unit = u]

Begin(p, r) == req[p].at = "idle" /\ req' = [req EXCEPT ![p] = r]
Goto(p, step) == req' = [req EXCEPT ![p].at = step]
Finish(p) == req' = [req EXCEPT ![p] = NoRequest]

\* The request is cut short, its statement fails, or PostgreSQL chooses its
\* transaction to break a deadlock: a transaction not yet committed is undone.
Abort(p) ==
  /\ req[p].at # "idle"
  /\ Finish(p)
  /\ crossed' = crossed \ {p}
  /\ UNCHANGED <<unit, stockVars, torn>>

-----------------------------------------------------------------------------
(* Locks.                                                                   *)

HoldsItem(p, i) ==
  \/ req[p].at \in {"create.insert", "create.commit"} /\ req[p].item = i
  \/ req[p].at = "wipe.truncate" /\ req[p].counted[i] > 0

ItemFree(p, i) == \A q \in Slots \ {p} : ~HoldsItem(q, i)

InsertsSerial(p, s) == req[p].at = "create.commit" /\ req[p].serial = s

Wiping == {p \in Slots : req[p].at \in WipeSteps}

\* An id nobody refers to: gen_random_uuid() gives no id twice.
Fresh(u) == ~unit[u].here /\ \A p \in Slots : u \notin {req[p].unit, req[p].replaces}

-----------------------------------------------------------------------------
(* CreateUnit: claim one of the item's stock, insert the row, commit.       *)

CreateUnit(p, s, i) ==
  /\ Begin(p, Creating(IF i = NoItem THEN "create.insert" ELSE "create.claim",
                       s, i, NoUnit))
  /\ UNCHANGED <<unit, stockVars, historyVars>>

\* The UPDATE finds no row with stock left: ErrInsufficientItemQty.
ClaimRefused(p) ==
  /\ req[p].at = "create.claim"
  /\ ~item[req[p].item].here \/ item[req[p].item].qty = 0
  /\ Finish(p)
  /\ UNCHANGED <<unit, stockVars, historyVars>>

\* Mutant: the item is read first, and written whoever holds its row.
ClaimUnlocked(p) ==
  /\ req[p].at = "create.claim"
  /\ item[req[p].item].qty > 0
  /\ Goto(p, "create.insert")
  /\ UNCHANGED <<unit, stockVars, historyVars>>

Claim(p) ==
  /\ req[p].at = "create.claim"
  /\ item[req[p].item].qty > 0
  /\ ItemFree(p, req[p].item)
  /\ Goto(p, "create.insert")
  /\ UNCHANGED <<unit, stockVars, historyVars>>

\* ErrSerialNumberInUse: the unique index refuses the row and the claim is
\* rolled back.
InsertRefused(p) ==
  /\ req[p].at = "create.insert"
  /\ SerialInUse(req[p].serial)
  /\ Finish(p)
  /\ UNCHANGED <<unit, stockVars, historyVars>>

Insert(p) ==
  /\ req[p].at = "create.insert"
  /\ ~SerialInUse(req[p].serial)
  /\ \A q \in Slots : ~InsertsSerial(q, req[p].serial)
  /\ \E u \in Units :
       /\ Fresh(u)
       /\ req' = [req EXCEPT ![p].at = "create.commit", ![p].unit = u]
  /\ UNCHANGED <<unit, stockVars, historyVars>>

CreateCommit(p) ==
  LET r == req[p] IN
  /\ r.at = "create.commit"
  /\ unit' = [unit EXCEPT ![r.unit] = UnitRow(r.serial, r.item)]
  /\ item' = IF r.item = NoItem THEN item ELSE [item EXCEPT ![r.item].qty = @ - 1]
  /\ crossed' = crossed \cup Wiping
  /\ IF r.replaces = NoUnit THEN Finish(p) ELSE Goto(p, "replace.link")
  /\ UNCHANGED <<book, purged, torn>>

-----------------------------------------------------------------------------
(* One-statement changes of a unit.                                         *)

SetStatus(u, s) ==
  unit' = IF unit[u].here THEN [unit EXCEPT ![u].status = s] ELSE unit

Retire(u) == SetStatus(u, "retired")
Restore(u) == SetStatus(u, "active")

DeleteUnit(u) == Retire(u) /\ UNCHANGED <<stockVars, req, historyVars>>
RestoreUnit(u) == Restore(u) /\ UNCHANGED <<stockVars, req, historyVars>>

\* ErrNotFound, and ErrSerialNumberInUse from the unique index, which waits
\* for an insertion not yet committed.
SerialFree(u, s) ==
  /\ \A v \in Units \ {u} : ~(unit[v].here /\ unit[v].serial = s)
  /\ \A p \in Slots : ~InsertsSerial(p, s)

UpdateUnitIdentity(u, s) ==
  /\ unit[u].here
  /\ SerialFree(u, s)
  /\ unit' = [unit EXCEPT ![u].serial = s]
  /\ UNCHANGED <<stockVars, req, historyVars>>

(* PurgeUnit: read the status, then DELETE ... AND status = 'retired'.      *)

MayPurge(u) == unit[u].here /\ unit[u].status = "retired"

PurgeUnit(p, u) ==
  /\ MayPurge(u)
  /\ Begin(p, Serving("purge.delete", u))
  /\ UNCHANGED <<unit, stockVars, historyVars>>

\* Mutant: the DELETE relies on the status read before.
StillRetiredUnchecked(u) == unit[u].here

StillRetired(u) == unit[u].here /\ unit[u].status = "retired"

\* `free' is whether no row of a table without ON DELETE CASCADE names the
\* unit; if one does the DELETE fails.
PurgeDelete(p, free) ==
  LET u == req[p].unit IN
  /\ req[p].at = "purge.delete"
  /\ IF StillRetired(u) /\ free
     THEN /\ unit' = [unit EXCEPT ![u] = NoRow]
          /\ purged' = [i \in Items |-> IF unit[u].item = i THEN purged[i] + 1
                                                            ELSE purged[i]]
          /\ crossed' = crossed \cup Wiping
     ELSE UNCHANGED <<unit, purged, crossed>>
  /\ Finish(p)
  /\ UNCHANGED <<item, book, torn>>

-----------------------------------------------------------------------------
(* The items master file: statements of administrators, each on its own.    *)

CreateItem(i, q) ==
  /\ ~item[i].here
  /\ item' = [item EXCEPT ![i] = [here |-> TRUE, active |-> TRUE, qty |-> q]]
  /\ book' = [book EXCEPT ![i] = q]
  /\ UNCHANGED <<unit, purged, req, historyVars>>

\* The form sends the whole row, the quantity the page loaded included.
UpdateItem(i, q) ==
  /\ item[i].here
  /\ \A p \in Slots : ~HoldsItem(p, i)
  /\ item' = [item EXCEPT ![i].qty = q]
  /\ book' = [book EXCEPT ![i] = @ + (q - item[i].qty)]
  /\ UNCHANGED <<unit, purged, req, historyVars>>

setActive(i, active) ==
  /\ item[i].here
  /\ \A p \in Slots : ~HoldsItem(p, i)
  /\ item' = [item EXCEPT ![i].active = active]
  /\ UNCHANGED <<unit, book, purged, req, historyVars>>

Deactivate(i) == setActive(i, FALSE)
Reactivate(i) == setActive(i, TRUE)

-----------------------------------------------------------------------------
(* WipeAll: give the items their stock back, truncate, commit.              *)

\* The UPDATE's subquery counts the committed units per item.
Consumed == [i \in Items |-> Cardinality(UnitsOf(i))]

WipeAll(p) ==
  /\ Begin(p, [NoRequest EXCEPT !.at = "wipe.lock", !.counted = Consumed])
  /\ UNCHANGED <<unit, stockVars, historyVars>>

\* It waits for the rows of the items to change and sees their new quantity,
\* but does not count again.
WipeLock(p) ==
  /\ req[p].at = "wipe.lock"
  /\ \A i \in Items : req[p].counted[i] > 0 => ItemFree(p, i)
  /\ Goto(p, "wipe.truncate")
  /\ UNCHANGED <<unit, stockVars, historyVars>>

\* Mutant: a second wipe does not wait for the first one's reads.
TableFreeOfInserts(p) == \A q \in Slots \ {p} : req[q].at # "create.commit"

\* TRUNCATE's lock excludes uncommitted inserts and other wipes' reads.
TableFree(p) ==
  \A q \in Slots \ {p} : req[q].at \notin {"create.commit"} \cup WipeSteps

\* Mutant: nothing is given back.
GivenBackNothing(r, i) == item[i].qty

GivenBack(r, i) == item[i].qty + r.counted[i]

\* TRUNCATE and commit.
WipeTruncate(p) ==
  /\ req[p].at = "wipe.truncate"
  /\ TableFree(p)
  /\ unit' = [u \in Units |-> NoRow]
  /\ item' = [i \in Items |-> [item[i] EXCEPT !.qty = GivenBack(req[p], i)]]
  /\ torn' = (torn \/ p \in crossed)
  /\ crossed' = crossed \ {p}
  /\ Finish(p)
  /\ UNCHANGED <<book, purged>>

-----------------------------------------------------------------------------
Init ==
  /\ unit = [u \in Units |-> NoRow]
  /\ item = [i \in Items |-> [here |-> FALSE, active |-> FALSE, qty |-> 0]]
  /\ req = [p \in Slots |-> NoRequest]
  /\ book = NoneCounted /\ purged = NoneCounted
  /\ crossed = {} /\ torn = FALSE

UnitNext ==
  \/ \E p \in Slots :
       \/ \E s \in Serials, i \in Items \cup {NoItem} : CreateUnit(p, s, i)
       \/ ClaimRefused(p) \/ Claim(p)
       \/ InsertRefused(p) \/ Insert(p) \/ CreateCommit(p)
       \/ (\A i \in Items : purged[i] < MaxPurges) /\ \E u \in Units : PurgeUnit(p, u)
       \/ \E free \in BOOLEAN : PurgeDelete(p, free)
       \/ ~torn /\ WipeAll(p)   \* bound: one torn wipe
       \/ WipeLock(p) \/ WipeTruncate(p)
       \/ Abort(p)
  \/ \E u \in Units : DeleteUnit(u) \/ RestoreUnit(u)
  \/ \E u \in Units, s \in Serials : UpdateUnitIdentity(u, s)
  \/ \E i \in Items, q \in 0 .. MaxQty : CreateItem(i, q) \/ UpdateItem(i, q)
  \/ \E i \in Items : Deactivate(i) \/ Reactivate(i)

Spec == Init /\ [][UnitNext]_unitVars

Alike == Permutations(Units) \cup Permutations(Serials) \cup Permutations(Slots)

-----------------------------------------------------------------------------
(* Properties.                                                              *)

ItemRows == [here : BOOLEAN, active : BOOLEAN, qty : Nat]

\* The tables and slots hold what their columns allow; in particular no
\* quantity is ever negative, which only the row lock of the claim ensures.
TypeOK ==
  /\ unit \in [Units -> UnitRows]
  /\ item \in [Items -> ItemRows]
  /\ req \in [Slots -> Requests({"idle"} \cup UnitSteps)]
  /\ book \in [Items -> Int] /\ purged \in [Items -> Nat]
  /\ crossed \subseteq Slots /\ torn \in BOOLEAN

\* Stock is neither lost nor invented by creations, refusals, rollbacks,
\* purges and wipes, until a wipe commits that a creation or purge overlapped
\* (service.go of datamanagement counts first and truncates later).
StockConserved ==
  ~torn => \A i \in Items :
             item[i].qty + Cardinality(UnitsOf(i)) + purged[i] = book[i]

\* Every step, overlapping wipes included, is one the stock ledger allows:
\* nothing is created without stock and nothing is given back twice.
Ledger == INSTANCE StockLedger WITH
  onHand <- [i \in Items |-> item[i].qty],
  inUse <- Consumed,
  supplied <- book

ImplementsStockLedger == Ledger!Spec
=============================================================================
