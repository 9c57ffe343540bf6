------------------------- MODULE HardwareUnits_proofs -------------------------
(***************************************************************************)
(* The stock of the items, for any set of units, items, serial numbers and  *)
(* overlapping requests, any quantities and any number of purges: types,    *)
(* conservation, and that every step is one the stock ledger allows; then   *)
(* the defect reports and replacements of Defects, as generally.            *)
(***************************************************************************)
EXTENDS Defects, FiniteSetTheorems, TLAPS

Steps == {"idle"} \cup UnitSteps

\* A request with the lock of item i's row.
Holding(r, i) ==
  \/ r.at \in {"create.insert", "create.commit"} /\ r.item = i
  \/ r.at = "wipe.truncate" /\ r.counted[i] > 0

RequestOK(r) ==
  /\ r \in Requests(Steps) /\ r.replaces = NoUnit
  /\ r.at = "create.claim" => r.item \in Items
  /\ r.at = "create.commit" => r.unit \in Units /\ ~unit[r.unit].here
  /\ r.at = "purge.delete" => r.unit \in Units

\* What a creation claimed is still there when it commits.
ClaimBacked(r) ==
  r.at \in {"create.insert", "create.commit"} /\ r.item # NoItem => item[r.item].qty > 0

\* A wipe gives back no more than is missing, and what is missing when no
\* creation or purge overlapped it.
CountOK(r, overlapped) ==
  r.at \in WipeSteps =>
    /\ \A i \in Items : item[i].qty + r.counted[i] <= book[i]
    /\ overlapped \/ r.counted = Consumed

SlotsOK ==
  /\ req = [p \in Slots |-> req[p]]
  /\ \A p \in Slots : /\ RequestOK(req[p]) /\ ClaimBacked(req[p])
                      /\ CountOK(req[p], p \in crossed)

\* Locks and the ids of new rows are each one request's.
Apart ==
  \A p, q \in Slots : p # q =>
    /\ \A i \in Items : ~(Holding(req[p], i) /\ Holding(req[q], i))
    /\ ~(req[p].at = "create.commit" /\ req[q].at = "create.commit" /\ req[p].unit = req[q].unit)

RowsOK ==
  /\ unit \in [Units -> UnitRows] /\ item \in [Items -> ItemRows]
  /\ book \in [Items -> Int] /\ purged \in [Items -> Nat]
  /\ crossed \subseteq Slots /\ torn \in BOOLEAN

BooksOK ==
  \A i \in Items :
    /\ ~item[i].here => item[i].qty = 0 /\ book[i] = 0
    /\ item[i].qty + Cardinality(UnitsOf(i)) <= book[i]

IInv == RowsOK /\ SlotsOK /\ Apart /\ BooksOK /\ StockConserved

LEMMA IInvTypes == IInv => TypeOK
BY DEF IInv, RowsOK, SlotsOK, RequestOK, TypeOK, Steps

LEMMA UnitsFinite ==
  \A i \in Items : IsFiniteSet(UnitsOf(i)) /\ Cardinality(UnitsOf(i)) \in Nat
<1> TAKE i \in Items
<1>1. UnitsOf(i) \subseteq Units /\ IsFiniteSet(Units)
  BY UnitsAssumption DEF UnitsOf
<1>2. QED BY <1>1, FS_Subset, FS_CardinalityType

LEMMA ConsumedType == Consumed \in [Items -> Nat]
BY UnitsFinite DEF Consumed

\* No lock, claim or count depends on anything but the request and the tables.
LEMMA NoRequestOK ==
  /\ RequestOK(NoRequest) /\ ClaimBacked(NoRequest) /\ NoRequest.at = "idle"
  /\ \A i \in Items : ~Holding(NoRequest, i)
<1>1. /\ NoRequest \in Requests(Steps) /\ NoRequest.at = "idle" /\ NoRequest.replaces = NoUnit
  BY DEF NoRequest, Creating, Requests, Steps, NoneCounted
<1>2. QED BY <1>1 DEF RequestOK, ClaimBacked, Holding

-----------------------------------------------------------------------------
(* Steps of one request that change no table.                               *)

LEMMA QuietStep ==
  ASSUME IInv, NEW p \in Slots, NEW r, req' = [req EXCEPT ![p] = r],
         UNCHANGED <<unit, stockVars, torn>>,
         crossed' \subseteq crossed, crossed \ {p} \subseteq crossed',
         RequestOK(r), ClaimBacked(r), CountOK(r, p \in crossed'),
         \A i \in Items : Holding(r, i) => \A q \in Slots \ {p} : ~Holding(req[q], i),
         r.at = "create.commit" => \A q \in Slots \ {p} : req[q].unit # r.unit
  PROVE  IInv'
<1>1. \A q \in Slots : req'[q] = IF q = p THEN r ELSE req[q]
  BY DEF IInv, SlotsOK
<1>2. UNCHANGED <<unit, item, book, purged, torn>>
  BY DEF stockVars
<1>3. RowsOK' /\ BooksOK' /\ StockConserved'
  BY <1>2 DEF IInv, RowsOK, BooksOK, StockConserved, UnitsOf
<1>4. SlotsOK'
  <2>1. req' = [q \in Slots |-> req'[q]]
    BY DEF IInv, SlotsOK
  <2>2. ASSUME NEW q \in Slots
        PROVE  RequestOK(req[q])' /\ ClaimBacked(req[q])'
    BY <1>1, <1>2 DEF IInv, SlotsOK, RequestOK, ClaimBacked
  <2>3. ASSUME NEW q \in Slots PROVE CountOK(req[q], q \in crossed)'
    <3>1. CASE q = p
      BY <1>1, <1>2, <3>1 DEF CountOK, Consumed, UnitsOf
    <3>2. CASE q # p
      BY <1>1, <1>2, <3>2 DEF IInv, SlotsOK, CountOK, Consumed, UnitsOf
    <3>3. QED BY <3>1, <3>2
  <2>4. QED BY <2>1, <2>2, <2>3 DEF SlotsOK
<1>5. Apart'
  <2> SUFFICES ASSUME NEW a \in Slots, NEW b \in Slots, a # b
               PROVE  /\ \A i \in Items : ~(Holding(req'[a], i) /\ Holding(req'[b], i))
                      /\ ~(req'[a].at = "create.commit" /\ req'[b].at = "create.commit"
                             /\ req'[a].unit = req'[b].unit)
    BY DEF Apart, Holding
  <2>1. CASE a # p /\ b # p
    BY <1>1, <2>1 DEF IInv, Apart
  <2>2. CASE a = p \/ b = p
    BY <1>1, <2>2
  <2>3. QED BY <2>1, <2>2
<1>6. QED BY <1>3, <1>4, <1>5 DEF IInv

LEMMA Finishes ==
  ASSUME IInv, NEW p \in Slots, Finish(p), UNCHANGED <<unit, stockVars, torn>>,
         crossed' \subseteq crossed, crossed \ {p} \subseteq crossed'
  PROVE  IInv'
<1>1. CountOK(NoRequest, p \in crossed')
  BY NoRequestOK DEF CountOK, WipeSteps
<1>2. "idle" # "create.commit"
  OBVIOUS
<1>3. QED BY <1>1, <1>2, NoRequestOK, QuietStep DEF Finish

\* What a slot serves, in detail.
LEMMA SlotTyped ==
  ASSUME IInv, NEW p \in Slots
  PROVE  /\ RequestOK(req[p]) /\ ClaimBacked(req[p]) /\ CountOK(req[p], p \in crossed)
         /\ req[p].at \in Steps /\ req[p].unit \in Units \cup {NoUnit}
         /\ req[p].serial \in Serials \cup {NoSerial} /\ req[p].item \in Items \cup {NoItem}
         /\ req[p].counted \in [Items -> Nat]
BY DEF IInv, SlotsOK, RequestOK, Requests

LEMMA HoldsItemIs == \A p \in Slots, i \in Items : HoldsItem(p, i) <=> Holding(req[p], i)
BY DEF HoldsItem, Holding

LEMMA ClaimSteps ==
  ASSUME IInv, NEW p \in Slots,
         \/ \E s \in Serials, i \in Items \cup {NoItem} : CreateUnit(p, s, i)
         \/ ClaimRefused(p) \/ Claim(p) \/ InsertRefused(p) \/ Insert(p)
  PROVE  IInv'
<1> USE DEF historyVars
<1>1. ASSUME NEW s \in Serials, NEW i \in Items \cup {NoItem}, CreateUnit(p, s, i) PROVE IInv'
  <2> DEFINE r == Creating(IF i = NoItem THEN "create.insert" ELSE "create.claim", s, i, NoUnit)
  <2>1. r \in Requests(Steps)
    BY DEF Creating, Requests, Steps, UnitSteps, CreateSteps, NoneCounted
  <2>2. /\ r.at = IF i = NoItem THEN "create.insert" ELSE "create.claim"
        /\ r.item = i /\ r.replaces = NoUnit
    BY DEF Creating
  <2>3. req' = [req EXCEPT ![p] = r] /\ UNCHANGED <<unit, stockVars, historyVars>>
    BY <1>1 DEF CreateUnit, Begin
  <2> HIDE DEF r
  <2>4. RequestOK(r) /\ ClaimBacked(r) /\ r.at # "create.commit"
    BY <2>1, <2>2 DEF RequestOK, ClaimBacked
  <2>5. CountOK(r, p \in crossed')
    BY <2>2 DEF CountOK, WipeSteps
  <2>6. \A j \in Items : ~Holding(r, j)
    BY <2>2, ItemsAssumption DEF Holding
  <2>7. QED BY <2>3, <2>4, <2>5, <2>6, QuietStep
<1>2. CASE ClaimRefused(p) \/ InsertRefused(p)
  BY <1>2, Finishes DEF ClaimRefused, InsertRefused
<1>3. CASE Claim(p)
  <2> DEFINE r == [req[p] EXCEPT !.at = "create.insert"]
  <2>1. req[p].item \in Items /\ item[req[p].item].qty > 0
    BY <1>3, SlotTyped DEF Claim, RequestOK
  <2>2. r \in Requests(Steps)
    BY SlotTyped DEF RequestOK, Requests, Steps, UnitSteps, CreateSteps
  <2>3. r.at = "create.insert" /\ r.item = req[p].item /\ r.replaces = NoUnit
    BY SlotTyped DEF RequestOK, Requests
  <2>4. req' = [req EXCEPT ![p] = r] /\ UNCHANGED <<unit, stockVars, historyVars>>
    BY <1>3 DEF Claim, Goto
  <2>5. \A q \in Slots \ {p} : ~Holding(req[q], req[p].item)
    BY <1>3, <2>1, HoldsItemIs DEF Claim, ItemFree
  <2> HIDE DEF r
  <2>6. RequestOK(r) /\ ClaimBacked(r) /\ CountOK(r, p \in crossed')
    BY <2>1, <2>2, <2>3 DEF RequestOK, ClaimBacked, CountOK, WipeSteps
  <2>7. \A i \in Items : Holding(r, i) => \A q \in Slots \ {p} : ~Holding(req[q], i)
    BY <2>3, <2>5 DEF Holding
  <2>8. r.at # "create.commit"
    BY <2>3
  <2>9. QED BY <2>4, <2>6, <2>7, <2>8, QuietStep
<1>4. CASE Insert(p)
  <2>1. PICK u \in Units :
          Fresh(u) /\ req' = [req EXCEPT ![p].at = "create.commit", ![p].unit = u]
    BY <1>4 DEF Insert
  <2> DEFINE r == [req[p] EXCEPT !.at = "create.commit", !.unit = u]
  <2>2. req' = [req EXCEPT ![p] = r]
    BY <2>1 DEF IInv, SlotsOK, RequestOK, Requests
  <2>3. UNCHANGED <<unit, stockVars, historyVars>> /\ req[p].at = "create.insert"
    BY <1>4 DEF Insert
  <2>4. r \in Requests(Steps)
    BY SlotTyped DEF RequestOK, Requests, Steps, UnitSteps, CreateSteps
  <2>5. /\ r.at = "create.commit" /\ r.item = req[p].item /\ r.replaces = NoUnit /\ r.unit = u
    BY SlotTyped DEF RequestOK, Requests
  <2>6. ~unit[u].here /\ \A q \in Slots : req[q].unit # u
    BY <2>1 DEF Fresh
  <2> HIDE DEF r
  <2>7. RequestOK(r) /\ CountOK(r, p \in crossed')
    BY <2>4, <2>5, <2>6 DEF RequestOK, CountOK, WipeSteps
  <2>8. ClaimBacked(r)
    BY <2>3, <2>5, SlotTyped DEF ClaimBacked
  <2>9. \A i \in Items : Holding(r, i) => \A q \in Slots \ {p} : ~Holding(req[q], i)
    <3> SUFFICES ASSUME NEW i \in Items, Holding(r, i), NEW q \in Slots \ {p}
                 PROVE  ~Holding(req[q], i)
      OBVIOUS
    <3>1. Holding(req[p], i)
      BY <2>3, <2>5 DEF Holding
    <3>2. QED BY <3>1 DEF IInv, Apart
  <2>10. r.at = "create.commit" => \A q \in Slots \ {p} : req[q].unit # r.unit
    BY <2>5, <2>6
  <2>11. QED BY <2>2, <2>3, <2>7, <2>8, <2>9, <2>10, QuietStep
<1>5. QED BY <1>1, <1>2, <1>3, <1>4

LEMMA OtherSteps ==
  ASSUME IInv, NEW p \in Slots,
         \/ \E u \in Units : PurgeUnit(p, u)
         \/ WipeAll(p) \/ WipeLock(p) \/ Abort(p)
  PROVE  IInv'
<1> USE DEF historyVars
<1>1. ASSUME NEW u \in Units, PurgeUnit(p, u) PROVE IInv'
  <2> DEFINE r == Serving("purge.delete", u)
  <2>1. r \in Requests(Steps) /\ r.at = "purge.delete" /\ r.unit = u /\ r.replaces = NoUnit
    BY DEF Serving, NoRequest, Creating, Requests, Steps, UnitSteps, NoneCounted
  <2>2. req' = [req EXCEPT ![p] = r] /\ UNCHANGED <<unit, stockVars, historyVars>>
    BY <1>1 DEF PurgeUnit, Begin
  <2> HIDE DEF r
  <2>3. RequestOK(r) /\ ClaimBacked(r) /\ CountOK(r, p \in crossed') /\ r.at # "create.commit"
    BY <2>1 DEF RequestOK, ClaimBacked, CountOK, WipeSteps
  <2>4. \A i \in Items : ~Holding(r, i)
    BY <2>1 DEF Holding
  <2>5. QED BY <2>2, <2>3, <2>4, QuietStep
<1>2. CASE WipeAll(p)
  <2> DEFINE r == [NoRequest EXCEPT !.at = "wipe.lock", !.counted = Consumed]
  <2>1. /\ r \in Requests(Steps) /\ r.at = "wipe.lock" /\ r.replaces = NoUnit
        /\ r.counted = Consumed
    BY ConsumedType DEF NoRequest, Creating, Requests, Steps, UnitSteps, WipeSteps, NoneCounted
  <2>2. req' = [req EXCEPT ![p] = r] /\ UNCHANGED <<unit, stockVars, historyVars>>
    BY <1>2 DEF WipeAll, Begin
  <2> HIDE DEF r
  <2>3. RequestOK(r) /\ ClaimBacked(r) /\ r.at # "create.commit"
    BY <2>1 DEF RequestOK, ClaimBacked
  <2>4. CountOK(r, p \in crossed')
    BY <2>1 DEF CountOK, Consumed, IInv, BooksOK
  <2>5. \A i \in Items : ~Holding(r, i)
    BY <2>1 DEF Holding
  <2>6. QED BY <2>2, <2>3, <2>4, <2>5, QuietStep
<1>3. CASE WipeLock(p)
  <2> DEFINE r == [req[p] EXCEPT !.at = "wipe.truncate"]
  <2>1. r \in Requests(Steps) /\ r.at = "wipe.truncate" /\ r.replaces = NoUnit
        /\ r.counted = req[p].counted
    BY SlotTyped DEF RequestOK, Requests, Steps, UnitSteps, WipeSteps
  <2>2. req' = [req EXCEPT ![p] = r] /\ UNCHANGED <<unit, stockVars, historyVars>>
    BY <1>3 DEF WipeLock, Goto
  <2> HIDE DEF r
  <2>3. RequestOK(r) /\ ClaimBacked(r) /\ r.at # "create.commit"
    BY <2>1 DEF RequestOK, ClaimBacked
  <2>4. CountOK(r, p \in crossed')
    BY <1>3, <2>1, <2>2, SlotTyped DEF CountOK, WipeLock, WipeSteps
  <2>5. \A i \in Items : Holding(r, i) => \A q \in Slots \ {p} : ~Holding(req[q], i)
    BY <1>3, <2>1, HoldsItemIs DEF Holding, WipeLock, ItemFree
  <2>6. QED BY <2>2, <2>3, <2>4, <2>5, QuietStep
<1>4. CASE Abort(p)
  BY <1>4, Finishes DEF Abort
<1>5. QED BY <1>1, <1>2, <1>3, <1>4

-----------------------------------------------------------------------------
(* Statements on units and items.                                           *)

\* A unit keeps its place and item; nothing of the stock moves.
LEMMA UnitEdited ==
  ASSUME IInv, unit' \in [Units -> UnitRows],
         \A u \in Units : unit'[u].here = unit[u].here /\ unit'[u].item = unit[u].item,
         UNCHANGED <<stockVars, req, historyVars>>
  PROVE  IInv'
<1>1. UNCHANGED <<item, req, book, purged, crossed, torn>>
  BY DEF stockVars, historyVars
<1>2. \A i \in Items : UnitsOf(i)' = UnitsOf(i)
  BY DEF UnitsOf
<1>3. Consumed' = Consumed
  BY <1>2 DEF Consumed
<1>4. SlotsOK' /\ Apart'
  BY <1>1, <1>3 DEF IInv, SlotsOK, Apart, RequestOK, ClaimBacked, CountOK, Holding
<1>5. RowsOK' /\ BooksOK' /\ StockConserved'
  BY <1>1, <1>2 DEF IInv, RowsOK, BooksOK, StockConserved
<1>6. QED BY <1>4, <1>5 DEF IInv

LEMMA UnitStatements ==
  ASSUME IInv, NEW u \in Units,
         DeleteUnit(u) \/ RestoreUnit(u) \/ \E s \in Serials : UpdateUnitIdentity(u, s)
  PROVE  IInv'
<1>1. unit \in [Units -> UnitRows]
  BY DEF IInv, RowsOK
<1>2. ASSUME NEW s \in Statuses, SetStatus(u, s), UNCHANGED <<stockVars, req, historyVars>>
      PROVE  IInv'
  <2>1. /\ unit' \in [Units -> UnitRows]
        /\ \A v \in Units : unit'[v].here = unit[v].here /\ unit'[v].item = unit[v].item
    BY <1>1, <1>2 DEF SetStatus, UnitRows
  <2>2. QED BY <1>2, <2>1, UnitEdited
<1>3. CASE DeleteUnit(u) \/ RestoreUnit(u)
  BY <1>2, <1>3 DEF DeleteUnit, RestoreUnit, Retire, Restore, Statuses
<1>4. ASSUME NEW s \in Serials, UpdateUnitIdentity(u, s) PROVE IInv'
  <2>1. unit' = [unit EXCEPT ![u].serial = s] /\ UNCHANGED <<stockVars, req, historyVars>>
    BY <1>4 DEF UpdateUnitIdentity
  <2>2. /\ unit' \in [Units -> UnitRows]
        /\ \A v \in Units : unit'[v].here = unit[v].here /\ unit'[v].item = unit[v].item
    BY <1>1, <2>1 DEF UnitRows
  <2>3. QED BY <2>1, <2>2, UnitEdited
<1>5. QED BY <1>3, <1>4

\* One item's quantity is entered or corrected while no request has its lock: the
\* books move by as much.
LEMMA ItemEdited ==
  ASSUME IInv, NEW i \in Items, NEW row \in ItemRows, NEW n \in Int, row.here,
         item' = [item EXCEPT ![i] = row], book' = [book EXCEPT ![i] = n],
         n - row.qty = book[i] - item[i].qty,
         \A p \in Slots : ~HoldsItem(p, i),
         UNCHANGED <<unit, purged, req, historyVars>>
  PROVE  IInv'
<1>1. UNCHANGED <<unit, purged, req, crossed, torn>>
  BY DEF historyVars
<1>2. /\ \A j \in Items : item'[j] = IF j = i THEN row ELSE item[j]
      /\ \A j \in Items : book'[j] = IF j = i THEN n ELSE book[j]
  BY DEF IInv, RowsOK
<1>3. RowsOK'
  BY <1>1 DEF IInv, RowsOK
<1>4. \A j \in Items : UnitsOf(j)' = UnitsOf(j)
  BY <1>1 DEF UnitsOf
<1>5. Consumed' = Consumed
  BY <1>4 DEF Consumed
<1>6. \A j \in Items : /\ item[j].qty \in Nat /\ book[j] \in Int /\ purged[j] \in Nat
                       /\ item'[j].qty \in Nat /\ book'[j] \in Int
                       /\ book'[j] - item'[j].qty = book[j] - item[j].qty
  BY <1>2 DEF IInv, RowsOK, ItemRows
<1>7. BooksOK'
  <2> SUFFICES ASSUME NEW j \in Items
               PROVE  /\ ~item'[j].here => item'[j].qty = 0 /\ book'[j] = 0
                      /\ item'[j].qty + Cardinality(UnitsOf(j)) <= book'[j]
    BY <1>4 DEF BooksOK
  <2>1. Cardinality(UnitsOf(j)) \in Nat
    BY UnitsFinite
  <2>2. item[j].qty + Cardinality(UnitsOf(j)) <= book[j]
    BY DEF IInv, BooksOK
  <2>3. item'[j].qty + Cardinality(UnitsOf(j)) <= book'[j]
    BY <1>6, <2>1, <2>2
  <2>4. ~item'[j].here => item'[j].qty = 0 /\ book'[j] = 0
    BY <1>2 DEF IInv, BooksOK
  <2>5. QED BY <2>3, <2>4
<1>8. StockConserved'
  <2> SUFFICES ASSUME ~torn, NEW j \in Items
               PROVE  item'[j].qty + Cardinality(UnitsOf(j)) + purged[j] = book'[j]
    BY <1>1, <1>4 DEF StockConserved
  <2>1. Cardinality(UnitsOf(j)) \in Nat
    BY UnitsFinite
  <2>2. item[j].qty + Cardinality(UnitsOf(j)) + purged[j] = book[j]
    BY DEF IInv, StockConserved
  <2>3. QED BY <1>6, <2>1, <2>2
<1>9. SlotsOK'
  <2> SUFFICES ASSUME NEW p \in Slots
               PROVE  RequestOK(req[p])' /\ ClaimBacked(req[p])' /\ CountOK(req[p], p \in crossed)'
    BY <1>1 DEF SlotsOK, IInv
  <2>1. RequestOK(req[p])'
    BY <1>1, SlotTyped DEF RequestOK
  <2>2. ClaimBacked(req[p])'
    <3> SUFFICES ASSUME req[p].at \in {"create.insert", "create.commit"}, req[p].item # NoItem
                 PROVE  item'[req[p].item].qty > 0
      BY <1>1 DEF ClaimBacked
    <3>1. req[p].item \in Items /\ item[req[p].item].qty > 0
      BY SlotTyped DEF ClaimBacked
    <3>2. req[p].item # i
      BY <3>1 DEF HoldsItem
    <3>3. QED BY <1>2, <3>1, <3>2
  <2>3. CountOK(req[p], p \in crossed)'
    <3> SUFFICES ASSUME req[p].at \in WipeSteps
                 PROVE  /\ \A j \in Items : item'[j].qty + req[p].counted[j] <= book'[j]
                        /\ p \in crossed \/ req[p].counted = Consumed
      BY <1>1, <1>5 DEF CountOK
    <3>1. CountOK(req[p], p \in crossed) /\ req[p].counted \in [Items -> Nat]
      BY SlotTyped
    <3>2. ASSUME NEW j \in Items PROVE item'[j].qty + req[p].counted[j] <= book'[j]
      <4>1. req[p].counted[j] \in Nat /\ item[j].qty + req[p].counted[j] <= book[j]
        BY <3>1 DEF CountOK
      <4>2. QED BY <1>6, <4>1
    <3>3. QED BY <3>1, <3>2 DEF CountOK
  <2>4. QED BY <2>1, <2>2, <2>3
<1>10. Apart'
  BY <1>1 DEF IInv, Apart, Holding
<1>11. QED BY <1>3, <1>7, <1>8, <1>9, <1>10 DEF IInv

LEMMA ItemStatements ==
  ASSUME IInv, NEW i \in Items,
         \/ \E q \in 0 .. MaxQty : CreateItem(i, q) \/ UpdateItem(i, q)
         \/ Deactivate(i) \/ Reactivate(i)
  PROVE  IInv'
<1>1. item[i] \in ItemRows /\ book[i] \in Int /\ item \in [Items -> ItemRows]
      /\ book \in [Items -> Int]
  BY DEF IInv, RowsOK
<1>2. ASSUME NEW q \in 0 .. MaxQty, CreateItem(i, q) PROVE IInv'
  <2> DEFINE row == [here |-> TRUE, active |-> TRUE, qty |-> q]
  <2>1. q \in Nat /\ q \in Int
    BY BoundsAssumption
  <2>2. row \in ItemRows /\ row.here /\ row.qty = q
    BY <2>1 DEF ItemRows
  <2>3. item' = [item EXCEPT ![i] = row] /\ book' = [book EXCEPT ![i] = q]
    BY <1>2 DEF CreateItem
  <2>4. item[i].qty = 0 /\ book[i] = 0
    BY <1>2 DEF CreateItem, IInv, BooksOK
  <2>5. \A p \in Slots : ~HoldsItem(p, i)
    <3> SUFFICES ASSUME NEW p \in Slots, Holding(req[p], i) PROVE FALSE
      BY HoldsItemIs
    <3>1. CASE req[p].at \in {"create.insert", "create.commit"} /\ req[p].item = i
      <4>1. item[i].qty > 0
        BY <3>1, ItemsAssumption, SlotTyped DEF ClaimBacked
      <4>2. QED BY <2>4, <4>1
    <3>2. CASE req[p].at = "wipe.truncate" /\ req[p].counted[i] > 0
      <4>1. req[p].counted[i] \in Nat /\ item[i].qty + req[p].counted[i] <= book[i]
        BY <3>2, SlotTyped DEF CountOK, WipeSteps
      <4>2. QED BY <2>4, <3>2, <4>1
    <3>3. QED BY <3>1, <3>2 DEF Holding
  <2>6. q - row.qty = book[i] - item[i].qty
    BY <2>1, <2>2, <2>4
  <2>7. UNCHANGED <<unit, purged, req, historyVars>>
    BY <1>2 DEF CreateItem
  <2> HIDE DEF row
  <2>8. QED BY <2>1, <2>2, <2>3, <2>5, <2>6, <2>7, ItemEdited
<1>3. ASSUME NEW q \in 0 .. MaxQty, UpdateItem(i, q) PROVE IInv'
  <2> DEFINE row == [item[i] EXCEPT !.qty = q]
  <2> DEFINE n == book[i] + (q - item[i].qty)
  <2>1. q \in Nat /\ item[i].qty \in Nat
    BY <1>1, BoundsAssumption DEF ItemRows
  <2>2. row \in ItemRows /\ row.here /\ row.qty = q
    BY <1>1, <1>3, <2>1 DEF ItemRows, UpdateItem
  <2>3. item' = [item EXCEPT ![i] = row] /\ book' = [book EXCEPT ![i] = n]
    BY <1>3 DEF UpdateItem
  <2>4. \A p \in Slots : ~HoldsItem(p, i)
    BY <1>3 DEF UpdateItem
  <2>5. n \in Int /\ n - row.qty = book[i] - item[i].qty
    BY <1>1, <2>1, <2>2
  <2>6. UNCHANGED <<unit, purged, req, historyVars>>
    BY <1>3 DEF UpdateItem
  <2> HIDE DEF row, n
  <2>7. QED BY <2>2, <2>3, <2>4, <2>5, <2>6, ItemEdited
<1>4. ASSUME NEW active \in BOOLEAN, setActive(i, active) PROVE IInv'
  <2> DEFINE row == [item[i] EXCEPT !.active = active]
  <2>1. row \in ItemRows /\ row.here /\ row.qty = item[i].qty /\ item[i].qty \in Nat
    BY <1>1, <1>4 DEF ItemRows, setActive
  <2>2. item' = [item EXCEPT ![i] = row] /\ book' = [book EXCEPT ![i] = book[i]]
    BY <1>1, <1>4 DEF setActive
  <2>3. \A p \in Slots : ~HoldsItem(p, i)
    BY <1>4 DEF setActive
  <2>4. UNCHANGED <<unit, purged, req, historyVars>>
    BY <1>4 DEF setActive
  <2>5. book[i] - row.qty = book[i] - item[i].qty
    BY <2>1
  <2> HIDE DEF row
  <2>6. QED BY <1>1, <2>1, <2>2, <2>3, <2>4, <2>5, ItemEdited
<1>5. QED BY <1>2, <1>3, <1>4 DEF Deactivate, Reactivate

-----------------------------------------------------------------------------
(* The commits: what each does to the units of an item, then the invariant. *)

\* When a slot finishes, locks and new ids are fewer.
LEMMA ApartAfter ==
  ASSUME IInv, NEW p \in Slots, Finish(p)
  PROVE  /\ Apart' /\ req' = [q \in Slots |-> req'[q]] /\ req'[p] = NoRequest
         /\ \A q \in Slots \ {p} : req'[q] = req[q]
<1>1. \A q \in Slots : req'[q] = IF q = p THEN NoRequest ELSE req[q]
  BY DEF IInv, SlotsOK, Finish
<1>2. req' = [q \in Slots |-> req'[q]]
  BY DEF IInv, SlotsOK, Finish
<1>3. \A i \in Items : ~Holding(req'[p], i)
  BY <1>1, NoRequestOK
<1>4. req'[p].at = "idle"
  BY <1>1, NoRequestOK
<1>5. Apart'
  <2> SUFFICES ASSUME NEW a \in Slots, NEW b \in Slots, a # b
               PROVE  /\ \A i \in Items : ~(Holding(req'[a], i) /\ Holding(req'[b], i))
                      /\ ~(req'[a].at = "create.commit" /\ req'[b].at = "create.commit"
                             /\ req'[a].unit = req'[b].unit)
    BY DEF Apart, Holding
  <2>1. CASE a # p /\ b # p
    BY <1>1, <2>1 DEF IInv, Apart
  <2>2. CASE a = p \/ b = p
    BY <1>3, <1>4, <2>2
  <2>3. QED BY <2>1, <2>2
<1>6. QED BY <1>1, <1>2, <1>5

LEMMA NoRequestAfter ==
  ASSUME NEW p \in Slots, req'[p] = NoRequest
  PROVE  RequestOK(req[p])' /\ ClaimBacked(req[p])' /\ CountOK(req[p], p \in crossed)'
<1>1. req'[p] \in Requests(Steps) /\ req'[p].at = "idle" /\ req'[p].replaces = NoUnit
  BY NoRequestOK DEF RequestOK
<1>2. QED BY <1>1 DEF RequestOK, ClaimBacked, CountOK, WipeSteps

\* A new unit is one more of its item's, and one less is on hand.
LEMMA CommitTakes ==
  ASSUME IInv, NEW p \in Slots, CreateCommit(p)
  PROVE  /\ Finish(p)
         /\ unit' \in [Units -> UnitRows] /\ item' \in [Items -> ItemRows]
         /\ \A u \in Units : ~unit[u].here /\ u # req[p].unit => ~unit'[u].here
         /\ \A j \in Items :
              /\ item'[j].here = item[j].here
              /\ j = req[p].item =>
                   /\ item[j].qty > 0 /\ item'[j].qty = item[j].qty - 1
                   /\ Cardinality(UnitsOf(j)') = Cardinality(UnitsOf(j)) + 1
              /\ j # req[p].item => item'[j] = item[j] /\ UnitsOf(j)' = UnitsOf(j)
<1> DEFINE r == req[p]
<1>1. /\ r.unit \in Units /\ ~unit[r.unit].here /\ r.replaces = NoUnit
      /\ r.serial \in Serials \cup {NoSerial} /\ r.item \in Items \cup {NoItem}
  BY SlotTyped DEF CreateCommit, RequestOK
<1>2. r.item # NoItem => item[r.item].qty > 0
  BY SlotTyped DEF CreateCommit, ClaimBacked
<1>3. Finish(p)
  BY <1>1 DEF CreateCommit
<1>4. /\ unit \in [Units -> UnitRows] /\ item \in [Items -> ItemRows]
  BY DEF IInv, RowsOK
<1> DEFINE row == UnitRow(r.serial, r.item)
<1>5. row \in UnitRows /\ row.here /\ row.item = r.item
  BY <1>1 DEF UnitRow, UnitRows, Statuses
<1>6. unit' = [unit EXCEPT ![r.unit] = row]
  BY DEF CreateCommit
<1>7. item' = IF r.item = NoItem THEN item ELSE [item EXCEPT ![r.item].qty = @ - 1]
  BY DEF CreateCommit
<1> HIDE DEF row
<1>8. unit' \in [Units -> UnitRows] /\ \A u \in Units : unit'[u] = IF u = r.unit THEN row ELSE unit[u]
  BY <1>1, <1>4, <1>5, <1>6
<1>9. \A i \in Items : item[i].qty \in Nat
  BY <1>4 DEF ItemRows
<1>10. item' \in [Items -> ItemRows]
  <2>1. CASE r.item = NoItem
    BY <1>4, <1>7, <2>1
  <2>2. CASE r.item # NoItem
    <3>1. r.item \in Items /\ item[r.item].qty - 1 \in Nat
      BY <1>1, <1>2, <1>9, <2>2
    <3>2. [item[r.item] EXCEPT !.qty = item[r.item].qty - 1] \in ItemRows
      BY <1>4, <3>1 DEF ItemRows
    <3>3. item' = [item EXCEPT ![r.item] = [item[r.item] EXCEPT !.qty = item[r.item].qty - 1]]
      BY <1>7, <2>2
    <3>4. QED BY <1>4, <3>1, <3>2, <3>3
  <2>3. QED BY <2>1, <2>2
<1>11. ASSUME NEW j \in Items
       PROVE  /\ item'[j].here = item[j].here
              /\ j = r.item => item[j].qty > 0 /\ item'[j].qty = item[j].qty - 1
              /\ j # r.item => item'[j] = item[j]
  BY <1>1, <1>2, <1>4, <1>7, ItemsAssumption DEF ItemRows
<1>12. ASSUME NEW j \in Items, j # r.item PROVE UnitsOf(j)' = UnitsOf(j)
  BY <1>1, <1>5, <1>8, <1>12 DEF UnitsOf
<1>13. ASSUME NEW j \in Items, j = r.item
       PROVE  Cardinality(UnitsOf(j)') = Cardinality(UnitsOf(j)) + 1
  <2> DEFINE old == UnitsOf(j)
  <2>1. PICK u \in Units : u = r.unit
    BY <1>1
  <2>2. UnitsOf(j)' = old \cup {u} /\ u \notin old
    BY <1>1, <1>5, <1>8, <1>13, <2>1 DEF UnitsOf
  <2>3. IsFiniteSet(old)
    BY UnitsFinite
  <2> HIDE DEF old
  <2>4. Cardinality(old \cup {u}) = Cardinality(old) + 1
    BY <2>2, <2>3, FS_AddElement
  <2>5. QED BY <2>2, <2>4 DEF old
<1>14. \A u \in Units : ~unit[u].here /\ u # r.unit => ~unit'[u].here
  BY <1>8
<1>15. QED BY <1>3, <1>8, <1>10, <1>11, <1>12, <1>13, <1>14

LEMMA CommitStep ==
  ASSUME IInv, NEW p \in Slots, CreateCommit(p)
  PROVE  IInv'
<1> USE CommitTakes
<1>1. UNCHANGED <<book, purged, torn>> /\ crossed' = crossed \cup Wiping
  BY DEF CreateCommit
<1>2. /\ Apart' /\ req' = [q \in Slots |-> req'[q]] /\ req'[p] = NoRequest
      /\ \A q \in Slots \ {p} : req'[q] = req[q]
  BY ApartAfter
<1>3. RowsOK'
  BY <1>1 DEF IInv, RowsOK, Wiping
<1>4. \A j \in Items : /\ item[j].qty \in Nat /\ item'[j].qty \in Nat /\ book[j] \in Int
                       /\ purged[j] \in Nat
  BY DEF IInv, RowsOK, ItemRows
<1>5. \A j \in Items : item'[j].qty <= item[j].qty
  BY <1>4
<1>6. ASSUME NEW q \in Slots \ {p}
      PROVE  RequestOK(req[q])' /\ ClaimBacked(req[q])' /\ CountOK(req[q], q \in crossed)'
  <2>1. req'[q] = req[q] /\ q \in Slots
    BY <1>2
  <2>2. RequestOK(req[q])'
    <3>1. RequestOK(req[q])
      BY SlotTyped
    <3>2. req[q].at = "create.commit" => ~unit'[req[q].unit].here
      <4>1. req[p].at = "create.commit"
        BY DEF CreateCommit
      <4>2. req[q].at = "create.commit" => req[q].unit # req[p].unit
        BY <4>1 DEF IInv, Apart
      <4>3. QED BY <3>1, <4>2 DEF RequestOK
    <3>3. QED BY <2>1, <3>1, <3>2 DEF RequestOK
  <2>3. ClaimBacked(req[q])'
    <3> SUFFICES ASSUME req[q].at \in {"create.insert", "create.commit"}, req[q].item # NoItem
                 PROVE  item'[req[q].item].qty > 0
      BY <2>1 DEF ClaimBacked
    <3>1. req[q].item \in Items /\ item[req[q].item].qty > 0
      BY SlotTyped DEF ClaimBacked
    <3>2. Holding(req[q], req[q].item)
      BY DEF Holding
    <3>3. ~Holding(req[p], req[q].item)
      BY <3>1, <3>2 DEF IInv, Apart
    <3>4. req[q].item # req[p].item
      BY <3>3 DEF Holding, CreateCommit
    <3>5. item'[req[q].item] = item[req[q].item]
      BY <3>1, <3>4
    <3>6. QED BY <3>1, <3>5
  <2>4. CountOK(req[q], q \in crossed)'
    <3> SUFFICES ASSUME req[q].at \in WipeSteps
                 PROVE  /\ \A j \in Items : item'[j].qty + req[q].counted[j] <= book[j]
                        /\ q \in crossed'
      BY <1>1, <2>1 DEF CountOK
    <3>1. q \in crossed'
      BY <1>1 DEF Wiping
    <3>2. ASSUME NEW j \in Items PROVE item'[j].qty + req[q].counted[j] <= book[j]
      <4>1. req[q].counted[j] \in Nat /\ item[j].qty + req[q].counted[j] <= book[j]
        BY SlotTyped DEF CountOK
      <4>2. QED BY <1>4, <1>5, <4>1
    <3>3. QED BY <3>1, <3>2
  <2>5. QED BY <2>2, <2>3, <2>4
<1>7. SlotsOK'
  BY <1>2, <1>6, NoRequestAfter DEF SlotsOK
<1>8. ASSUME NEW j \in Items
      PROVE  /\ item'[j].qty + Cardinality(UnitsOf(j)') = item[j].qty + Cardinality(UnitsOf(j))
             /\ ~item'[j].here => item'[j].qty = 0
  <2>1. Cardinality(UnitsOf(j)) \in Nat
    BY UnitsFinite
  <2>2. item'[j].qty + Cardinality(UnitsOf(j)') = item[j].qty + Cardinality(UnitsOf(j))
    <3>1. CASE j = req[p].item
      <4>1. /\ item'[j].qty = item[j].qty - 1
            /\ Cardinality(UnitsOf(j)') = Cardinality(UnitsOf(j)) + 1
        BY <3>1
      <4>2. QED BY <1>4, <2>1, <4>1
    <3>2. CASE j # req[p].item
      BY <3>2
    <3>3. QED BY <3>1, <3>2
  <2>3. ~item'[j].here => item'[j].qty = 0
    BY <1>4, <1>5 DEF IInv, BooksOK
  <2>4. QED BY <2>2, <2>3
<1>9. BooksOK'
  BY <1>1, <1>8 DEF IInv, BooksOK
<1>10. StockConserved'
  BY <1>1, <1>8 DEF IInv, StockConserved
<1>11. QED BY <1>2, <1>3, <1>7, <1>9, <1>10 DEF IInv

\* A purged unit is one less of its item's.
LEMMA PurgeWritesOff ==
  ASSUME IInv, NEW p \in Slots, NEW free \in BOOLEAN, PurgeDelete(p, free), ~(UNCHANGED unit)
  PROVE  /\ StillRetired(req[p].unit) /\ crossed' = crossed \cup Wiping
         /\ unit' \in [Units -> UnitRows] /\ purged' \in [Items -> Nat]
         /\ \A u \in Units : ~unit[u].here => ~unit'[u].here
         /\ \A j \in Items :
              /\ j = unit[req[p].unit].item =>
                   /\ purged'[j] = purged[j] + 1
                   /\ Cardinality(UnitsOf(j)) > 0
                   /\ Cardinality(UnitsOf(j)') = Cardinality(UnitsOf(j)) - 1
              /\ j # unit[req[p].unit].item => purged'[j] = purged[j] /\ UnitsOf(j)' = UnitsOf(j)
<1>1. PICK u \in Units : u = req[p].unit
  BY SlotTyped DEF PurgeDelete, RequestOK
<1>2. /\ StillRetired(u) /\ unit' = [unit EXCEPT ![u] = NoRow]
      /\ purged' = [i \in Items |-> IF unit[u].item = i THEN purged[i] + 1 ELSE purged[i]]
      /\ crossed' = crossed \cup Wiping
  BY <1>1 DEF PurgeDelete
<1>3. unit \in [Units -> UnitRows] /\ purged \in [Items -> Nat]
  BY DEF IInv, RowsOK
<1>4. NoRow \in UnitRows /\ ~NoRow.here
  BY DEF NoRow, UnitRows, Statuses
<1>5. unit' \in [Units -> UnitRows] /\ \A v \in Units : unit'[v] = IF v = u THEN NoRow ELSE unit[v]
  BY <1>2, <1>3, <1>4
<1>6. \A j \in Items : UnitsOf(j)' = UnitsOf(j) \ {u}
  BY <1>4, <1>5 DEF UnitsOf
<1>7. ASSUME NEW j \in Items, j # unit[u].item PROVE UnitsOf(j)' = UnitsOf(j)
  BY <1>6, <1>7 DEF UnitsOf
<1>8. ASSUME NEW j \in Items, j = unit[u].item
      PROVE  /\ Cardinality(UnitsOf(j)) > 0
             /\ Cardinality(UnitsOf(j)') = Cardinality(UnitsOf(j)) - 1
  <2> DEFINE old == UnitsOf(j)
  <2>1. u \in old
    BY <1>2, <1>8 DEF UnitsOf, StillRetired
  <2>2. IsFiniteSet(old) /\ Cardinality(old) \in Nat
    BY UnitsFinite
  <2>3. UnitsOf(j)' = old \ {u}
    BY <1>6
  <2> HIDE DEF old
  <2>4. Cardinality(old \ {u}) = Cardinality(old) - 1 /\ IsFiniteSet(old \ {u})
    BY <2>1, <2>2, FS_RemoveElement
  <2>5. Cardinality(old \ {u}) \in Nat
    BY <2>4, FS_CardinalityType
  <2>6. Cardinality(old) > 0
    BY <2>2, <2>4, <2>5
  <2>7. QED BY <2>3, <2>4, <2>6 DEF old
<1>9. purged' \in [Items -> Nat] /\ \A j \in Items :
        /\ j = unit[u].item => purged'[j] = purged[j] + 1
        /\ j # unit[u].item => purged'[j] = purged[j]
  BY <1>2, <1>3
<1>10. \A v \in Units : ~unit[v].here => ~unit'[v].here
  BY <1>4, <1>5
<1>11. QED BY <1>1, <1>2, <1>5, <1>7, <1>8, <1>9, <1>10

LEMMA PurgeStep ==
  ASSUME IInv, NEW p \in Slots, NEW free \in BOOLEAN, PurgeDelete(p, free)
  PROVE  IInv'
<1>1. Finish(p) /\ UNCHANGED <<item, book, torn>>
  BY DEF PurgeDelete
<1>2. CASE UNCHANGED unit
  <2>1. ~(StillRetired(req[p].unit) /\ free)
    <3> SUFFICES ASSUME StillRetired(req[p].unit), free PROVE FALSE
      OBVIOUS
    <3>1. req[p].unit \in Units
      BY SlotTyped DEF PurgeDelete, RequestOK
    <3>2. unit' = [unit EXCEPT ![req[p].unit] = NoRow] /\ unit \in [Units -> UnitRows]
      BY DEF PurgeDelete, IInv, RowsOK
    <3>3. ~unit'[req[p].unit].here
      BY <3>1, <3>2 DEF NoRow
    <3>4. QED BY <1>2, <3>3 DEF StillRetired
  <2>2. UNCHANGED <<purged, crossed>>
    BY <2>1 DEF PurgeDelete
  <2>3. QED BY <1>1, <1>2, <2>2, Finishes DEF stockVars
<1>3. CASE ~(UNCHANGED unit)
  <2> USE PurgeWritesOff
  <2>1. /\ Apart' /\ req' = [q \in Slots |-> req'[q]] /\ req'[p] = NoRequest
        /\ \A q \in Slots \ {p} : req'[q] = req[q]
    BY <1>1, ApartAfter
  <2>2. crossed' = crossed \cup Wiping
    BY <1>3
  <2>3. RowsOK'
    BY <1>1, <1>3, <2>2 DEF IInv, RowsOK, Wiping
  <2>4. ASSUME NEW q \in Slots \ {p}
        PROVE  RequestOK(req[q])' /\ ClaimBacked(req[q])' /\ CountOK(req[q], q \in crossed)'
    <3>1. req'[q] = req[q] /\ q \in Slots
      BY <2>1
    <3>2. RequestOK(req[q]) /\ ClaimBacked(req[q]) /\ CountOK(req[q], q \in crossed)
      BY SlotTyped
    <3>3. RequestOK(req[q])'
      BY <1>3, <3>1, <3>2 DEF RequestOK
    <3>4. ClaimBacked(req[q])'
      BY <1>1, <3>1, <3>2 DEF ClaimBacked
    <3>5. req[q].at \in WipeSteps => q \in crossed'
      BY <2>2 DEF Wiping
    <3>6. CountOK(req[q], q \in crossed)'
      BY <1>1, <3>1, <3>2, <3>5 DEF CountOK
    <3>7. QED BY <3>3, <3>4, <3>6
  <2>5. SlotsOK'
    BY <2>1, <2>4, NoRequestAfter DEF SlotsOK
  <2>6. ASSUME NEW j \in Items
        PROVE  /\ Cardinality(UnitsOf(j)') <= Cardinality(UnitsOf(j))
               /\ Cardinality(UnitsOf(j)') \in Nat /\ Cardinality(UnitsOf(j)) \in Nat
               /\ Cardinality(UnitsOf(j)') + purged'[j] = Cardinality(UnitsOf(j)) + purged[j]
    <3>1. Cardinality(UnitsOf(j)) \in Nat /\ purged[j] \in Nat
      BY UnitsFinite DEF IInv, RowsOK
    <3>2. CASE j = unit[req[p].unit].item
      <4>1. /\ purged'[j] = purged[j] + 1 /\ Cardinality(UnitsOf(j)) > 0
            /\ Cardinality(UnitsOf(j)') = Cardinality(UnitsOf(j)) - 1
        BY <1>3, <3>2
      <4>2. QED BY <3>1, <4>1
    <3>3. CASE j # unit[req[p].unit].item
      <4>1. purged'[j] = purged[j] /\ UnitsOf(j)' = UnitsOf(j)
        BY <1>3, <3>3
      <4>2. QED BY <3>1, <4>1
    <3>4. QED BY <3>2, <3>3
  <2>7. \A j \in Items : item[j].qty \in Nat /\ book[j] \in Int /\ purged[j] \in Nat
                         /\ purged'[j] \in Nat
    BY <2>3 DEF IInv, RowsOK, ItemRows
  <2>8. BooksOK'
    <3> SUFFICES ASSUME NEW j \in Items
                 PROVE  /\ ~item[j].here => item[j].qty = 0 /\ book[j] = 0
                        /\ item[j].qty + Cardinality(UnitsOf(j)') <= book[j]
      BY <1>1 DEF BooksOK
    <3>1. item[j].qty + Cardinality(UnitsOf(j)) <= book[j]
      BY DEF IInv, BooksOK
    <3>2. item[j].qty + Cardinality(UnitsOf(j)') <= book[j]
      BY <2>6, <2>7, <3>1
    <3>3. QED BY <3>2 DEF IInv, BooksOK
  <2>9. StockConserved'
    <3> SUFFICES ASSUME ~torn, NEW j \in Items
                 PROVE  item[j].qty + Cardinality(UnitsOf(j)') + purged'[j] = book[j]
      BY <1>1 DEF StockConserved
    <3>1. item[j].qty + Cardinality(UnitsOf(j)) + purged[j] = book[j]
      BY DEF IInv, StockConserved
    <3>2. QED BY <2>6, <2>7, <3>1
  <2>10. QED BY <2>1, <2>3, <2>5, <2>8, <2>9 DEF IInv
<1>4. QED BY <1>2, <1>3

\* A wipe leaves no unit and gives every item what it counted.
LEMMA WipeRecalls ==
  ASSUME IInv, NEW p \in Slots, WipeTruncate(p)
  PROVE  /\ unit' \in [Units -> UnitRows] /\ item' \in [Items -> ItemRows]
         /\ \A u \in Units : ~unit'[u].here
         /\ \A j \in Items : /\ UnitsOf(j)' = {} /\ Cardinality(UnitsOf(j)') = 0
                             /\ item'[j].here = item[j].here
                             /\ item'[j].qty = item[j].qty + req[p].counted[j]
                             /\ item[j].qty <= item'[j].qty /\ item'[j].qty <= book[j]
<1>1. NoRow \in UnitRows /\ ~NoRow.here
  BY DEF NoRow, UnitRows, Statuses
<1>2. unit' \in [Units -> UnitRows] /\ \A u \in Units : ~unit'[u].here
  BY <1>1 DEF WipeTruncate
<1>3. \A j \in Items : UnitsOf(j)' = {}
  BY <1>2 DEF UnitsOf
<1>4. Cardinality({}) = 0
  BY FS_EmptySet
<1>5. req[p].counted \in [Items -> Nat] /\ item \in [Items -> ItemRows]
  BY SlotTyped DEF IInv, RowsOK
<1>6. ASSUME NEW j \in Items
      PROVE  /\ item'[j] = [item[j] EXCEPT !.qty = item[j].qty + req[p].counted[j]]
             /\ item[j].qty + req[p].counted[j] \in Nat
             /\ item[j].qty <= item[j].qty + req[p].counted[j]
  BY <1>5 DEF WipeTruncate, GivenBack, ItemRows
<1>7. \A j \in Items : /\ item'[j] \in ItemRows /\ item'[j].here = item[j].here
                       /\ item'[j].qty = item[j].qty + req[p].counted[j]
  BY <1>5, <1>6 DEF ItemRows
<1>8. item' \in [Items -> ItemRows]
  <2>1. item' = [i \in Items |-> item'[i]]
    BY DEF WipeTruncate
  <2>2. QED BY <1>7, <2>1
<1>9. \A j \in Items : item[j].qty + req[p].counted[j] <= book[j]
  BY SlotTyped DEF CountOK, WipeTruncate, WipeSteps
<1>10. QED BY <1>2, <1>3, <1>4, <1>6, <1>7, <1>8, <1>9

LEMMA WipeStep ==
  ASSUME IInv, NEW p \in Slots, WipeTruncate(p)
  PROVE  IInv'
<1> USE WipeRecalls
<1>1. /\ Finish(p) /\ UNCHANGED <<book, purged>> /\ crossed' = crossed \ {p}
      /\ torn' = (torn \/ p \in crossed) /\ req[p].at = "wipe.truncate"
  BY DEF WipeTruncate
<1>2. /\ Apart' /\ req' = [q \in Slots |-> req'[q]] /\ req'[p] = NoRequest
      /\ \A q \in Slots \ {p} : req'[q] = req[q]
  BY <1>1, ApartAfter
<1>3. RowsOK'
  <2>1. torn' \in BOOLEAN
    BY <1>1
  <2>2. QED BY <1>1, <2>1 DEF IInv, RowsOK
<1>4. \A j \in Items : item[j].qty \in Nat /\ item'[j].qty \in Nat
  BY DEF IInv, RowsOK, ItemRows
<1>5. ASSUME NEW q \in Slots \ {p}
      PROVE  RequestOK(req[q])' /\ ClaimBacked(req[q])' /\ CountOK(req[q], q \in crossed)'
  <2>1. req'[q] = req[q] /\ q \in Slots
    BY <1>2
  <2>2. RequestOK(req[q]) /\ ClaimBacked(req[q])
    BY SlotTyped
  <2>3. req[q].at # "create.commit" /\ req[q].at \notin WipeSteps
    BY DEF WipeTruncate, TableFree
  <2>4. RequestOK(req[q])' /\ CountOK(req[q], q \in crossed)'
    BY <2>1, <2>2, <2>3 DEF RequestOK, CountOK
  <2>5. ClaimBacked(req[q])'
    <3> SUFFICES ASSUME req[q].at \in {"create.insert", "create.commit"}, req[q].item # NoItem
                 PROVE  item'[req[q].item].qty > 0
      BY <2>1 DEF ClaimBacked
    <3>1. req[q].item \in Items /\ item[req[q].item].qty > 0
      BY <2>2, SlotTyped DEF ClaimBacked
    <3>2. QED BY <1>4, <3>1
  <2>6. QED BY <2>4, <2>5
<1>6. SlotsOK'
  BY <1>2, <1>5, NoRequestAfter DEF SlotsOK
<1>7. BooksOK'
  <2> SUFFICES ASSUME NEW j \in Items
               PROVE  /\ ~item'[j].here => item'[j].qty = 0 /\ book[j] = 0
                      /\ item'[j].qty + Cardinality(UnitsOf(j)') <= book[j]
    BY <1>1 DEF BooksOK
  <2>1. ~item[j].here => item[j].qty = 0 /\ book[j] = 0
    BY DEF IInv, BooksOK
  <2>2. item'[j].qty <= book[j] /\ Cardinality(UnitsOf(j)') = 0 /\ item'[j].here = item[j].here
    OBVIOUS
  <2>3. item'[j].qty + Cardinality(UnitsOf(j)') <= book[j]
    BY <1>4, <2>2
  <2>4. ~item'[j].here => item'[j].qty = 0 /\ book[j] = 0
    BY <1>4, <2>1, <2>2
  <2>5. QED BY <2>3, <2>4
<1>8. StockConserved'
  <2> SUFFICES ASSUME ~torn, p \notin crossed, NEW j \in Items
               PROVE  item'[j].qty + Cardinality(UnitsOf(j)') + purged[j] = book[j]
    BY <1>1 DEF StockConserved
  <2>1. item[j].qty + Cardinality(UnitsOf(j)) + purged[j] = book[j]
    BY DEF IInv, StockConserved
  <2>2. req[p].counted = Consumed
    BY <1>1, SlotTyped DEF CountOK, WipeSteps
  <2>3. item'[j].qty = item[j].qty + Cardinality(UnitsOf(j)) /\ Cardinality(UnitsOf(j)') = 0
    BY <2>2 DEF Consumed
  <2>4. Cardinality(UnitsOf(j)) \in Nat /\ purged[j] \in Nat
    BY UnitsFinite DEF IInv, RowsOK
  <2>5. QED BY <1>4, <2>1, <2>3, <2>4
<1>9. QED BY <1>2, <1>3, <1>6, <1>7, <1>8 DEF IInv

-----------------------------------------------------------------------------
LEMMA IInvInit == Init => IInv
<1> SUFFICES ASSUME Init PROVE IInv
  OBVIOUS
<1>1. /\ unit \in [Units -> UnitRows] /\ item \in [Items -> ItemRows]
      /\ \A u \in Units : ~unit[u].here
      /\ \A i \in Items : item[i].qty = 0 /\ book[i] = 0 /\ purged[i] = 0
  BY DEF Init, NoRow, UnitRows, Statuses, ItemRows, NoneCounted
<1>2. RowsOK
  <2>1. book \in [Items -> Int] /\ purged \in [Items -> Nat]
    BY DEF Init, NoneCounted
  <2>2. crossed \subseteq Slots /\ torn \in BOOLEAN
    BY DEF Init
  <2>3. QED BY <1>1, <2>1, <2>2 DEF RowsOK
<1>3. \A i \in Items : Cardinality(UnitsOf(i)) = 0
  <2>1. \A i \in Items : UnitsOf(i) = {}
    BY <1>1 DEF UnitsOf
  <2>2. QED BY <2>1, FS_EmptySet
<1>4. BooksOK /\ StockConserved
  BY <1>1, <1>3 DEF BooksOK, StockConserved
<1>5. \A p \in Slots : req[p] = NoRequest
  BY DEF Init
<1>6. SlotsOK /\ Apart
  <2>1. \A p \in Slots : CountOK(req[p], p \in crossed)
    BY <1>5, NoRequestOK DEF CountOK, WipeSteps
  <2>2. SlotsOK
    BY <1>5, <2>1, NoRequestOK DEF Init, SlotsOK
  <2>3. Apart
    BY <1>5, NoRequestOK DEF Apart
  <2>4. QED BY <2>2, <2>3
<1>7. QED BY <1>2, <1>4, <1>6 DEF IInv

LEMMA IInvNext == IInv /\ [UnitNext]_unitVars => IInv'
<1> SUFFICES ASSUME IInv, [UnitNext]_unitVars PROVE IInv'
  OBVIOUS
<1>1. CASE UNCHANGED unitVars
  <2>1. unit \in [Units -> UnitRows]
    BY DEF IInv, RowsOK
  <2>2. QED BY <1>1, <2>1, UnitEdited DEF unitVars, stockVars, historyVars
<1>2. QED BY <1>1, ClaimSteps, OtherSteps, CommitStep, PurgeStep, WipeStep, UnitStatements,
             ItemStatements DEF UnitNext

\* The tables and slots hold what their columns allow, quantities being natural
\* numbers.
THEOREM TypeCorrect == Spec => []TypeOK
BY IInvInit, IInvNext, IInvTypes, PTL DEF Spec

\* Stock is conserved until a wipe commits that a creation or purge overlapped.
THEOREM StockIsConserved == Spec => []StockConserved
<1>1. IInv => StockConserved
  BY DEF IInv
<1>2. QED BY <1>1, IInvInit, IInvNext, PTL DEF Spec

-----------------------------------------------------------------------------
(* The refinement: what each request does to the ledger.                    *)

OnHand == [i \in Items |-> item[i].qty]

\* The ledger's variables are untouched when rows keep item, place and quantity.
LEMMA LedgerStutters ==
  ASSUME \A i \in Items : item'[i].qty = item[i].qty /\ UnitsOf(i)' = UnitsOf(i), book' = book
  PROVE  UNCHANGED Ledger!vars
<1>1. Consumed' = Consumed
  BY DEF Consumed
<1>2. [i \in Items |-> item[i].qty]' = [i \in Items |-> item[i].qty]
  OBVIOUS
<1>3. QED BY <1>1, <1>2 DEF Ledger!vars

LEMMA LedgerInit == Init => Ledger!Init
<1> SUFFICES ASSUME Init PROVE Ledger!Init
  OBVIOUS
<1>1. \A i \in Items : UnitsOf(i) = {}
  BY DEF Init, UnitsOf, NoRow
<1>2. \A i \in Items : Cardinality(UnitsOf(i)) = 0
  BY <1>1, FS_EmptySet
<1>3. QED BY <1>2 DEF Init, Ledger!Init, Consumed, NoneCounted

LEMMA LedgerTakes ==
  ASSUME IInv, NEW p \in Slots, CreateCommit(p)
  PROVE  [Ledger!Next]_(Ledger!vars)
<1> USE CommitTakes
<1>1. book' = book
  BY DEF CreateCommit
<1>2. CASE req[p].item = NoItem
  <2>1. \A i \in Items : item'[i].qty = item[i].qty /\ UnitsOf(i)' = UnitsOf(i)
    BY <1>2, ItemsAssumption
  <2>2. QED BY <1>1, <2>1, LedgerStutters
<1>3. CASE req[p].item # NoItem
  <2>1. PICK i \in Items : i = req[p].item
    BY <1>3, SlotTyped
  <2>2. \A j \in Items : j # i => item'[j].qty = item[j].qty /\ UnitsOf(j)' = UnitsOf(j)
    BY <2>1
  <2>3. /\ item[i].qty > 0 /\ item'[i].qty = item[i].qty - 1
        /\ Cardinality(UnitsOf(i)') = Cardinality(UnitsOf(i)) + 1
    BY <2>1
  <2>4. OnHand' = [OnHand EXCEPT ![i] = @ - 1]
    BY <2>2, <2>3 DEF OnHand
  <2>5. Consumed' = [Consumed EXCEPT ![i] = @ + 1]
    BY <2>2, <2>3 DEF Consumed
  <2>6. OnHand[i] > 0
    BY <2>3 DEF OnHand
  <2>7. Ledger!Take(i)
    BY <1>1, <2>4, <2>5, <2>6 DEF Ledger!Take, OnHand
  <2>8. QED BY <2>7 DEF Ledger!Next
<1>4. QED BY <1>2, <1>3

LEMMA LedgerWritesOff ==
  ASSUME IInv, NEW p \in Slots, NEW free \in BOOLEAN, PurgeDelete(p, free)
  PROVE  [Ledger!Next]_(Ledger!vars)
<1>1. book' = book /\ item' = item
  BY DEF PurgeDelete
<1>2. CASE UNCHANGED unit
  <2>1. \A i \in Items : item'[i].qty = item[i].qty /\ UnitsOf(i)' = UnitsOf(i)
    BY <1>1, <1>2 DEF UnitsOf
  <2>2. QED BY <1>1, <2>1, LedgerStutters
<1>3. CASE ~(UNCHANGED unit)
  <2> USE PurgeWritesOff
  <2> DEFINE k == unit[req[p].unit].item
  <2>1. CASE k \notin Items
    <3>1. \A i \in Items : item'[i].qty = item[i].qty /\ UnitsOf(i)' = UnitsOf(i)
      BY <1>1, <1>3, <2>1
    <3>2. QED BY <1>1, <3>1, LedgerStutters
  <2>2. CASE k \in Items
    <3>1. PICK i \in Items : i = k
      BY <2>2
    <3>2. \A j \in Items : j # i => UnitsOf(j)' = UnitsOf(j)
      BY <1>3, <3>1
    <3>3. /\ Cardinality(UnitsOf(i)) > 0
          /\ Cardinality(UnitsOf(i)') = Cardinality(UnitsOf(i)) - 1
      BY <1>3, <3>1
    <3>4. Consumed' = [Consumed EXCEPT ![i] = @ - 1] /\ Consumed[i] > 0
      BY <3>2, <3>3 DEF Consumed
    <3>5. [j \in Items |-> item[j].qty]' = [j \in Items |-> item[j].qty]
      BY <1>1
    <3>6. Ledger!WriteOff(i)
      BY <1>1, <3>4, <3>5 DEF Ledger!WriteOff
    <3>7. QED BY <3>6 DEF Ledger!Next
  <2>3. QED BY <2>1, <2>2
<1>4. QED BY <1>2, <1>3

LEMMA LedgerRecalls ==
  ASSUME IInv, NEW p \in Slots, WipeTruncate(p)
  PROVE  [Ledger!Next]_(Ledger!vars)
<1> USE WipeRecalls
<1>1. book' = book
  BY DEF WipeTruncate
<1>2. \A j \in Items : /\ item[j].qty \in Nat /\ item'[j].qty \in Nat /\ book[j] \in Int
                       /\ item[j].qty <= item'[j].qty /\ item'[j].qty <= book[j]
  BY DEF IInv, RowsOK, ItemRows
<1>3. \A j \in Items : OnHand'[j] \in OnHand[j] .. book[j]
  BY <1>2 DEF OnHand
<1>4. OnHand' = [i \in Items |-> OnHand'[i]]
  BY DEF OnHand
<1>5. Consumed' = [i \in Items |-> 0]
  BY DEF Consumed
<1>6. Ledger!Recall
  BY <1>1, <1>3, <1>4, <1>5 DEF Ledger!Recall, OnHand
<1>7. QED BY <1>6 DEF Ledger!Next

LEMMA LedgerEnters ==
  ASSUME IInv, NEW i \in Items, NEW q \in 0 .. MaxQty, CreateItem(i, q) \/ UpdateItem(i, q)
  PROVE  [Ledger!Next]_(Ledger!vars)
<1>1. item \in [Items -> ItemRows] /\ book \in [Items -> Int] /\ q \in Nat
  BY BoundsAssumption DEF IInv, RowsOK
<1>2. \A j \in Items : item'[j].qty = IF j = i THEN q ELSE item[j].qty
  BY <1>1 DEF CreateItem, UpdateItem, ItemRows
<1>3. OnHand' = [OnHand EXCEPT ![i] = q] /\ OnHand'[i] = q
  BY <1>2 DEF OnHand
<1>4. book' = [book EXCEPT ![i] = @ + (q - OnHand[i])]
  <2>1. CASE CreateItem(i, q)
    <3>1. item[i].qty = 0 /\ book[i] = 0
      BY <2>1 DEF CreateItem, IInv, BooksOK
    <3>2. book[i] + (q - OnHand[i]) = q
      BY <1>1, <3>1 DEF OnHand
    <3>3. QED BY <2>1, <3>2 DEF CreateItem
  <2>2. CASE UpdateItem(i, q)
    BY <2>2 DEF UpdateItem, OnHand
  <2>3. QED BY <2>1, <2>2
<1>5. unit' = unit
  BY DEF CreateItem, UpdateItem
<1>6. Consumed' = Consumed
  BY <1>5 DEF Consumed, UnitsOf
<1>7. Ledger!Enter(i)
  BY <1>1, <1>3, <1>4, <1>6 DEF Ledger!Enter, OnHand
<1>8. QED BY <1>7 DEF Ledger!Next

\* Every step of the requests is a step of the ledger or leaves it alone.
LEMMA LedgerSteps == IInv /\ [UnitNext]_unitVars => [Ledger!Next]_(Ledger!vars)
<1> SUFFICES ASSUME IInv, [UnitNext]_unitVars PROVE [Ledger!Next]_(Ledger!vars)
  OBVIOUS
<1>1. ASSUME UNCHANGED <<unit, stockVars>> PROVE [Ledger!Next]_(Ledger!vars)
  BY <1>1, LedgerStutters DEF stockVars, UnitsOf
<1>2. ASSUME NEW p \in Slots,
             \/ \E s \in Serials, i \in Items \cup {NoItem} : CreateUnit(p, s, i)
             \/ ClaimRefused(p) \/ Claim(p) \/ InsertRefused(p) \/ Insert(p)
             \/ \E u \in Units : PurgeUnit(p, u)
             \/ WipeAll(p) \/ WipeLock(p) \/ Abort(p)
      PROVE  [Ledger!Next]_(Ledger!vars)
  BY <1>1, <1>2 DEF CreateUnit, ClaimRefused, Claim, InsertRefused, Insert, PurgeUnit,
                    WipeAll, WipeLock, Abort
<1>3. ASSUME NEW u \in Units,
             DeleteUnit(u) \/ RestoreUnit(u) \/ \E s \in Serials : UpdateUnitIdentity(u, s)
      PROVE  [Ledger!Next]_(Ledger!vars)
  <2>1. \A i \in Items : UnitsOf(i)' = UnitsOf(i)
    BY <1>3 DEF DeleteUnit, RestoreUnit, Retire, Restore, SetStatus, UpdateUnitIdentity, UnitsOf,
                IInv, RowsOK, UnitRows
  <2>2. UNCHANGED <<item, book>>
    BY <1>3 DEF DeleteUnit, RestoreUnit, UpdateUnitIdentity, stockVars
  <2>3. QED BY <2>1, <2>2, LedgerStutters
<1>4. ASSUME NEW i \in Items, Deactivate(i) \/ Reactivate(i) PROVE [Ledger!Next]_(Ledger!vars)
  <2>1. \A j \in Items : item'[j].qty = item[j].qty
    BY <1>4 DEF Deactivate, Reactivate, setActive, IInv, RowsOK, ItemRows
  <2>2. UNCHANGED <<unit, book>>
    BY <1>4 DEF Deactivate, Reactivate, setActive
  <2>3. QED BY <2>1, <2>2, LedgerStutters DEF UnitsOf
<1>5. CASE UNCHANGED unitVars
  BY <1>1, <1>5 DEF unitVars, stockVars
<1>6. QED BY <1>2, <1>3, <1>4, <1>5, LedgerTakes, LedgerWritesOff, LedgerRecalls, LedgerEnters
          DEF UnitNext

\* The creations, purges, edits and wipes implement the stock ledger.
THEOREM ImplementsLedger == Spec => ImplementsStockLedger
<1>1. IInv /\ [UnitNext]_unitVars => [Ledger!Next]_(Ledger!vars)
  BY LedgerSteps
<1>2. QED BY <1>1, LedgerInit, IInvInit, IInvNext, PTL
          DEF Spec, ImplementsStockLedger, Ledger!Spec

-----------------------------------------------------------------------------
(* Defects and replacements, for any set of units, serial numbers and       *)
(* overlapping requests.                                                    *)

\* The steps of HardwareUnits that Defects takes, and its own.
DefectReached == {"idle", "create.insert", "create.commit", "purge.delete"} \cup DefectSteps
Replacing == {"create.insert", "create.commit", "replace.link"}

\* What a handler read stays true, or its unit is gone, until it writes: the
\* report of a unit declared or shipped is there, and a replacement under way
\* has a shipped report to be linked from.
ServeOK(p) ==
  LET r == req[p] IN
  /\ r.at \in {"declare.flag", "declare.status"} =>
       r.unit \in Units /\ (unit[r.unit].here => defect[r.unit].here)
  /\ r.at = "arrived.write" => r.unit \in Units /\ (unit[r.unit].here => Shipped(r.unit))
  /\ r.at \in {"flag.raise", "flag.clear", "purge.delete"} => r.unit \in Units
  /\ r.at \in Replacing => r.replaces \in Units /\ (unit[r.replaces].here => Shipped(r.replaces))
  /\ r.at = "create.commit" => r.unit \in Units /\ ~unit[r.unit].here /\ r.unit # r.replaces
  /\ r.at = "replace.link" =>
       /\ r.unit \in Units /\ made[r.unit] \in {r.replaces, NoUnit}
       /\ unit[r.unit].here /\ unit[r.replaces].here => made[r.unit] = r.replaces

\* The id of a row not yet committed is one request's.
IdsApart ==
  \A p, q \in Slots : p # q /\ req[p].at = "create.commit" =>
    req[p].unit \notin {req[q].unit, req[q].replaces}

Linking(u) == \E p \in Slots : req[p].at = "replace.link" /\ req[p].unit = u

\* A replacement is on the way to its link, was cut short, or its report has
\* one; and a link names a unit created for that report.
MadeOK ==
  /\ \A u \in Units : made[u] # NoUnit =>
       /\ unit[u].here /\ defect[made[u]].here
       /\ u \in cut \/ Linking(u) \/ defect[made[u]].by # NoUnit
  /\ \A d \in Units : defect[d].by # NoUnit => made[defect[d].by] = d

DefectRowsOK ==
  /\ unit \in [Units -> UnitRows] /\ exception \in [Units -> BOOLEAN]
  /\ defect \in [Units -> DefectRows]
  /\ \A u \in Units : defect[u].here => unit[u].here
  /\ cut \subseteq Units /\ made \in [Units -> Units \cup {NoUnit}]

ServingOK == /\ req \in [Slots -> Requests(DefectReached)] /\ IdsApart
             /\ \A p \in Slots : ServeOK(p)

ReportsOK == ReportTruthful /\ ReplacementExists

DefectInv == DefectRowsOK /\ ServingOK /\ ReportsOK /\ MadeOK

LEMMA DefectInvTypes == DefectInv => DefectTypeOK
<1>1. Requests(DefectReached) \subseteq Requests({"idle"} \cup UnitSteps \cup DefectSteps)
  BY DEF Requests, DefectReached, UnitSteps, CreateSteps
<1>2. QED BY <1>1 DEF DefectInv, DefectRowsOK, ServingOK, DefectTypeOK

\* What a slot serves, in detail.
LEMMA DefectSlotTyped ==
  ASSUME DefectInv, NEW p \in Slots
  PROVE  /\ req[p] \in Requests(DefectReached) /\ req[p].at \in DefectReached
         /\ req[p].unit \in Units \cup {NoUnit} /\ req[p].replaces \in Units \cup {NoUnit}
         /\ req[p].serial \in Serials \cup {NoSerial} /\ req[p].item \in Items \cup {NoItem}
         /\ ServeOK(p)
BY DEF DefectInv, ServingOK, Requests

\* A step leaves the row of u what the handlers that read it count on.
RowKept(u) ==
  /\ unit'[u].here =>
       /\ unit[u].here
       /\ defect[u].here => defect'[u].here
       /\ Shipped(u) => Shipped(u)'
  /\ made'[u] \in {made[u], NoUnit}
  /\ made[u] # NoUnit /\ unit'[u].here /\ unit'[made[u]].here => made'[u] = made[u]

LEMMA ServeKeeps ==
  ASSUME NEW q \in Slots, req[q] \in Requests(DefectReached), ServeOK(q), req'[q] = req[q],
         \A u \in Units \cap {req[q].unit, req[q].replaces} : RowKept(u)
  PROVE  ServeOK(q)'
<1> DEFINE r == req[q]
<1>1. /\ r.unit \in Units => RowKept(r.unit)
      /\ r.replaces \in Units => RowKept(r.replaces)
  OBVIOUS
<1>2. \A u \in Units : RowKept(u) =>
        /\ unit'[u].here => unit[u].here
        /\ unit'[u].here /\ defect[u].here => defect'[u].here
        /\ unit'[u].here /\ Shipped(u) => defect'[u].here /\ "shipped_back" \in defect'[u].at
  BY DEF RowKept, Shipped
<1> HIDE DEF r
<1>3. r = req[q] /\ req'[q] = r
  BY DEF r
<1>4. /\ r.at \in {"declare.flag", "declare.status"} =>
           r.unit \in Units /\ (unit'[r.unit].here => defect'[r.unit].here)
      /\ r.at \in {"flag.raise", "flag.clear", "purge.delete"} => r.unit \in Units
  BY <1>1, <1>2, <1>3 DEF ServeOK
<1>5. r.at = "arrived.write" =>
        /\ r.unit \in Units
        /\ unit'[r.unit].here => defect'[r.unit].here /\ "shipped_back" \in defect'[r.unit].at
  BY <1>1, <1>2, <1>3 DEF ServeOK
<1>6. r.at \in Replacing =>
        /\ r.replaces \in Units
        /\ unit'[r.replaces].here =>
             defect'[r.replaces].here /\ "shipped_back" \in defect'[r.replaces].at
  BY <1>1, <1>2, <1>3 DEF ServeOK
<1>7. r.at = "create.commit" => r.unit \in Units /\ ~unit'[r.unit].here /\ r.unit # r.replaces
  BY <1>1, <1>2, <1>3 DEF ServeOK
<1>8. r.at = "replace.link" =>
       /\ r.unit \in Units /\ made'[r.unit] \in {r.replaces, NoUnit}
       /\ unit'[r.unit].here /\ unit'[r.replaces].here => made'[r.unit] = r.replaces
  <2> SUFFICES ASSUME r.at = "replace.link"
               PROVE  /\ r.unit \in Units /\ made'[r.unit] \in {r.replaces, NoUnit}
                      /\ unit'[r.unit].here /\ unit'[r.replaces].here => made'[r.unit] = r.replaces
    OBVIOUS
  <2>1. /\ r.unit \in Units /\ r.replaces \in Units /\ made[r.unit] \in {r.replaces, NoUnit}
        /\ unit[r.unit].here /\ unit[r.replaces].here => made[r.unit] = r.replaces
    BY <1>3 DEF ServeOK, Replacing
  <2>2. RowKept(r.unit) /\ RowKept(r.replaces)
    BY <1>1, <2>1
  <2>3. QED BY <1>2, <2>1, <2>2, UnitsAssumption DEF RowKept
<1>9. QED BY <1>3, <1>4, <1>5, <1>6, <1>7, <1>8 DEF ServeOK, Shipped

\* A step of request p keeps what every request counts on, when it leaves it in
\* order itself, uses no id of another and keeps the rows.
LEMMA ServingStep ==
  ASSUME DefectInv, NEW p \in Slots, NEW r \in Requests(DefectReached),
         req' = [req EXCEPT ![p] = r],
         ServeOK(p)',
         \A u \in Units : RowKept(u) \/ (req[p].at = "create.commit" /\ u = req[p].unit),
         \A q \in Slots \ {p} : req[q].at = "create.commit" =>
                                  req[q].unit \notin {r.unit, r.replaces},
         r.at = "create.commit" =>
           \A q \in Slots \ {p} : r.unit \notin {req[q].unit, req[q].replaces}
  PROVE  ServingOK'
<1>1. \A q \in Slots : req'[q] = IF q = p THEN r ELSE req[q]
  BY DEF DefectInv, ServingOK
<1>2. req' \in [Slots -> Requests(DefectReached)]
  BY DEF DefectInv, ServingOK
<1>3. ASSUME NEW q \in Slots PROVE ServeOK(q)'
  <2>1. CASE q = p
    BY <2>1
  <2>2. CASE q # p
    <3>1. req'[q] = req[q] /\ req[q] \in Requests(DefectReached) /\ ServeOK(q)
      BY <1>1, <2>2, DefectSlotTyped
    <3>2. req[p].at = "create.commit" => req[p].unit \notin {req[q].unit, req[q].replaces}
      BY <2>2 DEF DefectInv, ServingOK, IdsApart
    <3>3. QED BY <3>1, <3>2, ServeKeeps
  <2>3. QED BY <2>1, <2>2
<1>4. IdsApart'
  <2> SUFFICES ASSUME NEW a \in Slots, NEW b \in Slots, a # b, req'[a].at = "create.commit"
               PROVE  req'[a].unit \notin {req'[b].unit, req'[b].replaces}
    BY DEF IdsApart
  <2>1. CASE a # p /\ b # p
    BY <1>1, <2>1 DEF DefectInv, ServingOK, IdsApart
  <2>2. CASE a = p \/ b = p
    BY <1>1, <2>2
  <2>3. QED BY <2>1, <2>2
<1>5. QED BY <1>2, <1>3, <1>4 DEF ServingOK

\* As long as no link is taken away, a step that leaves the replacements alone
\* keeps them in order.
LEMMA MadeKeeps ==
  ASSUME DefectInv, NEW p \in Slots, NEW r, req' = [req EXCEPT ![p] = r],
         made' = made, cut \subseteq cut',
         req[p].at = "replace.link" => req[p].unit \in cut',
         \A u \in Units : /\ unit[u].here => unit'[u].here
                          /\ defect[u].here => defect'[u].here /\ defect'[u].by = defect[u].by
                          /\ defect'[u].by # NoUnit => defect'[u].by = defect[u].by
  PROVE  MadeOK'
<1>1. \A q \in Slots : req'[q] = IF q = p THEN r ELSE req[q]
  BY DEF DefectInv, ServingOK
<1>2. ASSUME NEW u \in Units, made[u] # NoUnit
      PROVE  /\ unit'[u].here /\ defect'[made[u]].here
             /\ u \in cut' \/ Linking(u)' \/ defect'[made[u]].by # NoUnit
  <2>1. /\ unit[u].here /\ defect[made[u]].here /\ made[u] \in Units
        /\ u \in cut \/ Linking(u) \/ defect[made[u]].by # NoUnit
    BY <1>2 DEF DefectInv, MadeOK, DefectRowsOK
  <2>2. CASE Linking(u)
    <3>1. PICK q \in Slots : req[q].at = "replace.link" /\ req[q].unit = u
      BY <2>2 DEF Linking
    <3>2. CASE q = p
      BY <2>1, <3>1, <3>2
    <3>3. CASE q # p
      BY <1>1, <2>1, <3>1, <3>3 DEF Linking
    <3>4. QED BY <3>2, <3>3
  <2>3. QED BY <2>1, <2>2
<1>3. \A d \in Units : defect'[d].by # NoUnit => made[defect'[d].by] = d
  BY DEF DefectInv, MadeOK
<1>4. QED BY <1>2, <1>3 DEF MadeOK

\* The id of a row not yet committed is no unit that is there.
LEMMA NotHereYet ==
  ASSUME DefectInv, NEW u, u = NoUnit \/ (u \in Units /\ unit[u].here)
  PROVE  \A q \in Slots : req[q].at = "create.commit" => req[q].unit # u
<1>1. \A q \in Slots : req[q].at = "create.commit" =>
                        req[q].unit \in Units /\ ~unit[req[q].unit].here
  BY DefectSlotTyped DEF ServeOK
<1>2. QED BY <1>1, UnitsAssumption

LEMMA NewRequests ==
  /\ NoRequest \in Requests(DefectReached) /\ NoRequest.at = "idle"
  /\ NoRequest.unit = NoUnit /\ NoRequest.replaces = NoUnit
  /\ \A u \in Units, step \in DefectReached :
       LET r == Serving(step, u)
       IN  r \in Requests(DefectReached) /\ r.at = step /\ r.unit = u /\ r.replaces = NoUnit
  /\ \A u \in Units, s \in Serials :
       LET r == Creating("create.insert", s, NoItem, u)
       IN  /\ r \in Requests(DefectReached) /\ r.at = "create.insert"
           /\ r.unit = NoUnit /\ r.replaces = u
BY DEF NoRequest, Serving, Creating, Requests, DefectReached, NoneCounted

LEMMA RowsSame ==
  ASSUME DefectInv, UNCHANGED <<unit, defect, made>>
  PROVE  \A u \in Units : RowKept(u)
BY DEF RowKept, Shipped

\* A step of one request that changes no table and makes no link.
LEMMA DefectQuiet ==
  ASSUME DefectInv, NEW p \in Slots, NEW r \in Requests(DefectReached),
         req' = [req EXCEPT ![p] = r],
         UNCHANGED <<unit, defectVars>>, ServeOK(p)', req[p].at # "replace.link",
         \A q \in Slots \ {p} : req[q].at = "create.commit" =>
                                  req[q].unit \notin {r.unit, r.replaces},
         r.at = "create.commit" =>
           \A q \in Slots \ {p} : r.unit \notin {req[q].unit, req[q].replaces}
  PROVE  DefectInv'
<1>1. UNCHANGED <<unit, exception, defect, made, cut>>
  BY DEF defectVars
<1>2. ServingOK'
  BY <1>1, RowsSame, ServingStep
<1>3. DefectRowsOK' /\ ReportsOK'
  BY <1>1 DEF DefectInv, DefectRowsOK, ReportsOK, ReportTruthful, ReplacementExists
<1>4. MadeOK'
  BY <1>1, MadeKeeps
<1>5. QED BY <1>2, <1>3, <1>4 DEF DefectInv

\* A request that begins to serve u, or ends.
LEMMA DefectBegins ==
  ASSUME DefectInv, NEW p \in Slots, NEW u \in Units, unit[u].here, NEW step \in DefectReached,
         Begin(p, Serving(step, u)), UNCHANGED <<unit, defectVars>>,
         step \in {"flag.raise", "flag.clear", "purge.delete", "arrived.write"},
         step = "arrived.write" => Shipped(u)
  PROVE  DefectInv'
<1> DEFINE r == Serving(step, u)
<1>1. r \in Requests(DefectReached) /\ r.at = step /\ r.unit = u /\ r.replaces = NoUnit
  BY NewRequests
<1>2. req' = [req EXCEPT ![p] = r] /\ req[p].at # "replace.link"
  BY DEF Begin
<1> HIDE DEF r
<1>3. req'[p] = r
  BY <1>2 DEF DefectInv, ServingOK
<1>4. UNCHANGED <<unit, defect>>
  BY DEF defectVars
<1>5. ServeOK(p)'
  BY <1>1, <1>3, <1>4 DEF ServeOK, Replacing, Shipped
<1>6. \A q \in Slots : req[q].at = "create.commit" => req[q].unit \notin {r.unit, r.replaces}
  BY <1>1, NotHereYet
<1>7. QED BY <1>1, <1>2, <1>5, <1>6, DefectQuiet

LEMMA IdleServes ==
  ASSUME DefectInv, NEW p \in Slots, Finish(p)
  PROVE  /\ NoRequest \in Requests(DefectReached) /\ req' = [req EXCEPT ![p] = NoRequest]
         /\ req'[p] = NoRequest /\ NoRequest.at = "idle"
         /\ ServeOK(p)'
         /\ \A q \in Slots : req[q].at = "create.commit" =>
                               req[q].unit \notin {NoRequest.unit, NoRequest.replaces}
<1>1. req' = [req EXCEPT ![p] = NoRequest] /\ req'[p] = NoRequest
  BY DEF Finish, DefectInv, ServingOK
<1>2. NoRequest \in Requests(DefectReached) /\ NoRequest.at = "idle"
      /\ NoRequest.unit = NoUnit /\ NoRequest.replaces = NoUnit
  BY NewRequests
<1>3. ServeOK(p)'
  BY <1>1, <1>2 DEF ServeOK, Replacing
<1>4. QED BY <1>1, <1>2, <1>3, NotHereYet

\* The steps that only read: requests that begin, a refused insertion, and an
\* insertion not yet committed.
LEMMA DefectReads ==
  ASSUME DefectInv, NEW p \in Slots,
         \/ UnitStep(p)
         \/ \E u \in Units :
              \/ \E right \in BOOLEAN :
                   RecordReceiving(p, u, right) \/ RecordSiteReceipt(p, u, right)
              \/ MarkDelivered(p, u) \/ MarkSupplierReceived(p, u)
              \/ \E s \in Serials : RecordReplacement(p, u, s)
  PROVE  DefectInv'
<1>1. ASSUME NEW u \in Units, NEW right \in BOOLEAN, Receipt(p, u, right) PROVE DefectInv'
  BY <1>1, DefectBegins DEF Receipt, DefectReached, DefectSteps
<1>2. ASSUME NEW u \in Units, MarkArrived(p, u) PROVE DefectInv'
  <2>1. unit[u].here
    BY <1>2 DEF MarkArrived, Shipped, DefectInv, DefectRowsOK
  <2>2. QED BY <1>2, <2>1, DefectBegins DEF MarkArrived, DefectReached, DefectSteps
<1>3. ASSUME NEW u \in Units, PurgeUnit(p, u), UNCHANGED defectVars PROVE DefectInv'
  BY <1>3, DefectBegins DEF PurgeUnit, MayPurge, DefectReached, DefectSteps
<1>4. ASSUME NEW u \in Units, NEW s \in Serials, RecordReplacement(p, u, s) PROVE DefectInv'
  <2> DEFINE r == Creating("create.insert", s, NoItem, u)
  <2>1. /\ r \in Requests(DefectReached) /\ r.at = "create.insert"
        /\ r.unit = NoUnit /\ r.replaces = u
    BY NewRequests
  <2>2. /\ req' = [req EXCEPT ![p] = r] /\ req[p].at # "replace.link" /\ MayReplace(u)
        /\ UNCHANGED <<unit, defectVars>>
    BY <1>4 DEF RecordReplacement, Begin
  <2> HIDE DEF r
  <2>3. req'[p] = r /\ UNCHANGED defect
    BY <2>2 DEF DefectInv, ServingOK, defectVars
  <2>4. Shipped(u) /\ unit[u].here
    BY <2>2 DEF MayReplace, Shipped, DefectInv, ReportsOK, ReportTruthful, DefectRowsOK
  <2>5. ServeOK(p)'
    BY <2>1, <2>3, <2>4 DEF ServeOK, Replacing, Shipped
  <2>6. \A q \in Slots : req[q].at = "create.commit" => req[q].unit \notin {r.unit, r.replaces}
    BY <2>1, <2>4, NotHereYet
  <2>7. QED BY <2>1, <2>2, <2>5, <2>6, DefectQuiet
<1>5. ASSUME InsertRefused(p), UNCHANGED defectVars PROVE DefectInv'
  BY <1>5, IdleServes, DefectQuiet DEF InsertRefused
<1>6. ASSUME Insert(p), UNCHANGED defectVars PROVE DefectInv'
  <2>1. PICK u \in Units :
          Fresh(u) /\ req' = [req EXCEPT ![p].at = "create.commit", ![p].unit = u]
    BY <1>6 DEF Insert
  <2> DEFINE r == [req[p] EXCEPT !.at = "create.commit", !.unit = u]
  <2>2. req' = [req EXCEPT ![p] = r]
    BY <2>1 DEF DefectInv, ServingOK
  <2>3. /\ r \in Requests(DefectReached) /\ r.at = "create.commit"
        /\ r.unit = u /\ r.replaces = req[p].replaces
    BY DefectSlotTyped DEF Requests, DefectReached
  <2>4. req[p].at = "create.insert" /\ UNCHANGED <<unit, defectVars>>
    BY <1>6 DEF Insert
  <2>5. ~unit[u].here /\ \A q \in Slots : u \notin {req[q].unit, req[q].replaces}
    BY <2>1 DEF Fresh
  <2> HIDE DEF r
  <2>6. req'[p] = r /\ UNCHANGED defect
    BY <2>2, <2>4 DEF DefectInv, ServingOK, defectVars
  <2>7. r.replaces \in Units /\ (unit[r.replaces].here => Shipped(r.replaces)) /\ r.replaces # u
    BY <2>3, <2>4, <2>5, DefectSlotTyped DEF ServeOK, Replacing
  <2>8. ServeOK(p)'
    BY <2>3, <2>4, <2>5, <2>6, <2>7 DEF ServeOK, Replacing, Shipped
  <2>9. \A q \in Slots \ {p} : req[q].at = "create.commit" =>
                                req[q].unit \notin {r.unit, r.replaces}
    BY <2>3, <2>5 DEF DefectInv, ServingOK, IdsApart
  <2>10. QED BY <2>2, <2>3, <2>4, <2>5, <2>8, <2>9, DefectQuiet
<1>7. QED BY <1>1, <1>2, <1>3, <1>4, <1>5, <1>6
          DEF UnitStep, RecordReceiving, RecordSiteReceipt, MarkDelivered, MarkSupplierReceived

\* A step that makes and takes away no unit and no link, and undoes no shipment.
ReportKept(u) ==
  /\ unit'[u].here = unit[u].here
  /\ defect[u].here => defect'[u].here /\ defect'[u].by = defect[u].by
  /\ Shipped(u) => Shipped(u)'
  /\ defect'[u].by # NoUnit =>
       /\ defect'[u].by = defect[u].by
       /\ defect[u].status # "pending" => defect'[u].status # "pending"

LEMMA MarkedStep ==
  ASSUME DefectInv, NEW p \in Slots, NEW r \in Requests(DefectReached),
         req' = [req EXCEPT ![p] = r],
         ServeOK(p)', req[p].at \notin {"create.commit", "replace.link"},
         r.at # "create.commit",
         \A q \in Slots \ {p} : req[q].at = "create.commit" =>
                                  req[q].unit \notin {r.unit, r.replaces},
         DefectRowsOK', ReportTruthful', made' = made, cut' = cut,
         \A u \in Units : ReportKept(u)
  PROVE  DefectInv'
<1>1. \A u \in Units : RowKept(u)
  BY DEF RowKept, ReportKept
<1>2. ServingOK'
  BY <1>1, ServingStep
<1>3. MadeOK'
  BY MadeKeeps DEF ReportKept
<1>4. ReplacementExists'
  <2> SUFFICES ASSUME NEW u \in Units, defect'[u].by # NoUnit
               PROVE  unit'[defect'[u].by].here /\ defect'[u].status # "pending"
    BY DEF ReplacementExists
  <2>1. defect'[u].by = defect[u].by /\ defect[u].by \in Units
    BY DEF DefectInv, DefectRowsOK, DefectRows, ReportKept
  <2>2. unit[defect[u].by].here /\ defect[u].status # "pending"
    BY <2>1 DEF DefectInv, ReportsOK, ReplacementExists
  <2>3. QED BY <2>1, <2>2 DEF ReportKept
<1>5. QED BY <1>2, <1>3, <1>4 DEF DefectInv, ReportsOK

\* The same of a step that changes no request.
LEMMA MarkedAlone ==
  ASSUME DefectInv, req' = req, DefectRowsOK', ReportTruthful', made' = made, cut' = cut,
         \A u \in Units : ReportKept(u)
  PROVE  DefectInv'
<1>1. \A u \in Units : RowKept(u)
  BY DEF RowKept, ReportKept
<1>2. \A q \in Slots : ServeOK(q)'
  BY <1>1, DefectSlotTyped, ServeKeeps
<1>3. ServingOK'
  BY <1>2 DEF DefectInv, ServingOK, IdsApart
<1>4. MadeOK'
  <2>1. \A u : Linking(u)' <=> Linking(u)
    BY DEF Linking
  <2>2. ASSUME NEW u \in Units, made[u] # NoUnit
        PROVE  /\ unit'[u].here /\ defect'[made[u]].here
               /\ u \in cut \/ Linking(u) \/ defect'[made[u]].by # NoUnit
    BY <2>2 DEF DefectInv, MadeOK, DefectRowsOK, ReportKept
  <2>3. \A d \in Units : defect'[d].by # NoUnit => made[defect'[d].by] = d
    BY DEF DefectInv, MadeOK, ReportKept
  <2>4. QED BY <2>1, <2>2, <2>3 DEF MadeOK
<1>5. ReplacementExists'
  <2> SUFFICES ASSUME NEW u \in Units, defect'[u].by # NoUnit
               PROVE  unit'[defect'[u].by].here /\ defect'[u].status # "pending"
    BY DEF ReplacementExists
  <2>1. defect'[u].by = defect[u].by /\ defect[u].by \in Units
    BY DEF DefectInv, DefectRowsOK, DefectRows, ReportKept
  <2>2. unit[defect[u].by].here /\ defect[u].status # "pending"
    BY <2>1 DEF DefectInv, ReportsOK, ReplacementExists
  <2>3. QED BY <2>1, <2>2 DEF ReportKept
<1>6. QED BY <1>3, <1>4, <1>5 DEF DefectInv, ReportsOK

\* SetStatus in detail.
LEMMA StatusSet ==
  ASSUME DefectInv, NEW u \in Units, NEW s \in Statuses, SetStatus(u, s)
  PROVE  /\ unit' \in [Units -> UnitRows]
         /\ \A v \in Units : /\ unit'[v].here = unit[v].here
                             /\ unit'[v].status = IF v = u /\ unit[u].here THEN s ELSE unit[v].status
<1>1. unit \in [Units -> UnitRows]
  BY DEF DefectInv, DefectRowsOK
<1>2. QED BY <1>1 DEF SetStatus, UnitRows

\* Retirements and restorations.
LEMMA DefectStatements ==
  ASSUME DefectInv, NEW u \in Units,
         (DeleteUnit(u) \/ RestoreUnit(u)) /\ UNCHANGED defectVars
  PROVE  DefectInv'
<1>1. PICK s \in {"retired", "active"} : SetStatus(u, s) /\ req' = req
  BY DEF DeleteUnit, RestoreUnit, Retire, Restore
<1>2. UNCHANGED <<exception, defect, made, cut>>
  BY DEF defectVars
<1>3. /\ unit' \in [Units -> UnitRows]
      /\ \A v \in Units : /\ unit'[v].here = unit[v].here
                          /\ unit'[v].status = IF v = u /\ unit[u].here THEN s ELSE unit[v].status
  BY <1>1, StatusSet DEF Statuses
<1>4. DefectRowsOK' /\ ReportTruthful'
  BY <1>2, <1>3 DEF DefectInv, DefectRowsOK, ReportsOK, ReportTruthful
<1>5. QED BY <1>1, <1>2, <1>3, <1>4, MarkedAlone DEF Shipped, ReportKept

\* The shipment back to the supplier.
LEMMA DefectShips ==
  ASSUME DefectInv, NEW u \in Units, MarkShippedBack(u)
  PROVE  DefectInv'
<1>1. /\ defect[u].here /\ UNCHANGED <<unit, req, exception, made, cut>>
      /\ defect' = [defect EXCEPT ![u].status = "shipped_back", ![u].at = @ \cup {"shipped_back"}]
  BY DEF MarkShippedBack, ShipBack, unitVars
<1>2. defect \in [Units -> DefectRows]
  BY DEF DefectInv, DefectRowsOK
<1>3. /\ defect' \in [Units -> DefectRows]
      /\ defect'[u].here /\ defect'[u].by = defect[u].by /\ defect'[u].status = "shipped_back"
      /\ "shipped_back" \in defect'[u].at
      /\ \A v \in Units : v # u => defect'[v] = defect[v]
  BY <1>1, <1>2 DEF DefectRows, ReplacementStatuses, Stamps
<1>4. DefectRowsOK'
  BY <1>1, <1>3 DEF DefectInv, DefectRowsOK
<1>5. ReportTruthful'
  BY <1>1, <1>3 DEF DefectInv, ReportsOK, ReportTruthful
<1>6. QED BY <1>1, <1>3, <1>4, <1>5, MarkedAlone DEF Shipped, ReportKept

\* The three statements of a declaration, the flags of the receipts and the
\* arrivals.
LEMMA DefectMarks ==
  ASSUME DefectInv, NEW p \in Slots,
         \/ \E u \in Units : DeclareDefect(p, u)
         \/ DeclareFlag(p) \/ DeclareStatus(p) \/ ReceiptFlag(p) \/ ArrivedWrite(p)
  PROVE  DefectInv'
<1>1. ASSUME NEW u \in Units, DeclareDefect(p, u) PROVE DefectInv'
  <2> DEFINE r == Serving("declare.flag", u)
  <2>1. /\ r \in Requests(DefectReached) /\ r.at = "declare.flag"
        /\ r.unit = u /\ r.replaces = NoUnit
    BY NewRequests DEF DefectReached, DefectSteps
  <2>2. /\ req' = [req EXCEPT ![p] = r] /\ req[p].at = "idle" /\ unit[u].here
        /\ UNCHANGED <<unit, exception, made, cut>>
    BY <1>1 DEF DeclareDefect, Begin
  <2> HIDE DEF r
  <2>3. /\ defect' \in [Units -> DefectRows] /\ defect'[u].here
        /\ \A v \in Units : /\ defect[v].here => defect'[v] = defect[v]
                            /\ v # u => defect'[v] = defect[v]
        /\ ~defect[u].here => defect'[u] = NewDefect
    <3>1. defect \in [Units -> DefectRows] /\ NewDefect \in DefectRows /\ NewDefect.here
      BY DEF DefectInv, DefectRowsOK, DefectRows, NewDefect, NoDefect, ReplacementStatuses, Stamps
    <3>2. defect' = [defect EXCEPT ![u] = IF defect[u].here THEN defect[u] ELSE NewDefect]
      BY <1>1 DEF DeclareDefect, Declared
    <3>3. QED BY <3>1, <3>2
  <2>4. NewDefect.by = NoUnit /\ NewDefect.status = "pending" /\ NewDefect.at = {}
    BY DEF NewDefect, NoDefect
  <2>5. DefectRowsOK'
    BY <2>2, <2>3 DEF DefectInv, DefectRowsOK
  <2>6. ReportTruthful'
    <3> SUFFICES ASSUME NEW v \in Units
                 PROVE  /\ unit[v].here /\ unit[v].status = "defective" => defect'[v].here
                        /\ defect'[v].status # "pending" \/ "arrived" \in defect'[v].at
                             => "shipped_back" \in defect'[v].at
                        /\ defect'[v].status = "replacement_received" => defect'[v].by # NoUnit
      BY <2>2 DEF ReportTruthful
    <3>1. CASE v = u /\ ~defect[u].here
      BY <2>3, <2>4, <3>1
    <3>2. CASE v # u \/ defect[u].here
      BY <2>3, <3>2 DEF DefectInv, ReportsOK, ReportTruthful
    <3>3. QED BY <3>1, <3>2
  <2>7. req'[p] = r
    BY <2>2 DEF DefectInv, ServingOK
  <2>8. ServeOK(p)'
    BY <2>1, <2>2, <2>3, <2>7 DEF ServeOK, Replacing
  <2>9. \A q \in Slots : req[q].at = "create.commit" => req[q].unit \notin {r.unit, r.replaces}
    BY <2>1, <2>2, NotHereYet
  <2>10. \A v \in Units : /\ Shipped(v) => Shipped(v)'
                          /\ defect'[v].by # NoUnit => defect'[v] = defect[v]
    BY <2>3, <2>4 DEF Shipped
  <2>11. QED BY <2>1, <2>2, <2>3, <2>5, <2>6, <2>8, <2>9, <2>10, MarkedStep DEF ReportKept
<1>2. CASE DeclareFlag(p)
  <2> DEFINE u == req[p].unit
             r == [req[p] EXCEPT !.at = "declare.status"]
  <2>1. /\ req[p].at = "declare.flag" /\ req' = [req EXCEPT ![p] = r]
        /\ exception' = IF unit[u].here THEN [exception EXCEPT ![u] = TRUE] ELSE exception
        /\ UNCHANGED <<unit, defect, made, cut>>
    BY <1>2 DEF DeclareFlag, SetException, Goto
  <2>2. /\ r \in Requests(DefectReached) /\ r.at = "declare.status" /\ r.unit = u
        /\ r.replaces = req[p].replaces
    BY DefectSlotTyped DEF Requests, DefectReached, DefectSteps
  <2>3. u \in Units /\ (unit[u].here => defect[u].here)
    BY <2>1, DefectSlotTyped DEF ServeOK
  <2> HIDE DEF u, r
  <2>4. req'[p] = r
    BY <2>1 DEF DefectInv, ServingOK
  <2>5. exception' \in [Units -> BOOLEAN]
    BY <2>1 DEF DefectInv, DefectRowsOK
  <2>6. ReportTruthful' /\ DefectRowsOK'
    BY <2>1, <2>5 DEF DefectInv, DefectRowsOK, ReportsOK, ReportTruthful
  <2>7. ServeOK(p)'
    BY <2>1, <2>2, <2>3, <2>4 DEF ServeOK, Replacing
  <2>8. \A q \in Slots \ {p} : req[q].at = "create.commit" =>
                                req[q].unit \notin {r.unit, r.replaces}
    BY <2>2 DEF DefectInv, ServingOK, IdsApart, u
  <2>9. QED BY <2>1, <2>2, <2>6, <2>7, <2>8, MarkedStep DEF Shipped, ReportKept
<1>3. CASE DeclareStatus(p)
  <2>1. /\ req[p].at = "declare.status" /\ SetStatus(req[p].unit, "defective") /\ Finish(p)
        /\ UNCHANGED <<exception, defect, made, cut>>
    BY <1>3 DEF DeclareStatus, defectVars
  <2>2. req[p].unit \in Units /\ (unit[req[p].unit].here => defect[req[p].unit].here)
    BY <2>1, DefectSlotTyped DEF ServeOK
  <2>3. /\ unit' \in [Units -> UnitRows]
        /\ \A v \in Units : /\ unit'[v].here = unit[v].here
                            /\ unit'[v].status = IF v = req[p].unit /\ unit[v].here
                                                 THEN "defective" ELSE unit[v].status
    BY <2>1, <2>2, StatusSet DEF Statuses
  <2>4. DefectRowsOK' /\ ReportTruthful'
    BY <2>1, <2>2, <2>3 DEF DefectInv, DefectRowsOK, ReportsOK, ReportTruthful
  <2>5. QED BY <2>1, <2>3, <2>4, IdleServes, MarkedStep DEF Shipped, ReportKept
<1>4. CASE ReceiptFlag(p)
  <2> DEFINE u == req[p].unit
             raised == req[p].at = "flag.raise"
  <2>1. /\ req[p].at \in {"flag.raise", "flag.clear"} /\ Finish(p)
        /\ exception' = IF unit[u].here THEN [exception EXCEPT ![u] = raised] ELSE exception
        /\ UNCHANGED <<unit, defect, made, cut>>
    BY <1>4 DEF ReceiptFlag, SetException
  <2>2. u \in Units
    BY <2>1, DefectSlotTyped DEF ServeOK
  <2>3. raised \in BOOLEAN
    OBVIOUS
  <2> HIDE DEF u, raised
  <2>4. exception' \in [Units -> BOOLEAN]
    BY <2>1, <2>2, <2>3, Zenon DEF DefectInv, DefectRowsOK
  <2>5. ReportTruthful' /\ DefectRowsOK'
    BY <2>1, <2>4 DEF DefectInv, DefectRowsOK, ReportsOK, ReportTruthful
  <2>6. QED BY <2>1, <2>5, IdleServes, MarkedStep DEF Shipped, ReportKept
<1>5. CASE ArrivedWrite(p)
  <2> DEFINE u == req[p].unit
  <2>1. /\ req[p].at = "arrived.write" /\ Finish(p)
        /\ defect' = IF defect[u].here THEN [defect EXCEPT ![u].at = @ \cup {"arrived"}] ELSE defect
        /\ UNCHANGED <<unit, exception, made, cut>>
    BY <1>5 DEF ArrivedWrite, Stamp
  <2>2. u \in Units /\ (unit[u].here => Shipped(u))
    BY <2>1, DefectSlotTyped DEF ServeOK
  <2> HIDE DEF u
  <2>3. defect[u].here => "shipped_back" \in defect[u].at
    BY <2>2 DEF DefectInv, DefectRowsOK, Shipped
  <2>4. /\ defect' \in [Units -> DefectRows]
        /\ \A v \in Units : /\ defect'[v].here = defect[v].here /\ defect'[v].by = defect[v].by
                            /\ defect'[v].status = defect[v].status
                            /\ defect[v].at \subseteq defect'[v].at
                            /\ (v = u /\ defect[u].here) \/ defect'[v].at = defect[v].at
    <3>1. defect \in [Units -> DefectRows]
      BY DEF DefectInv, DefectRowsOK
    <3>2. CASE defect[u].here
      BY <2>1, <2>2, <3>1, <3>2 DEF DefectRows, Stamps
    <3>3. CASE ~defect[u].here
      BY <2>1, <3>1, <3>3
    <3>4. QED BY <3>2, <3>3
  <2>5. DefectRowsOK'
    BY <2>1, <2>4 DEF DefectInv, DefectRowsOK
  <2>6. ReportTruthful'
    BY <2>1, <2>3, <2>4 DEF DefectInv, ReportsOK, ReportTruthful
  <2>7. QED BY <2>1, <2>4, <2>5, <2>6, IdleServes, MarkedStep DEF Shipped, ReportKept
<1>6. QED BY <1>1, <1>2, <1>3, <1>4, <1>5

\* The creation of a replacement commits: its unit is there, made for the
\* report, and is to be linked next.
LEMMA ReplacementCommits ==
  ASSUME DefectInv, NEW p \in Slots, ReplacementCommit(p)
  PROVE  DefectInv'
<1> DEFINE u == req[p].unit
           d == req[p].replaces
           r == [req[p] EXCEPT !.at = "replace.link"]
<1>1. /\ req[p].at = "create.commit"
      /\ unit' = [unit EXCEPT ![u] = UnitRow(req[p].serial, req[p].item)]
      /\ d # NoUnit => req' = [req EXCEPT ![p] = r]
      /\ made' = IF defect[d].here THEN [made EXCEPT ![u] = d] ELSE made
      /\ UNCHANGED <<exception, defect, cut>>
  BY DEF ReplacementCommit, CreateCommit, Goto
<1>2. /\ u \in Units /\ d \in Units /\ ~unit[u].here /\ u # d
      /\ unit[d].here => Shipped(d)
  BY <1>1, DefectSlotTyped DEF ServeOK, Replacing
<1>3. /\ r \in Requests(DefectReached) /\ r.at = "replace.link" /\ r.unit = u /\ r.replaces = d
  BY DefectSlotTyped DEF Requests, DefectReached, DefectSteps
<1>4. UnitRow(req[p].serial, req[p].item) \in UnitRows /\ UnitRow(req[p].serial, req[p].item).here
      /\ UnitRow(req[p].serial, req[p].item).status = "active"
  BY DefectSlotTyped DEF UnitRow, UnitRows, Statuses
<1>5. \A q \in Slots \ {p} : req[q].at = "create.commit" =>
                                req[q].unit \notin {r.unit, r.replaces}
  BY <1>3 DEF DefectInv, ServingOK, IdsApart
<1>6. \A q \in Slots \ {p} : u \notin {req[q].unit, req[q].replaces}
  BY <1>1 DEF DefectInv, ServingOK, IdsApart
<1> HIDE DEF u, d, r
<1>7. req' = [req EXCEPT ![p] = r] /\ req'[p] = r
  BY <1>1, <1>2, UnitsAssumption DEF DefectInv, ServingOK
<1>8. /\ unit' \in [Units -> UnitRows] /\ unit'[u].here /\ unit'[u].status = "active"
      /\ \A v \in Units : v # u => unit'[v] = unit[v]
  BY <1>1, <1>2, <1>4 DEF DefectInv, DefectRowsOK
<1>9. made[u] = NoUnit /\ ~defect[u].here
  BY <1>2 DEF DefectInv, MadeOK, DefectRowsOK
<1>10. /\ made' \in [Units -> Units \cup {NoUnit}]
       /\ made'[u] = IF defect[d].here THEN d ELSE NoUnit
       /\ \A v \in Units : v # u => made'[v] = made[v]
  BY <1>1, <1>2, <1>9 DEF DefectInv, DefectRowsOK
<1>11. DefectRowsOK'
  BY <1>1, <1>8, <1>10 DEF DefectInv, DefectRowsOK
<1>12. \A v \in Units : made[v] # u
  BY <1>2, <1>9, UnitsAssumption DEF DefectInv, MadeOK
<1>13. \A v \in Units : RowKept(v) \/ v = u
  BY <1>1, <1>8, <1>10 DEF RowKept, Shipped
<1>14. ServeOK(p)'
  <2>1. unit'[d].here => Shipped(d)
    BY <1>2, <1>8
  <2>2. unit'[d].here => made'[u] = d
    BY <2>1, <1>10 DEF Shipped
  <2>3. req'[p] = r /\ defect' = defect
    BY <1>1, <1>7
  <2>4. QED BY <1>2, <1>3, <1>10, <2>1, <2>2, <2>3 DEF ServeOK, Replacing, Shipped
<1>15. ServingOK'
  <2>1. u = req[p].unit
    BY DEF u
  <2>2. r.at = "create.commit" => \A q \in Slots \ {p} : r.unit \notin {req[q].unit, req[q].replaces}
    BY <1>3
  <2>3. \A v \in Units : RowKept(v) \/ (req[p].at = "create.commit" /\ v = req[p].unit)
    BY <1>1, <1>13, <2>1
  <2>4. QED BY <1>3, <1>5, <1>7, <1>14, <2>2, <2>3, ServingStep
<1>16. ReportTruthful'
  BY <1>1, <1>8 DEF DefectInv, ReportsOK, ReportTruthful
<1>17. ReplacementExists'
  BY <1>1, <1>8 DEF DefectInv, ReportsOK, ReplacementExists, DefectRowsOK, DefectRows
<1>18. MadeOK'
  <2>1. ASSUME NEW v \in Units, made'[v] # NoUnit
        PROVE  /\ unit'[v].here /\ defect[made'[v]].here
               /\ v \in cut \/ Linking(v)' \/ defect[made'[v]].by # NoUnit
    <3>1. CASE v = u
      <4>1. \E q \in Slots : req'[q].at = "replace.link" /\ req'[q].unit = v
        BY <1>3, <1>7, <3>1
      <4>2. Linking(v)'
        BY <4>1 DEF Linking
      <4>3. QED BY <1>8, <1>10, <2>1, <3>1, <4>2
    <3>2. CASE v # u
      <4>1. Linking(v) => Linking(v)'
        <5>1. \A q \in Slots : q # p => req'[q] = req[q]
          BY <1>7 DEF DefectInv, ServingOK
        <5>2. QED BY <1>1, <5>1 DEF Linking
      <4>2. made'[v] = made[v] /\ unit'[v] = unit[v]
        BY <1>8, <1>10, <3>2
      <4>3. QED BY <2>1, <4>1, <4>2 DEF DefectInv, MadeOK
    <3>3. QED BY <3>1, <3>2
  <2>2. ASSUME NEW v \in Units, defect[v].by # NoUnit PROVE made'[defect[v].by] = v
    <3>1. defect[v].by \in Units /\ unit[defect[v].by].here /\ made[defect[v].by] = v
      BY <2>2 DEF DefectInv, DefectRowsOK, DefectRows, ReportsOK, ReplacementExists, MadeOK
    <3>2. QED BY <1>2, <1>10, <3>1
  <2>3. QED BY <1>1, <2>1, <2>2 DEF MadeOK
<1>19. QED BY <1>11, <1>15, <1>16, <1>17, <1>18 DEF DefectInv, ReportsOK

\* The link: both are there, or nothing is written.
LEMMA ReplacementLinks ==
  ASSUME DefectInv, NEW p \in Slots, ReplaceLink(p)
  PROVE  DefectInv'
<1> DEFINE u == req[p].unit
           d == req[p].replaces
<1>1. /\ req[p].at = "replace.link" /\ Finish(p) /\ UNCHANGED <<unit, exception, made, cut>>
      /\ defect' = IF defect[d].here /\ unit[u].here
                   THEN [defect EXCEPT ![d].status = "replacement_received", ![d].by = u]
                   ELSE defect
  BY DEF ReplaceLink
<1>2. /\ u \in Units /\ d \in Units /\ made[u] \in {d, NoUnit}
      /\ unit[d].here => Shipped(d)
      /\ unit[u].here /\ unit[d].here => made[u] = d
  BY <1>1, DefectSlotTyped DEF ServeOK, Replacing
<1>3. \A v \in Units : Linking(v) => v = u \/ Linking(v)'
  <2>1. \A q \in Slots : q # p => req'[q] = req[q]
    BY <1>1 DEF Finish, DefectInv, ServingOK
  <2>2. QED BY <2>1 DEF Linking
<1> HIDE DEF u, d
<1>4. defect \in [Units -> DefectRows]
  BY DEF DefectInv, DefectRowsOK
<1>5. CASE defect[d].here /\ unit[u].here
  <2>1. /\ defect' \in [Units -> DefectRows]
        /\ defect'[d].here /\ defect'[d].by = u /\ defect'[d].status = "replacement_received"
        /\ defect'[d].at = defect[d].at
        /\ \A v \in Units : v # d => defect'[v] = defect[v]
    BY <1>1, <1>2, <1>4, <1>5 DEF DefectRows, ReplacementStatuses
  <2>2. made[u] = d /\ "shipped_back" \in defect[d].at /\ unit[d].here
    BY <1>2, <1>5 DEF DefectInv, DefectRowsOK, Shipped
  <2>3. DefectRowsOK'
    BY <1>1, <2>1, <2>2 DEF DefectInv, DefectRowsOK
  <2>4. \A v \in Units : RowKept(v)
    BY <1>1, <2>1, <1>5 DEF RowKept, Shipped
  <2>5. ServingOK'
    BY <1>1, <2>4, IdleServes, ServingStep
  <2>6. ReportTruthful'
    BY <1>1, <1>2, <2>1, <2>2, UnitsAssumption DEF DefectInv, ReportsOK, ReportTruthful
  <2>7. ReplacementExists'
    BY <1>1, <1>5, <2>1 DEF DefectInv, ReportsOK, ReplacementExists
  <2>8. MadeOK'
    <3>1. ASSUME NEW v \in Units, made[v] # NoUnit
          PROVE  /\ unit[v].here /\ defect'[made[v]].here
                 /\ v \in cut \/ Linking(v)' \/ defect'[made[v]].by # NoUnit
      <4>1. /\ unit[v].here /\ defect[made[v]].here /\ made[v] \in Units
            /\ v \in cut \/ Linking(v) \/ defect[made[v]].by # NoUnit
        BY <3>1 DEF DefectInv, MadeOK, DefectRowsOK
      <4>2. CASE made[v] = d
        BY <1>2, <2>1, <4>1, <4>2, UnitsAssumption
      <4>3. CASE made[v] # d
        BY <1>3, <2>1, <2>2, <4>1, <4>3
      <4>4. QED BY <4>2, <4>3
    <3>2. \A v \in Units : defect'[v].by # NoUnit => made[defect'[v].by] = v
      BY <2>1, <2>2 DEF DefectInv, MadeOK
    <3>3. QED BY <1>1, <3>1, <3>2 DEF MadeOK
  <2>9. QED BY <2>3, <2>5, <2>6, <2>7, <2>8 DEF DefectInv, ReportsOK
<1>6. CASE ~(defect[d].here /\ unit[u].here)
  <2>1. UNCHANGED <<unit, exception, defect, made, cut>>
    BY <1>1, <1>6
  <2>2. made[u] = NoUnit
    BY <1>2, <1>6, UnitsAssumption DEF DefectInv, MadeOK
  <2>3. DefectRowsOK' /\ ReportsOK'
    BY <2>1 DEF DefectInv, DefectRowsOK, ReportsOK, ReportTruthful, ReplacementExists
  <2>4. ServingOK'
    BY <1>1, <2>1, RowsSame, IdleServes, ServingStep
  <2>5. MadeOK'
    BY <1>3, <2>1, <2>2 DEF DefectInv, MadeOK
  <2>6. QED BY <2>3, <2>4, <2>5 DEF DefectInv
<1>7. QED BY <1>5, <1>6

\* A request cut short, before its link too.
LEMMA DefectAborts ==
  ASSUME DefectInv, NEW p \in Slots, DefectAbort(p)
  PROVE  DefectInv'
<1>1. /\ Finish(p) /\ UNCHANGED <<unit, exception, defect, made>>
      /\ cut' = IF req[p].at = "replace.link" THEN cut \cup {req[p].unit} ELSE cut
  BY DEF DefectAbort, Abort
<1>2. req[p].at = "replace.link" => req[p].unit \in Units
  BY DefectSlotTyped DEF ServeOK
<1>3. cut \subseteq cut' /\ cut' \subseteq Units
  BY <1>1, <1>2 DEF DefectInv, DefectRowsOK
<1>4. DefectRowsOK' /\ ReportsOK'
  BY <1>1, <1>3 DEF DefectInv, DefectRowsOK, ReportsOK, ReportTruthful, ReplacementExists
<1>5. ServingOK'
  BY <1>1, RowsSame, IdleServes, ServingStep
<1>6. MadeOK'
  BY <1>1, <1>3, IdleServes, MadeKeeps
<1>7. QED BY <1>4, <1>5, <1>6 DEF DefectInv

\* A purge takes a retired unit, its report and the replacements made for it,
\* and no unit a report names.
LEMMA DefectPurges ==
  ASSUME DefectInv, NEW p \in Slots, DefectPurge(p)
  PROVE  /\ DefectInv'
         /\ \A u \in Gone : unit[u].status = "retired"
<1> DEFINE u == req[p].unit
<1>1. PICK free \in BOOLEAN :
        /\ req[p].at = "purge.delete" /\ Finish(p) /\ Forget(Gone)
        /\ IF StillRetired(u) /\ NotReplacement(u) /\ free
           THEN unit' = [unit EXCEPT ![u] = NoRow] ELSE unit' = unit
  <2>1. PICK onDocket \in BOOLEAN : PurgeDelete(p, Purgeable(u) /\ ~onDocket)
    BY DEF DefectPurge
  <2>2. Finish(p) /\ req[p].at = "purge.delete" /\ Forget(Gone)
    BY <2>1 DEF PurgeDelete, DefectPurge
  <2>3. IF StillRetired(u) /\ NotReplacement(u) /\ ~onDocket
        THEN unit' = [unit EXCEPT ![u] = NoRow] ELSE unit' = unit
    BY <2>1 DEF PurgeDelete, Purgeable
  <2>4. QED BY <2>2, <2>3
<1>2. u \in Units
  BY <1>1, DefectSlotTyped DEF ServeOK
<1> HIDE DEF u
<1>3. /\ NoRow \in UnitRows /\ ~NoRow.here
      /\ NoDefect \in DefectRows /\ ~NoDefect.here /\ NoDefect.by = NoUnit
      /\ NoDefect.status = "pending" /\ NoDefect.at = {}
  BY DEF NoRow, UnitRows, Statuses, NoDefect, DefectRows, ReplacementStatuses, Stamps
<1>4. /\ unit' \in [Units -> UnitRows]
      /\ \A v \in Units : v \notin Gone => unit'[v].here = unit[v].here
                                           /\ unit'[v].status = unit[v].status
      /\ \A v \in Units : v \in Gone <=> unit[v].here /\ ~unit'[v].here
      /\ Gone \subseteq {u}
      /\ u \in Gone => StillRetired(u) /\ NotReplacement(u)
  BY <1>1, <1>2, <1>3 DEF DefectInv, DefectRowsOK, Gone, StillRetired
<1>5. /\ exception' = [v \in Units |-> exception[v] /\ v \notin Gone]
      /\ defect' = [v \in Units |-> IF v \in Gone THEN NoDefect ELSE defect[v]]
      /\ made' = [v \in Units |-> IF {v, made[v]} \cap Gone # {} THEN NoUnit ELSE made[v]]
      /\ cut' = cut \ Gone
  BY <1>1 DEF Forget
<1>6. exception' \in [Units -> BOOLEAN]
  BY <1>5
<1>7. DefectRowsOK'
  BY <1>3, <1>4, <1>5, <1>6 DEF DefectInv, DefectRowsOK
<1>8. \A v \in Units : /\ v \notin Gone => defect'[v] = defect[v]
                       /\ v \in Gone => defect'[v] = NoDefect
                       /\ made'[v] = IF v \in Gone \/ made[v] \in Gone THEN NoUnit ELSE made[v]
  BY <1>5
<1>9. ReportTruthful'
  <2> SUFFICES ASSUME NEW v \in Units
               PROVE  /\ unit'[v].here /\ unit'[v].status = "defective" => defect'[v].here
                      /\ defect'[v].status # "pending" \/ "arrived" \in defect'[v].at
                           => "shipped_back" \in defect'[v].at
                      /\ defect'[v].status = "replacement_received" => defect'[v].by # NoUnit
    BY DEF ReportTruthful
  <2>1. CASE v \in Gone
    BY <1>3, <1>4, <1>8, <2>1
  <2>2. CASE v \notin Gone
    BY <1>4, <1>8, <2>2 DEF DefectInv, ReportsOK, ReportTruthful
  <2>3. QED BY <2>1, <2>2
<1>10. \A v \in Units : defect'[v].by # NoUnit =>
          v \notin Gone /\ defect'[v] = defect[v] /\ defect[v].by \in Units /\ defect[v].by \notin Gone
  BY <1>3, <1>4, <1>8 DEF NotReplacement, DefectInv, DefectRowsOK, DefectRows
<1>11. ReplacementExists'
  BY <1>4, <1>10 DEF DefectInv, ReportsOK, ReplacementExists
<1>12. \A v \in Units : RowKept(v)
  <2> SUFFICES ASSUME NEW v \in Units PROVE RowKept(v)
    OBVIOUS
  <2>1. unit'[v].here => v \notin Gone
    BY <1>4
  <2>2. made'[v] \in {made[v], NoUnit}
    BY <1>8
  <2>3. ASSUME made[v] # NoUnit, unit'[v].here, unit'[made[v]].here PROVE made'[v] = made[v]
    <3>1. made[v] \in Units
      BY <2>3 DEF DefectInv, DefectRowsOK
    <3>2. made[v] \notin Gone
      BY <1>4, <2>3, <3>1
    <3>3. QED BY <1>8, <2>1, <2>3, <3>2
  <2>4. QED BY <1>4, <1>8, <2>1, <2>2, <2>3 DEF RowKept, Shipped
<1>13. ServingOK'
  BY <1>1, <1>12, IdleServes, ServingStep
<1>14. MadeOK'
  <2>1. \A v : Linking(v) => Linking(v)'
    <3>1. \A q \in Slots : q # p => req'[q] = req[q]
      BY <1>1 DEF Finish, DefectInv, ServingOK
    <3>2. QED BY <1>1, <3>1 DEF Linking
  <2>2. ASSUME NEW v \in Units, made'[v] # NoUnit
        PROVE  /\ unit'[v].here /\ defect'[made'[v]].here
               /\ v \in cut' \/ Linking(v)' \/ defect'[made'[v]].by # NoUnit
    <3>1. made'[v] = made[v] /\ v \notin Gone /\ made[v] \notin Gone /\ made[v] \in Units
      BY <1>8, <2>2 DEF DefectInv, DefectRowsOK
    <3>2. /\ unit[v].here /\ defect[made[v]].here
          /\ v \in cut \/ Linking(v) \/ defect[made[v]].by # NoUnit
      BY <2>2, <3>1 DEF DefectInv, MadeOK
    <3>3. QED BY <1>4, <1>5, <1>8, <2>1, <3>1, <3>2
  <2>3. ASSUME NEW v \in Units, defect'[v].by # NoUnit PROVE made'[defect'[v].by] = v
    BY <1>8, <1>10, <2>3 DEF DefectInv, MadeOK
  <2>4. QED BY <2>2, <2>3 DEF MadeOK
<1>15. \A v \in Gone : unit[v].status = "retired"
  BY <1>4 DEF StillRetired
<1>16. QED BY <1>7, <1>9, <1>11, <1>13, <1>14, <1>15 DEF DefectInv, ReportsOK

LEMMA DefectInvInit == DefectInit => DefectInv
<1> SUFFICES ASSUME DefectInit PROVE DefectInv
  OBVIOUS
<1>1. PICK first \in Units, s \in Serials :
        unit = [u \in Units |-> IF u = first THEN UnitRow(s, NoItem) ELSE NoRow]
  BY DEF DefectInit
<1>2. /\ req = [p \in Slots |-> NoRequest] /\ exception = [u \in Units |-> FALSE]
      /\ defect = [u \in Units |-> NoDefect] /\ cut = {} /\ made = [u \in Units |-> NoUnit]
  BY DEF DefectInit
<1>3. /\ UnitRow(s, NoItem) \in UnitRows /\ NoRow \in UnitRows
      /\ UnitRow(s, NoItem).status = "active" /\ ~NoRow.here
      /\ NoDefect \in DefectRows /\ ~NoDefect.here /\ NoDefect.by = NoUnit
      /\ NoDefect.status = "pending" /\ NoDefect.at = {}
  BY DEF UnitRow, NoRow, UnitRows, Statuses, NoDefect, DefectRows, ReplacementStatuses, Stamps
<1>4. DefectRowsOK
  BY <1>1, <1>2, <1>3 DEF DefectRowsOK
<1>5. ServingOK
  BY <1>2, NewRequests DEF ServingOK, IdsApart, ServeOK, Replacing
<1>6. ReportsOK
  BY <1>1, <1>2, <1>3 DEF ReportsOK, ReportTruthful, ReplacementExists
<1>7. MadeOK
  BY <1>2, <1>3 DEF MadeOK
<1>8. QED BY <1>4, <1>5, <1>6, <1>7 DEF DefectInv

LEMMA DefectInvNext == DefectInv /\ [Next]_vars => DefectInv'
<1> SUFFICES ASSUME DefectInv, [Next]_vars PROVE DefectInv'
  OBVIOUS
<1>1. CASE UNCHANGED vars
  BY <1>1 DEF vars, unitVars, defectVars, DefectInv, DefectRowsOK, ServingOK, IdsApart, ServeOK,
              Shipped, ReportsOK, ReportTruthful, ReplacementExists, MadeOK, Linking
<1>2. CASE Next
  BY <1>2, DefectReads, DefectMarks, DefectStatements, DefectShips, ReplacementCommits,
     ReplacementLinks, DefectAborts, DefectPurges DEF Next
<1>3. QED BY <1>1, <1>2

\* A unit that is there stays, unless a purge finds it retired.
LEMMA OnlyPurgesRemove ==
  ASSUME DefectInv, [Next]_vars PROVE \A u \in Gone : unit[u].status = "retired"
<1>1. ASSUME UNCHANGED unit PROVE Gone = {}
  BY <1>1 DEF Gone
<1>2. ASSUME NEW u \in Units, NEW s \in Statuses, SetStatus(u, s) PROVE Gone = {}
  BY <1>2, StatusSet DEF Gone
<1>3. ASSUME NEW p \in Slots, DefectPurge(p) PROVE \A u \in Gone : unit[u].status = "retired"
  BY <1>3, DefectPurges
<1>4. ASSUME NEW p \in Slots, ReplacementCommit(p) PROVE Gone = {}
  <2>1. unit' = [unit EXCEPT ![req[p].unit] = UnitRow(req[p].serial, req[p].item)]
    BY <1>4 DEF ReplacementCommit, CreateCommit
  <2>2. UnitRow(req[p].serial, req[p].item).here /\ unit \in [Units -> UnitRows]
    BY DEF UnitRow, DefectInv, DefectRowsOK
  <2>3. QED BY <2>1, <2>2 DEF Gone
<1>5. ASSUME NEW p \in Slots, DeclareStatus(p) PROVE Gone = {}
  <2>1. SetStatus(req[p].unit, "defective") /\ req[p].unit \in Units
    BY <1>5, DefectSlotTyped DEF DeclareStatus, ServeOK
  <2>2. QED BY <1>2, <2>1 DEF Statuses
<1>6. ASSUME NEW u \in Units, DeleteUnit(u) \/ RestoreUnit(u) PROVE Gone = {}
  BY <1>2, <1>6 DEF DeleteUnit, RestoreUnit, Retire, Restore, Statuses
<1>7. ASSUME NEW p \in Slots,
             \/ UnitStep(p) \/ DefectAbort(p) \/ DeclareFlag(p) \/ ReceiptFlag(p)
             \/ ArrivedWrite(p) \/ ReplaceLink(p)
             \/ \E u \in Units :
                  \/ DeclareDefect(p, u)
                  \/ \E right \in BOOLEAN :
                       RecordReceiving(p, u, right) \/ RecordSiteReceipt(p, u, right)
                  \/ MarkDelivered(p, u) \/ MarkSupplierReceived(p, u)
                  \/ \E s \in Serials : RecordReplacement(p, u, s)
      PROVE  Gone = {}
  BY <1>1, <1>7 DEF UnitStep, InsertRefused, Insert, PurgeUnit, DefectAbort, Abort, DeclareFlag,
       ReceiptFlag, ArrivedWrite, ReplaceLink, DeclareDefect, RecordReceiving, RecordSiteReceipt,
       Receipt, MarkDelivered, MarkSupplierReceived, MarkArrived, RecordReplacement
<1>8. ASSUME NEW u \in Units, MarkShippedBack(u) PROVE Gone = {}
  BY <1>1, <1>8 DEF MarkShippedBack, unitVars
<1>9. CASE UNCHANGED vars
  BY <1>1, <1>9 DEF vars, unitVars
<1>10. QED BY <1>3, <1>4, <1>5, <1>6, <1>7, <1>8, <1>9 DEF Next

\* The rows of the units and their reports have their types, and a report is
\* always of a unit that is there, however the statements of overlapping
\* requests interleave.
THEOREM DefectsTypeCorrect == DefectSpec => []DefectTypeOK
<1>1. QED BY DefectInvInit, DefectInvNext, DefectInvTypes, PTL DEF DefectSpec

\* A report says what happened, in order, and every defective unit has one:
\* DeclareDefect stores it before the status, and the arrivals and the link
\* read the shipment before they write.
THEOREM ReportsAreTruthful == DefectSpec => []ReportTruthful
<1>1. DefectInv => ReportTruthful
  BY DEF DefectInv, ReportsOK
<1>2. QED BY <1>1, DefectInvInit, DefectInvNext, PTL DEF DefectSpec

\* The replacement a report names exists: RecordReplacement links a committed
\* row, and the foreign key keeps a purge from taking it.
THEOREM ReplacementsExist == DefectSpec => []ReplacementExists
<1>1. DefectInv => ReplacementExists
  BY DEF DefectInv, ReportsOK
<1>2. QED BY <1>1, DefectInvInit, DefectInvNext, PTL DEF DefectSpec

\* Every unit RecordReplacement created is linked from the report it was
\* created for, unless its request was cut short or another one was.
THEOREM ReplacementsAreLinked == DefectSpec => []ReplacementLinked
<1>1. ASSUME DefectInv PROVE ReplacementLinked
  <2> SUFFICES ASSUME NEW u \in Units, made[u] # NoUnit, u \notin cut,
                      \A p \in Slots : req[p].unit # u
               PROVE  defect[made[u]].by = u \/ \E v \in Units \ {u} : made[v] = made[u]
    BY DEF ReplacementLinked
  <2>1. made[u] \in Units /\ defect[made[u]].by # NoUnit
    BY <1>1 DEF DefectInv, DefectRowsOK, MadeOK, Linking
  <2>2. defect[made[u]].by \in Units /\ made[defect[made[u]].by] = made[u]
    BY <1>1, <2>1 DEF DefectInv, DefectRowsOK, DefectRows, MadeOK
  <2>3. QED BY <2>2
<1>2. QED BY <1>1, DefectInvInit, DefectInvNext, PTL DEF DefectSpec

\* A unit restored or declared defective between the two statements of its
\* purge is kept.
THEOREM RetiredIsPurged == DefectSpec => OnlyRetiredPurged
<1>1. DefectInv /\ [Next]_vars => [\A u \in Gone : unit[u].status = "retired"]_vars
  BY OnlyPurgesRemove
<1>2. QED BY <1>1, DefectInvInit, DefectInvNext, PTL DEF DefectSpec, OnlyRetiredPurged
=============================================================================
