------------------------------- MODULE Defects -------------------------------
(***************************************************************************)
(* Units with a problem (internal/defective, and the receipts of the        *)
(* hardware and installation services that raise the same exception flag):  *)
(* the declaration of a defect, the return to the supplier, the replacement *)
(* unit, and how they meet retirement, restoration and purge.  A wipe       *)
(* truncates these tables with hardware_units and is left to HardwareUnits. *)
(***************************************************************************)
EXTENDS HardwareUnits

CONSTANT MaxReports  \* bound: no declaration once this many other units have reports

VARIABLES
  exception,  \* hardware_units.is_exception
  defect,     \* defect_reports: the row of each unit
  made,       \* history: the reported unit each replacement was created for
  cut         \* history: replacements whose request was cut short

defectVars == <<exception, defect, made, cut>>
vars == <<unitVars, defectVars>>

-----------------------------------------------------------------------------
(* defect_reports: replacement_status, the replacement's id, and which      *)
(* timestamps are set; "arrived" is delivered_at or supplier_received_at,   *)
(* whose handlers differ in nothing else.  The report's rendering and        *)
(* mailing stamp two more, which no statement reads, and are left out.      *)

ReplacementStatuses == {"pending", "shipped_back", "replacement_received"}
Stamps == {"shipped_back", "arrived"}

DefectRows == [here : BOOLEAN, status : ReplacementStatuses, at : SUBSET Stamps,
               by : Units \cup {NoUnit}]
NoDefect == [here |-> FALSE, status |-> "pending", at |-> {}, by |-> NoUnit]
NewDefect == [NoDefect EXCEPT !.here = TRUE]

DefectSteps == {"declare.flag", "declare.status", "flag.raise", "flag.clear",
                "arrived.write", "replace.link"}

Stamp(u, stamps) ==
  defect' = IF defect[u].here THEN [defect EXCEPT ![u].at = @ \cup stamps] ELSE defect

\* A unit no defect report names as its replacement.
NotReplacement(u) == \A v \in Units : defect[v].by # u

SetException(u, raised) ==
  exception' = IF unit[u].here THEN [exception EXCEPT ![u] = raised] ELSE exception

-----------------------------------------------------------------------------
(* DeclareDefect: store the report, raise the flag, set the status.         *)

\* Mutant: a second declaration starts the report over.
DeclaredAgain(u) == [NewDefect EXCEPT !.at = defect[u].at]

\* Mutant: the insertion fails and its error is not looked at.
DeclaredUnstored(u) == defect[u]

\* On conflict the row keeps everything but type, description and author.
Declared(u) == IF defect[u].here THEN defect[u] ELSE NewDefect

DeclareDefect(p, u) ==
  /\ unit[u].here
  /\ Begin(p, Serving("declare.flag", u))
  /\ defect' = [defect EXCEPT ![u] = Declared(u)]
  /\ UNCHANGED <<unit, stockVars, historyVars, exception, made, cut>>

DeclareFlag(p) ==
  /\ req[p].at = "declare.flag"
  /\ SetException(req[p].unit, TRUE)
  /\ Goto(p, "declare.status")
  /\ UNCHANGED <<unit, stockVars, historyVars, defect, made, cut>>

DeclareStatus(p) ==
  /\ req[p].at = "declare.status"
  /\ SetStatus(req[p].unit, "defective")
  /\ Finish(p)
  /\ UNCHANGED <<stockVars, historyVars, defectVars>>

-----------------------------------------------------------------------------
(* RecordReceiving and RecordSiteReceipt store a receipt and then overwrite *)
(* the exception flag with whether something was wrong.                     *)

Receipt(p, u, correct) ==
  /\ unit[u].here
  /\ Begin(p, Serving(IF correct THEN "flag.clear" ELSE "flag.raise", u))
  /\ UNCHANGED <<unit, stockVars, historyVars, defectVars>>

RecordReceiving(p, u, itemsCorrect) == Receipt(p, u, itemsCorrect)
RecordSiteReceipt(p, u, noDamage) == Receipt(p, u, noDamage)

ReceiptFlag(p) ==
  /\ req[p].at \in {"flag.raise", "flag.clear"}
  /\ SetException(req[p].unit, req[p].at = "flag.raise")
  /\ Finish(p)
  /\ UNCHANGED <<unit, stockVars, historyVars, defect, made, cut>>

-----------------------------------------------------------------------------
(* The return: MarkShippedBack asks nothing, the arrivals read              *)
(* shipped_back_at first.                                                   *)

ShipBack(u) ==
  defect' = [defect EXCEPT ![u].status = "shipped_back",
                           ![u].at = @ \cup {"shipped_back"}]

MarkShippedBack(u) ==
  /\ defect[u].here
  /\ ShipBack(u)
  /\ UNCHANGED <<unitVars, exception, made, cut>>

Shipped(u) == defect[u].here /\ "shipped_back" \in defect[u].at

MarkArrived(p, u) ==
  /\ Shipped(u)
  /\ Begin(p, Serving("arrived.write", u))
  /\ UNCHANGED <<unit, stockVars, historyVars, defectVars>>

MarkDelivered(p, u) == MarkArrived(p, u)
MarkSupplierReceived(p, u) == MarkArrived(p, u)

ArrivedWrite(p) ==
  /\ req[p].at = "arrived.write"
  /\ Stamp(req[p].unit, {"arrived"})
  /\ Finish(p)
  /\ UNCHANGED <<unit, stockVars, historyVars, exception, made, cut>>

-----------------------------------------------------------------------------
(* RecordReplacement: read the report, create the unit (CreateUnit, in its  *)
(* own transaction and without an item), link it.                           *)

\* Otherwise ErrInvalidReplacement.
MayReplace(u) == defect[u].here /\ defect[u].status = "shipped_back"

RecordReplacement(p, u, s) ==
  /\ MayReplace(u)
  /\ Begin(p, Creating("create.insert", s, NoItem, u))
  /\ UNCHANGED <<unit, stockVars, historyVars, defectVars>>

ReplacementCommit(p) ==
  /\ CreateCommit(p)
  /\ made' = IF defect[req[p].replaces].here
             THEN [made EXCEPT ![req[p].unit] = req[p].replaces] ELSE made
  /\ UNCHANGED <<exception, defect, cut>>

\* The foreign key refuses a replacement that is gone, and then nothing is
\* written.
ReplaceLink(p) ==
  LET r == req[p] IN
  /\ r.at = "replace.link"
  /\ defect' = IF defect[r.replaces].here /\ unit[r.unit].here
               THEN [defect EXCEPT ![r.replaces].status = "replacement_received",
                                   ![r.replaces].by = r.unit]
               ELSE defect
  /\ Finish(p)
  /\ UNCHANGED <<unit, stockVars, historyVars, exception, made, cut>>

-----------------------------------------------------------------------------
(* The actions of HardwareUnits, with what they do to these tables.         *)

\* Mutant: the foreign key of the replacement cascades like the others.
PurgeableCascading(u) == TRUE

\* replacement_hardware_unit_id has no ON DELETE CASCADE.
Purgeable(u) == NotReplacement(u)

\* Mutant: the reports stay when their unit is purged.
ForgetNot(gone) ==
  /\ made' = [u \in Units |-> IF {u, made[u]} \cap gone # {} THEN NoUnit ELSE made[u]]
  /\ cut' = cut \ gone
  /\ UNCHANGED <<exception, defect>>

\* What goes with a deleted hardware_units row.
Forget(gone) ==
  /\ exception' = [u \in Units |-> exception[u] /\ u \notin gone]
  /\ defect' = [u \in Units |-> IF u \in gone THEN NoDefect ELSE defect[u]]
  /\ made' = [u \in Units |-> IF {u, made[u]} \cap gone # {} THEN NoUnit ELSE made[u]]
  /\ cut' = cut \ gone

Gone == {u \in Units : unit[u].here /\ ~unit'[u].here}

DefectPurge(p) ==
  /\ \E onDocket \in BOOLEAN : PurgeDelete(p, Purgeable(req[p].unit) /\ ~onDocket)
  /\ Forget(Gone)

DefectAbort(p) ==
  /\ Abort(p)
  /\ cut' = IF req[p].at = "replace.link" THEN cut \cup {req[p].unit} ELSE cut
  /\ UNCHANGED <<exception, defect, made>>

-----------------------------------------------------------------------------
\* One unit is in the store; the others are yet to be created.
DefectInit ==
  /\ \E first \in Units, s \in Serials :
       unit = [u \in Units |-> IF u = first THEN UnitRow(s, NoItem) ELSE NoRow]
  /\ item = [i \in Items |-> [here |-> FALSE, active |-> FALSE, qty |-> 0]]
  /\ req = [p \in Slots |-> NoRequest]
  /\ book = NoneCounted /\ purged = NoneCounted
  /\ crossed = {} /\ torn = FALSE
  /\ exception = [u \in Units |-> FALSE]
  /\ defect = [u \in Units |-> NoDefect]
  /\ cut = {}
  /\ made = [u \in Units |-> NoUnit]

\* The steps of HardwareUnits that touch none of these tables.
UnitStep(p) ==
  /\ \/ InsertRefused(p) \/ Insert(p)
     \/ \E u \in Units : PurgeUnit(p, u)
  /\ UNCHANGED defectVars

Next ==
  \/ \E p \in Slots :
       \/ UnitStep(p)
       \/ DefectPurge(p) \/ DefectAbort(p)
       \/ \E u \in Units :
            \/ /\ Cardinality({v \in Units \ {u} : defect[v].here}) < MaxReports
               /\ DeclareDefect(p, u)
            \/ /\ defect[u].here   \* bound: no receipts of other units
               /\ \E right \in BOOLEAN :
                    RecordReceiving(p, u, right) \/ RecordSiteReceipt(p, u, right)
            \/ MarkDelivered(p, u) \/ MarkSupplierReceived(p, u)
            \/ \E s \in Serials : RecordReplacement(p, u, s)
       \/ DeclareFlag(p) \/ DeclareStatus(p) \/ ReceiptFlag(p)
       \/ ArrivedWrite(p)
       \/ ReplacementCommit(p) \/ ReplaceLink(p)
  \/ \E u \in Units :
       \/ MarkShippedBack(u)
       \/ (DeleteUnit(u) \/ RestoreUnit(u)) /\ UNCHANGED defectVars

DefectSpec == DefectInit /\ [][Next]_vars

-----------------------------------------------------------------------------
(* Properties.                                                              *)

\* The tables hold what their columns allow, and a report always belongs to a
\* unit that is there: it goes when the unit is purged.
DefectTypeOK ==
  /\ unit \in [Units -> UnitRows]
  /\ req \in [Slots -> Requests({"idle"} \cup UnitSteps \cup DefectSteps)]
  /\ exception \in [Units -> BOOLEAN]
  /\ defect \in [Units -> DefectRows]
  /\ \A u \in Units : defect[u].here => unit[u].here
  /\ cut \subseteq Units
  /\ made \in [Units -> Units \cup {NoUnit}]

\* The unit a report names as the replacement exists: it was created and
\* committed before the link, and no purge removes it.
ReplacementExists ==
  \A u \in Units : defect[u].by # NoUnit =>
    unit[defect[u].by].here /\ defect[u].status # "pending"

\* A unit is never "defective" without a report that says why, and what its row
\* says happened did happen, in that order, however declarations are repeated
\* and requests overlap with each other and with retirements and purges: an
\* arrival follows a shipment, and a replacement a shipment and a created unit.
ReportTruthful ==
  \A u \in Units :
    LET d == defect[u] IN
    /\ unit[u].here /\ unit[u].status = "defective" => d.here
    /\ d.status # "pending" \/ "arrived" \in d.at => "shipped_back" \in d.at
    /\ d.status = "replacement_received" => d.by # NoUnit

\* A unit created as a replacement is linked from the report it was created
\* for, except when its request was cut short before the link or another
\* replacement was created for the same report.
ReplacementLinked ==
  \A u \in Units :
    LET d == made[u] IN
    /\ d # NoUnit /\ u \notin cut
    /\ \A p \in Slots : req[p].unit # u
    => defect[d].by = u \/ \E v \in Units \ {u} : made[v] = d

\* A unit that is purged is retired at that moment: one restored or declared
\* defective between the two statements of a purge is kept.
OnlyRetiredPurged == [][\A u \in Gone : unit[u].status = "retired"]_vars
=============================================================================
