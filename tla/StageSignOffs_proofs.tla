------------------------- MODULE StageSignOffs_proofs -------------------------
(***************************************************************************)
(* Proofs about module StageSignOffs, for every set of units and of stages, *)
(* any number of overlapping requests and any limit on the photos.          *)
(***************************************************************************)
EXTENDS StageSignOffs, Board_proofs, FiniteSetTheorems

AllSteps == UNION {SignSteps[s] : s \in AllStages}
Works == [stage : AllStages, step : AllSteps, closing : BOOLEAN]

TablesOK ==
  /\ form \in [Units -> [AllStages -> Forms]]
  /\ photos \in [Units -> Nat] /\ pictured \subseteq Units
  /\ work \in [Slots -> Works]

\* Rows that ask for something were granted it.
FormsOK ==
  \A u \in Units, s \in AllStages :
    /\ Required[s] \subseteq form[u][s].by => WorkColumn[s] \in granted[u]
    /\ form[u][s].off => WorkColumn[s] \in granted[u]

PicturesOK == InspectedWasPictured /\ \A u \in Units : photos[u] > 0 => u \in pictured

\* The photos that are there and those about to be.
Inserting(u) == {p \in Slots : req[p].at = "photo.insert" /\ req[p].unit = u}
PhotosOK ==
  \A u \in Units :
    photos[u] + Cardinality(Inserting(u)) <= MaxPhotos + Cardinality(Slots) - 1

\* What a request knows of its unit when it goes on: that it was photographed,
\* that the stage was once complete; and "encoded" is a step of stage 1A alone.
WorkFine(p) ==
  /\ req[p].at = "sign.write" =>
       work[p].step \in SignSteps.installation /\ req[p].unit \in pictured
  /\ \/ req[p].at = "sign.enter" /\ work[p].closing
     \/ req[p].at \in {"sign.mark", "sign.advance"}
     => WorkColumn[work[p].stage] \in granted[req[p].unit]
  /\ req[p].at = "sign.read" /\ work[p].step = "encoded" => work[p].stage = "stage1a"

Inv ==
  /\ BoardOK /\ ReqOK(Steps) /\ SyncOK /\ SyncGranted
  /\ TablesOK /\ FormsOK /\ PicturesOK /\ PhotosOK /\ CompletedFormBacked
  /\ \A p \in Slots : WorkFine(p)

LEMMA InvTyped == Inv => TypeOK
BY DEF Inv, BoardOK, ReqOK, TablesOK, TypeOK, Works, AllSteps

LEMMA InsertingFinite ==
  \A u \in Units : IsFiniteSet(Inserting(u)) /\ Cardinality(Inserting(u)) \in Nat
                   /\ Cardinality(Inserting(u)) <= Cardinality(Slots)
<1> TAKE u \in Units
<1>1. Inserting(u) \subseteq Slots
  BY DEF Inserting
<1>2. QED BY <1>1, SlotsAssumption, FS_Subset, FS_CardinalityType

LEMMA SlotsCount == Cardinality(Slots) \in Nat /\ MaxPhotos \in Nat /\ MaxPhotos >= 1
BY SlotsAssumption, FS_CardinalityType, MaxPhotosAssumption

LEMMA InvBounds == Inv => PhotoOvershootBounded
<1> SUFFICES ASSUME Inv, NEW u \in Units
             PROVE  photos[u] <= MaxPhotos + Cardinality(Slots) - 1
  BY DEF PhotoOvershootBounded
<1>1. photos[u] + Cardinality(Inserting(u)) <= MaxPhotos + Cardinality(Slots) - 1
  BY DEF Inv, PhotosOK
<1>2. photos[u] \in Nat /\ Cardinality(Inserting(u)) \in Nat
  BY InsertingFinite DEF Inv, TablesOK
<1>3. QED BY <1>1, <1>2, SlotsCount

LEMMA InvHarmless == Inv => StaleReadsHarmless
BY DEF Inv, FormsOK, StaleReadsHarmless, SignedOffOnceComplete

LEMMA RequiredSome ==
  ASSUME NEW s \in AllStages
  PROVE  /\ Required[s] # {} /\ Required[s] \subseteq SignSteps[s]
         /\ WorkColumn[s] \in Columns \ {"completed"} /\ SignSteps[s] \subseteq AllSteps
<1>1. CASE s = "stage1a"
  BY <1>1 DEF Required, SignSteps, WorkColumn, Columns, AllSteps, AllStages
<1>2. CASE s = "stage1b"
  BY <1>2 DEF Required, SignSteps, WorkColumn, Columns, AllSteps, AllStages
<1>3. CASE s = "installation"
  BY <1>3 DEF Required, SignSteps, WorkColumn, Columns, AllSteps, AllStages
<1>4. QED BY <1>1, <1>2, <1>3 DEF AllStages

LEMMA InitInv == Init => Inv
<1> SUFFICES ASSUME Init PROVE Inv
  OBVIOUS
<1>1. BoardOK
  BY DEF Init, BoardOK, Ledger!Movers, Columns
<1>2. ReqOK(Steps) /\ \A p \in Slots : req[p].at = "idle"
  BY NoRequestTyped DEF Init, ReqOK, Steps
<1>3. NoWork \in Works
  BY DEF NoWork, Works, AllSteps, AllStages, SignSteps
<1>4. TablesOK
  BY <1>3 DEF Init, TablesOK, NoForm, Forms
<1>5. FormsOK
  <2>1. \A u \in Units, s \in AllStages : form[u][s].by = {} /\ form[u][s].off = FALSE
    BY DEF Init, NoForm
  <2>2. QED BY <2>1, RequiredSome DEF FormsOK
<1>6. PicturesOK
  BY DEF Init, PicturesOK, InspectedWasPictured, NoForm, AllStages
<1>7. PhotosOK
  <2> SUFFICES ASSUME NEW u \in Units
               PROVE  photos[u] + Cardinality(Inserting(u)) <= MaxPhotos + Cardinality(Slots) - 1
    BY DEF PhotosOK
  <2>1. Inserting(u) = {}
    BY <1>2 DEF Inserting
  <2>2. photos[u] = 0 /\ Cardinality(Inserting(u)) = 0
    BY <2>1, FS_EmptySet DEF Init
  <2>3. QED BY <2>2, SlotsCount
<1>8. CompletedFormBacked
  BY DEF Init, CompletedFormBacked
<1>9. \A p \in Slots : WorkFine(p)
  BY <1>2 DEF WorkFine
<1>10. SyncOK /\ SyncGranted
  BY <1>2 DEF SyncOK, SyncGranted
<1>11. QED BY <1>1, <1>2, <1>4, <1>5, <1>6, <1>7, <1>8, <1>9, <1>10 DEF Inv

-----------------------------------------------------------------------------
(* What every step keeps.                                                   *)

\* Only the work of slot p changes.
WorkOf(p) == \A q \in Slots \ {p} : work'[q] = work[q]

\* Photos and uploads under way are no more.
LEMMA PhotosFewer ==
  ASSUME Inv, NEW p \in Slots, Others(p), req'[p].at # "photo.insert",
         photos' \in [Units -> Nat], \A u \in Units : photos'[u] <= photos[u]
  PROVE  PhotosOK'
<1> SUFFICES ASSUME NEW u \in Units
             PROVE  photos'[u] + Cardinality(Inserting(u)') <= MaxPhotos + Cardinality(Slots) - 1
  BY DEF PhotosOK
<1> DEFINE new == Inserting(u)'
<1> DEFINE old == Inserting(u)
<1>1. IsFiniteSet(old) /\ Cardinality(old) \in Nat
  BY InsertingFinite
<1>2. new \subseteq old
  BY DEF Inserting, Others
<1>3. photos[u] + Cardinality(old) <= MaxPhotos + Cardinality(Slots) - 1
  BY DEF Inv, PhotosOK
<1>4. photos[u] \in Nat /\ photos'[u] \in Nat /\ photos'[u] <= photos[u]
  BY DEF Inv, TablesOK
<1> HIDE DEF new, old
<1>5. Cardinality(new) \in Nat /\ Cardinality(new) <= Cardinality(old)
  BY <1>1, <1>2, FS_Subset, FS_CardinalityType
<1>6. photos'[u] + Cardinality(new) <= MaxPhotos + Cardinality(Slots) - 1
  BY <1>1, <1>3, <1>4, <1>5, SlotsCount
<1>7. QED BY <1>6 DEF new

\* A step of slot p keeps the invariant when nothing granted or pictured is
\* taken back and what it leaves in the slot is fine.
LEMMA SlotStep ==
  ASSUME Inv, NEW p \in Slots,
         ReqOK(Steps)', Others(p), req'[p].at \notin {"sync.check", "sync.write"},
         BoardOK', TablesOK', FormsOK', PicturesOK', PhotosOK', CompletedFormBacked',
         WorkOf(p), WorkFine(p)',
         \A u \in Units : granted[u] \subseteq granted'[u], pictured \subseteq pictured'
  PROVE  Inv'
<1>1. SyncOK' /\ SyncGranted'
  BY SyncFrame DEF Inv
<1>2. ASSUME NEW q \in Slots \ {p}
      PROVE  WorkFine(q)'
  <2>1. WorkFine(q) /\ req'[q] = req[q] /\ work'[q] = work[q] /\ req[q].unit \in Units
    BY SlotReq DEF Inv, Others, WorkOf
  <2>2. QED BY <2>1 DEF WorkFine
<1>3. QED BY <1>1, <1>2 DEF Inv

\* A step of the ledger backs what it moves.
LEMMA BackedLate ==
  ASSUME BoardOK, CompletedFormBacked, [Ledger!Next]_ledgerVars
  PROVE  CompletedFormBacked'
<1> SUFFICES ASSUME NEW v \in Units, column'[v] \in {"shipment", "commissioning"}
             PROVE  Ledger!Backed(v)'
  BY DEF CompletedFormBacked
<1>1. ASSUME NEW us \in SUBSET Units, NEW c \in Columns, Ledger!Grant(us, c)
      PROVE  Ledger!Backed(v)'
  <2>1. granted[v] \subseteq granted'[v] /\ UNCHANGED <<column, mover>>
    BY <1>1 DEF Ledger!Grant, BoardOK
  <2>2. QED BY <2>1 DEF CompletedFormBacked, Ledger!Backed
<1>2. ASSUME NEW u \in Units, NEW c \in Columns, NEW who \in Ledger!Movers,
             Ledger!Enter(u, c, who)
      PROVE  Ledger!Backed(v)'
  BY <1>2 DEF Ledger!Enter, Ledger!Backed, BoardOK, CompletedFormBacked
<1>3. ASSUME NEW u \in Units, NEW c \in Columns, Ledger!AdminMove(u, c)
      PROVE  Ledger!Backed(v)'
  BY <1>3 DEF Ledger!AdminMove, Ledger!Backed, BoardOK, CompletedFormBacked
<1>4. CASE UNCHANGED ledgerVars
  BY <1>4 DEF Ledger!Backed, ledgerVars, CompletedFormBacked
<1>5. QED BY <1>1, <1>2, <1>3, <1>4, SameColumns DEF Ledger!Next

\* A step that leaves the board alone.
LEMMA QuietStep ==
  ASSUME Inv, NEW p \in Slots,
         ReqOK(Steps)', Others(p),
         req'[p].at \notin {"sync.check", "sync.write", "photo.insert"},
         UNCHANGED <<ledgerVars, photoVars>>, TablesOK', FormsOK', PicturesOK',
         WorkOf(p), WorkFine(p)'
  PROVE  Inv'
<1>1. BoardOK' /\ CompletedFormBacked'
  BY BackedLate DEF Inv, BoardOK, ledgerVars
<1>2. PhotosOK'
  <2>1. \A u \in Units : photos'[u] <= photos[u]
    BY DEF photoVars, Inv, TablesOK
  <2>2. photos' \in [Units -> Nat] /\ req'[p].at # "photo.insert"
    BY DEF TablesOK
  <2>3. QED BY <2>1, <2>2, PhotosFewer
<1>3. QED BY <1>1, <1>2, SlotStep DEF ledgerVars, photoVars

LEMMA SlotTyped ==
  ASSUME Inv, NEW p \in Slots
  PROVE  /\ req[p].unit \in Units /\ req[p].at \in Steps /\ req[p].col \in Columns
         /\ work[p] \in Works /\ work[p].stage \in AllStages /\ work[p].step \in AllSteps
         /\ work[p].closing \in BOOLEAN /\ WorkFine(p)
BY SlotReq DEF Inv, TablesOK, Works

LEMMA NoWorkTyped == NoWork \in Works
BY DEF NoWork, Works, AllSteps, AllStages, SignSteps

\* A row of a stage's table changes.
LEMMA OneForm ==
  ASSUME TablesOK, NEW u \in Units, NEW s \in AllStages, NEW row \in Forms,
         form' = [form EXCEPT ![u][s] = row]
  PROVE  /\ form' \in [Units -> [AllStages -> Forms]]
         /\ \A v \in Units, t \in AllStages :
              form'[v][t] = IF v = u /\ t = s THEN row ELSE form[v][t]
<1> DEFINE f == [form[u] EXCEPT ![s] = row]
<1>1. form[u] \in [AllStages -> Forms] /\ form \in [Units -> [AllStages -> Forms]]
  BY DEF TablesOK
<1>2. f \in [AllStages -> Forms] /\ \A t \in AllStages : f[t] = IF t = s THEN row ELSE form[u][t]
  BY <1>1
<1>3. form' = [form EXCEPT ![u] = f]
  OBVIOUS
<1> HIDE DEF f
<1>4. form' \in [Units -> [AllStages -> Forms]] /\ \A v \in Units : form'[v] = IF v = u THEN f ELSE form[v]
  BY <1>1, <1>2, <1>3
<1>5. QED BY <1>2, <1>4

-----------------------------------------------------------------------------
(* Signing.                                                                 *)

\* Signing a step, of an installation only what its photos allow.
LEMMA SignKeeps ==
  ASSUME Inv, NEW u \in Units, NEW s \in AllStages, NEW step \in SignSteps[s],
         Sign(u, s, step), UNCHANGED <<column, mover, photos, pictured>>,
         step \in PhotoSteps => u \in pictured
  PROVE  /\ form' \in [Units -> [AllStages -> Forms]]
         /\ BoardOK' /\ FormsOK' /\ PicturesOK' /\ CompletedFormBacked'
         /\ \A v \in Units : granted[v] \subseteq granted'[v]
         /\ form'[u][s].here => step \in form'[u][s].by
         /\ [Ledger!Next]_ledgerVars
<1> DEFINE stored == form[u][s].here \/ s = "installation"
<1> DEFINE by == form[u][s].by \cup {step}
<1>0. /\ WorkColumn[s] \in Columns /\ step \in AllSteps
      /\ granted \in [Units -> SUBSET Columns]
      /\ TablesOK /\ BoardOK /\ FormsOK /\ CompletedFormBacked
  BY RequiredSome DEF Inv, BoardOK
<1>1. CASE ~stored
  <2>1. form' = form /\ granted' = granted
    BY <1>1 DEF Sign
  <2>2. FormsOK'
    BY <1>0, <2>1 DEF FormsOK
  <2>3. PicturesOK'
    BY <2>1 DEF Inv, PicturesOK, InspectedWasPictured
  <2>4. BoardOK' /\ CompletedFormBacked' /\ [Ledger!Next]_ledgerVars
    BY <1>0, <2>1, BackedLate DEF BoardOK, ledgerVars
  <2>5. QED BY <1>0, <1>1, <2>1, <2>2, <2>3, <2>4 DEF TablesOK
<1>2. CASE stored
  <2> DEFINE row == [form[u][s] EXCEPT !.here = TRUE, !.by = by]
  <2>1. form[u][s] \in Forms
    BY <1>0 DEF TablesOK
  <2>2. row \in Forms /\ row.by = by /\ row.off = form[u][s].off
    BY <1>0, <2>1 DEF Forms, AllSteps
  <2>3. form' = [form EXCEPT ![u][s].here = TRUE, ![u][s].by = by]
    BY <1>2 DEF Sign
  <2>4. form' = [form EXCEPT ![u][s] = row]
    BY <1>0, <2>1, <2>3 DEF TablesOK, Forms
  <2>5. granted' = IF Required[s] \subseteq by
                   THEN [granted EXCEPT ![u] = @ \cup {WorkColumn[s]}] ELSE granted
    BY <1>2 DEF Sign
  <2>6. form[u][s].by \subseteq by /\ step \in by
    OBVIOUS
  <2>13. by \subseteq form[u][s].by \cup {step}
    OBVIOUS
  <2> HIDE DEF row, by
  <2>7. /\ form' \in [Units -> [AllStages -> Forms]]
        /\ \A v \in Units, t \in AllStages :
             form'[v][t] = IF v = u /\ t = s THEN row ELSE form[v][t]
    BY <1>0, <2>2, <2>4, OneForm
  <2>8. /\ BoardOK' /\ \A v \in Units : granted[v] \subseteq granted'[v]
        /\ Required[s] \subseteq by => WorkColumn[s] \in granted'[u]
    BY <1>0, <2>5 DEF BoardOK
  <2>9. FormsOK'
    <3> SUFFICES ASSUME NEW v \in Units, NEW t \in AllStages
                 PROVE  /\ Required[t] \subseteq form'[v][t].by => WorkColumn[t] \in granted'[v]
                        /\ form'[v][t].off => WorkColumn[t] \in granted'[v]
      BY DEF FormsOK
    <3>1. CASE v = u /\ t = s
      <4>1. form'[v][t] = row
        BY <2>7, <3>1
      <4>2. form[u][s].off => WorkColumn[s] \in granted[u]
        BY <1>0 DEF FormsOK
      <4>3. QED BY <2>2, <2>8, <3>1, <4>1, <4>2
    <3>2. CASE ~(v = u /\ t = s)
      <4>1. form'[v][t] = form[v][t]
        BY <2>7, <3>2
      <4>2. QED BY <1>0, <2>8, <4>1 DEF FormsOK
    <3>3. QED BY <3>1, <3>2
  <2>10. PicturesOK'
    <3>1. "installation" \in AllStages
      BY DEF AllStages
    <3>2. ASSUME NEW v \in Units, form'[v].installation.by \cap PhotoSteps # {}
          PROVE  v \in pictured
      <4>1. CASE v = u /\ s = "installation"
        <5>1. form'[v].installation.by = by
          BY <2>2, <2>7, <3>1, <4>1
        <5>2. form[u].installation.by \cap PhotoSteps # {} \/ step \in PhotoSteps
          BY <2>13, <3>2, <4>1, <5>1
        <5>3. QED BY <4>1, <5>2 DEF Inv, PicturesOK, InspectedWasPictured
      <4>2. CASE ~(v = u /\ s = "installation")
        <5>1. form'[v].installation = form[v].installation
          BY <2>7, <3>1, <4>2
        <5>2. QED BY <3>2, <5>1 DEF Inv, PicturesOK, InspectedWasPictured
      <4>3. QED BY <4>1, <4>2
    <3>3. QED BY <3>2 DEF Inv, PicturesOK, InspectedWasPictured
  <2>11. [Ledger!Next]_ledgerVars
    <3>1. CASE Required[s] \subseteq by
      <4>1. Ledger!Grant({u}, WorkColumn[s])
        <5>1. \A v \in Units : granted'[v] = granted[v] \cup IF v \in {u} THEN {WorkColumn[s]} ELSE {}
          BY <1>0, <2>5, <3>1
        <5>2. granted' = [v \in Units |-> granted'[v]]
          BY <1>0, <2>5, <3>1
        <5>3. granted' = [v \in Units |-> granted[v] \cup IF v \in {u} THEN {WorkColumn[s]} ELSE {}]
          BY <5>1, <5>2
        <5>4. QED BY <5>3 DEF Ledger!Grant
      <4>2. {u} \in SUBSET Units
        OBVIOUS
      <4>3. QED BY <1>0, <4>1, <4>2, SameColumns DEF Ledger!Next
    <3>2. CASE ~(Required[s] \subseteq by)
      BY <2>5, <3>2 DEF ledgerVars
    <3>3. QED BY <3>1, <3>2
  <2>12. CompletedFormBacked'
    BY <1>0, <2>11, BackedLate
  <2>14. form'[u][s].here => step \in form'[u][s].by
    BY <2>2, <2>6, <2>7
  <2>15. QED BY <2>7, <2>8, <2>9, <2>10, <2>11, <2>12, <2>14
<1>3. QED BY <1>1, <1>2

-----------------------------------------------------------------------------
(* The steps, one by one.                                                   *)

\* The statements of a handler that is one statement.
LEMMA SingleSteps ==
  ASSUME Inv, NEW p \in Slots, NEW u \in Units,
         \/ \E s \in AllStages : SaveForm(p, u, s) \/ FailQC(p, u, s)
         \/ DeletePhoto(p, u)
  PROVE  Inv' /\ UNCHANGED ledgerVars
<1>0. TablesOK /\ FormsOK /\ PicturesOK /\ WorkFine(p)
  BY DEF Inv
<1>1. ASSUME NEW s \in AllStages, NEW row \in Forms, form' = [form EXCEPT ![u][s] = row],
             row.by \subseteq form[u][s].by, row.off = form[u][s].off,
             req[p].at = "idle", UNCHANGED <<boardVars, photoVars, work>>
      PROVE  Inv'
  <2>1. /\ form' \in [Units -> [AllStages -> Forms]]
        /\ \A v \in Units, t \in AllStages :
             form'[v][t] = IF v = u /\ t = s THEN row ELSE form[v][t]
    BY <1>0, <1>1, OneForm
  <2>2. UNCHANGED <<column, mover, granted, req, photos, pictured, work>>
    BY <1>1 DEF boardVars, photoVars
  <2>3. \A v \in Units, t \in AllStages :
          form'[v][t].by \subseteq form[v][t].by /\ form'[v][t].off = form[v][t].off
    BY <1>1, <2>1
  <2>4. FormsOK'
    BY <1>0, <2>2, <2>3 DEF FormsOK
  <2>5. PicturesOK'
    BY <1>0, <2>2, <2>3 DEF PicturesOK, InspectedWasPictured, AllStages
  <2>6. TablesOK'
    BY <1>0, <2>1, <2>2 DEF TablesOK
  <2>7. ReqOK(Steps)' /\ Others(p) /\ WorkOf(p) /\ req'[p].at = "idle" /\ WorkFine(p)'
    BY <1>1, <2>2 DEF Inv, ReqOK, Others, WorkOf, WorkFine
  <2>8. QED BY <2>2, <2>4, <2>5, <2>6, <2>7, QuietStep DEF ledgerVars, photoVars
<1>2. ASSUME NEW s \in AllStages, SaveForm(p, u, s) PROVE Inv' /\ UNCHANGED ledgerVars
  <2> DEFINE row == [form[u][s] EXCEPT !.here = TRUE]
  <2>1. form[u][s] \in Forms
    BY <1>0 DEF TablesOK
  <2>2. row \in Forms /\ row.by = form[u][s].by /\ row.off = form[u][s].off
    BY <2>1 DEF Forms
  <2>3. form' = [form EXCEPT ![u][s] = row]
    BY <1>2 DEF SaveForm
  <2>4. req[p].at = "idle" /\ UNCHANGED <<boardVars, photoVars, work>>
    BY <1>2 DEF SaveForm
  <2> HIDE DEF row
  <2>5. Inv'
    BY <1>1, <2>2, <2>3, <2>4
  <2>6. QED BY <2>4, <2>5 DEF boardVars, ledgerVars
<1>3. ASSUME NEW s \in AllStages, FailQC(p, u, s) PROVE Inv' /\ UNCHANGED ledgerVars
  <2> DEFINE row == [form[u][s] EXCEPT !.by = @ \ {"configured"}]
  <2>1. form[u][s] \in Forms
    BY <1>0 DEF TablesOK
  <2>2. row \in Forms /\ row.by \subseteq form[u][s].by /\ row.off = form[u][s].off
    BY <2>1 DEF Forms
  <2>3. form' = [form EXCEPT ![u][s] = row]
    BY <1>3 DEF FailQC
  <2>4. req[p].at = "idle" /\ UNCHANGED <<boardVars, photoVars, work>>
    BY <1>3 DEF FailQC
  <2> HIDE DEF row
  <2>5. Inv'
    BY <1>1, <2>2, <2>3, <2>4
  <2>6. QED BY <2>4, <2>5 DEF boardVars, ledgerVars
<1>4. CASE DeletePhoto(p, u)
  <2>1. UNCHANGED <<column, mover, granted, req, form, pictured, work>> /\ req[p].at = "idle"
    BY <1>4 DEF DeletePhoto, boardVars
  <2>2. photos[u] > 0 /\ photos' = [photos EXCEPT ![u] = @ - 1] /\ photos \in [Units -> Nat]
    BY <1>0, <1>4 DEF DeletePhoto, RemovePhoto, TablesOK
  <2>3. photos' \in [Units -> Nat] /\ \A v \in Units : photos'[v] <= photos[v]
    BY <2>2
  <2>4. PicturesOK'
    <3>1. \A v \in Units : photos'[v] > 0 => photos[v] > 0
      BY <2>2, <2>3
    <3>2. QED BY <1>0, <2>1, <3>1 DEF PicturesOK, InspectedWasPictured
  <2>5. TablesOK' /\ FormsOK'
    BY <1>0, <2>1, <2>3 DEF TablesOK, FormsOK
  <2>6. ReqOK(Steps)' /\ Others(p) /\ WorkOf(p) /\ req'[p].at = "idle" /\ WorkFine(p)'
    BY <2>1 DEF Inv, ReqOK, Others, WorkOf, WorkFine
  <2>7. PhotosOK'
    BY <2>3, <2>6, PhotosFewer
  <2>8. BoardOK' /\ CompletedFormBacked' /\ UNCHANGED ledgerVars
    BY <2>1, BackedLate DEF Inv, BoardOK, ledgerVars
  <2>9. QED BY <2>1, <2>4, <2>5, <2>6, <2>7, <2>8, SlotStep
<1>5. QED BY <1>2, <1>3, <1>4

\* A request that begins serving a unit at a step that needs nothing.
LEMMA BeginPlain ==
  ASSUME Inv, NEW p \in Slots, NEW u \in Units, NEW step \in Steps,
         Begin(p, Serving(u, step))
  PROVE  ReqOK(Steps)' /\ Others(p) /\ req'[p].at = step /\ req'[p].unit = u
BY ServeReq DEF Inv

LEMMA BeginSteps ==
  ASSUME Inv, NEW p \in Slots, NEW u \in Units,
         \/ CheckContactability(p, u)
         \/ \E s \in AllStages : \E step \in SignSteps[s] : SignFirst(p, u, s, step)
         \/ \E step \in SignSteps.installation : PhotoCheck(p, u, step)
         \/ PhotoCount(p, u)
  PROVE  Inv' /\ [Ledger!Next]_ledgerVars
<1>0. TablesOK /\ FormsOK /\ PicturesOK /\ WorkFine(p) /\ "installation" \in AllStages
  BY DEF Inv, AllStages
<1>1. CASE CheckContactability(p, u)
  <2>1. "contact.write" \in Steps
    BY DEF Steps, StageSteps
  <2>2. ReqOK(Steps)' /\ Others(p) /\ req'[p].at = "contact.write"
    BY <1>1, <2>1, BeginPlain DEF CheckContactability
  <2>3. UNCHANGED <<ledgerVars, form, photos, pictured, work>>
    BY <1>1 DEF CheckContactability, photoVars
  <2>4. TablesOK' /\ FormsOK' /\ PicturesOK' /\ WorkOf(p) /\ WorkFine(p)'
    BY <1>0, <2>2, <2>3
    DEF TablesOK, FormsOK, PicturesOK, InspectedWasPictured, WorkOf, WorkFine, ledgerVars
  <2>5. QED BY <2>2, <2>3, <2>4, QuietStep DEF photoVars
<1>2. ASSUME NEW s \in AllStages, NEW step \in SignSteps[s], SignFirst(p, u, s, step)
      PROVE  Inv' /\ [Ledger!Next]_ledgerVars
  <2>1. "sign.read" \in Steps
    BY DEF Steps, StageSteps
  <2>2. ReqOK(Steps)' /\ Others(p) /\ req'[p].at = "sign.read" /\ req'[p].unit = u
    BY <1>2, <2>1, BeginPlain DEF SignFirst
  <2>3. /\ Sign(u, s, step) /\ UNCHANGED <<column, mover, photos, pictured>>
        /\ step \notin PhotoSteps
    BY <1>2 DEF SignFirst, photoVars
  <2>4. /\ form' \in [Units -> [AllStages -> Forms]]
        /\ BoardOK' /\ FormsOK' /\ PicturesOK' /\ CompletedFormBacked'
        /\ \A v \in Units : granted[v] \subseteq granted'[v]
        /\ form'[u][s].here => step \in form'[u][s].by
        /\ [Ledger!Next]_ledgerVars
    BY <2>3, SignKeeps
  <2> DEFINE w == [NoWork EXCEPT !.stage = s, !.step = step]
  <2>5. w \in Works /\ w.stage = s /\ w.step = step
    BY NoWorkTyped, RequiredSome DEF Works, NoWork
  <2>6. work' = [work EXCEPT ![p] = w]
    BY <1>2 DEF SignFirst
  <2> HIDE DEF w
  <2>7. work' \in [Slots -> Works] /\ WorkOf(p) /\ work'[p] = w
    BY <1>0, <2>5, <2>6 DEF TablesOK, WorkOf
  <2>8. TablesOK'
    BY <1>0, <2>3, <2>4, <2>7 DEF TablesOK
  <2>9. WorkFine(p)'
    <3>1. step = "encoded" => s = "stage1a"
      BY DEF SignSteps, AllStages
    <3>2. QED BY <2>2, <2>4, <2>5, <2>7, <3>1 DEF WorkFine
  <2>10. PhotosOK'
    BY <2>2, <2>3, <2>8, PhotosFewer DEF TablesOK, Inv
  <2>11. QED BY <2>2, <2>3, <2>4, <2>7, <2>8, <2>9, <2>10, SlotStep
<1>3. ASSUME NEW step \in SignSteps.installation, PhotoCheck(p, u, step)
      PROVE  Inv' /\ [Ledger!Next]_ledgerVars
  <2>1. "sign.write" \in Steps
    BY DEF Steps, StageSteps
  <2>2. ReqOK(Steps)' /\ Others(p) /\ req'[p].at = "sign.write" /\ req'[p].unit = u
    BY <1>3, <2>1, BeginPlain DEF PhotoCheck
  <2>3. UNCHANGED <<ledgerVars, form, photos, pictured>> /\ photos[u] > 0
    BY <1>3 DEF PhotoCheck, photoVars
  <2> DEFINE w == [NoWork EXCEPT !.stage = "installation", !.step = step]
  <2>4. w \in Works /\ w.step = step
    BY <1>0, NoWorkTyped, RequiredSome DEF Works, NoWork
  <2>5. work' = [work EXCEPT ![p] = w]
    BY <1>3 DEF PhotoCheck
  <2> HIDE DEF w
  <2>6. work' \in [Slots -> Works] /\ WorkOf(p) /\ work'[p] = w
    BY <1>0, <2>4, <2>5 DEF TablesOK, WorkOf
  <2>7. TablesOK' /\ FormsOK' /\ PicturesOK'
    BY <1>0, <2>3, <2>6 DEF TablesOK, FormsOK, PicturesOK, InspectedWasPictured, ledgerVars
  <2>8. u \in pictured
    BY <1>0, <2>3 DEF PicturesOK
  <2>9. WorkFine(p)'
    BY <2>2, <2>3, <2>4, <2>6, <2>8 DEF WorkFine
  <2>10. QED BY <2>2, <2>3, <2>6, <2>7, <2>9, QuietStep DEF photoVars
<1>4. CASE PhotoCount(p, u)
  <2>1. "photo.insert" \in Steps
    BY DEF Steps, StageSteps
  <2>2. ReqOK(Steps)' /\ Others(p) /\ req'[p].at = "photo.insert" /\ req'[p].unit = u
    BY <1>4, <2>1, BeginPlain DEF PhotoCount
  <2>3. UNCHANGED <<ledgerVars, form, photos, pictured, work>> /\ photos[u] < MaxPhotos
    BY <1>4 DEF PhotoCount, photoVars
  <2>4. TablesOK' /\ FormsOK' /\ PicturesOK' /\ WorkOf(p) /\ WorkFine(p)'
    BY <1>0, <2>2, <2>3
    DEF TablesOK, FormsOK, PicturesOK, InspectedWasPictured, WorkOf, WorkFine, ledgerVars
  <2>5. PhotosOK'
    <3> SUFFICES ASSUME NEW v \in Units
                 PROVE  photos[v] + Cardinality(Inserting(v)') <= MaxPhotos + Cardinality(Slots) - 1
      BY <2>3 DEF PhotosOK
    <3> DEFINE new == Inserting(v)'
    <3>1. photos[v] \in Nat
      BY <1>0 DEF TablesOK
    <3>2. CASE v = u
      <4>1. new \subseteq Slots
        BY DEF Inserting
      <4> HIDE DEF new
      <4>2. Cardinality(new) \in Nat /\ Cardinality(new) <= Cardinality(Slots)
        BY <4>1, SlotsAssumption, FS_Subset, FS_CardinalityType
      <4>3. photos[v] + Cardinality(new) <= MaxPhotos + Cardinality(Slots) - 1
        BY <2>3, <3>1, <3>2, <4>2, SlotsCount
      <4>4. QED BY <4>3 DEF new
    <3>3. CASE v # u
      <4>1. new \subseteq Inserting(v)
        BY <2>2, <3>3 DEF Inserting, Others
      <4> HIDE DEF new
      <4>2. Cardinality(new) \in Nat /\ Cardinality(new) <= Cardinality(Inserting(v))
        BY <4>1, InsertingFinite, FS_Subset, FS_CardinalityType
      <4>3. photos[v] + Cardinality(Inserting(v)) <= MaxPhotos + Cardinality(Slots) - 1
        BY DEF Inv, PhotosOK
      <4>4. photos[v] + Cardinality(new) <= MaxPhotos + Cardinality(Slots) - 1
        BY <3>1, <4>2, <4>3, InsertingFinite, SlotsCount
      <4>5. QED BY <4>4 DEF new
    <3>4. QED BY <3>2, <3>3
  <2>6. BoardOK' /\ CompletedFormBacked'
    BY <2>3, BackedLate DEF Inv, BoardOK, ledgerVars
  <2>7. QED BY <2>2, <2>3, <2>4, <2>5, <2>6, SlotStep DEF ledgerVars
<1>5. QED BY <1>1, <1>2, <1>3, <1>4

\* A request that moves its unit on for "encoded" finds it granted.
Entitled(p) == req[p].at = "sign.enter" => "pre_deployment" \in granted[req[p].unit]

LEMMA SigningSteps ==
  ASSUME Inv, NEW p \in Slots,
         \/ SignWrite(p) \/ SignRead(p) \/ SignEnter(p) \/ SignMark(p) \/ SignAdvance(p)
  PROVE  Inv' /\ (Entitled(p) => [Ledger!Next]_ledgerVars)
<1> DEFINE u == req[p].unit
<1> DEFINE s == work[p].stage
<1>0. /\ TablesOK /\ BoardOK /\ FormsOK /\ PicturesOK /\ CompletedFormBacked
      /\ ReqOK(Steps) /\ WorkFine(p)
  BY DEF Inv
<1>1. /\ u \in Units /\ s \in AllStages /\ work[p] \in Works
      /\ work[p].closing \in BOOLEAN /\ work \in [Slots -> Works]
  BY SlotTyped DEF Inv, TablesOK
<1>2. /\ "idle" \in Steps
      /\ {"sign.read", "sign.enter", "sign.mark", "sign.advance"} \subseteq Steps
  BY DEF Steps, StageSteps
<1>3. WorkColumn[s] \in Columns /\ WorkColumn[s] # "completed"
  BY <1>1, RequiredSome
<1>4. ASSUME work' = [work EXCEPT ![p] = NoWork] \/ work' = work
      PROVE  work' \in [Slots -> Works] /\ WorkOf(p)
  BY <1>1, <1>4, NoWorkTyped DEF WorkOf
<1> HIDE DEF u, s
<1>5. CASE SignWrite(p)
  <2>1. req[p].at = "sign.write" /\ Goto(p, "sign.read")
        /\ UNCHANGED <<column, mover, photos, pictured, work>>
    BY <1>5 DEF SignWrite, photoVars
  <2>2. work[p].step \in SignSteps.installation /\ u \in pictured
    BY <1>0, <2>1 DEF WorkFine, u
  <2>3. ReqOK(Steps)' /\ Others(p) /\ req'[p].at = "sign.read" /\ req'[p].unit = u
    BY <1>0, <1>2, <2>1, GotoReq DEF u
  <2>4. "installation" \in AllStages /\ SignSteps["installation"] = SignSteps.installation
    BY DEF AllStages
  <2> DEFINE step == work[p].step
  <2>5. Sign(u, "installation", step)
    BY <1>5 DEF SignWrite, u
  <2>6. step \in SignSteps["installation"]
    BY <2>2, <2>4
  <2> HIDE DEF step
  <2>7. /\ form' \in [Units -> [AllStages -> Forms]]
        /\ BoardOK' /\ FormsOK' /\ PicturesOK' /\ CompletedFormBacked'
        /\ \A v \in Units : granted[v] \subseteq granted'[v]
        /\ [Ledger!Next]_ledgerVars
    BY <1>1, <2>1, <2>2, <2>4, <2>5, <2>6, SignKeeps
  <2>8. TablesOK' /\ WorkOf(p)
    BY <1>0, <1>4, <2>1, <2>7 DEF TablesOK
  <2>9. work'[p].step # "encoded"
    BY <2>1, <2>2 DEF SignSteps
  <2>10. WorkFine(p)'
    BY <2>3, <2>9 DEF WorkFine
  <2>11. PhotosOK'
    BY <2>1, <2>3, <2>8, PhotosFewer DEF TablesOK, Inv
  <2>12. QED BY <2>1, <2>3, <2>7, <2>8, <2>10, <2>11, SlotStep
<1>6. CASE SignRead(p)
  <2> DEFINE closing == SignSteps[s] \subseteq form[u][s].by /\ ~form[u][s].off
  <2>1. /\ req[p].at = "sign.read" /\ UNCHANGED <<ledgerVars, form, photos, pictured>>
        /\ \/ Finish(p) /\ work' = [work EXCEPT ![p] = NoWork]
           \/ /\ form[u][s].here /\ (work[p].step = "encoded" \/ closing)
              /\ Goto(p, IF work[p].step = "encoded" THEN "sign.enter" ELSE "sign.mark")
              /\ work' = [work EXCEPT ![p].closing = closing]
    BY <1>6 DEF SignRead, photoVars, u, s
  <2>2. closing => WorkColumn[s] \in granted[u]
    <3>1. closing => Required[s] \subseteq form[u][s].by
      BY <1>1, RequiredSome
    <3>2. QED BY <1>0, <1>1, <3>1 DEF FormsOK
  <2>3. closing \in BOOLEAN
    OBVIOUS
  <2>4. /\ TablesOK' /\ FormsOK' /\ PicturesOK'
        /\ WorkOf(p) /\ ReqOK(Steps)' /\ Others(p)
        /\ req'[p].at \in {"idle", "sign.enter", "sign.mark"} /\ WorkFine(p)'
    <3>0. FormsOK' /\ PicturesOK'
      BY <1>0, <2>1 DEF FormsOK, PicturesOK, InspectedWasPictured, ledgerVars
    <3>1. CASE Finish(p) /\ work' = [work EXCEPT ![p] = NoWork]
      <4>1. ReqOK(Steps)' /\ req'[p].at = "idle" /\ Others(p)
        BY <1>0, <1>2, <3>1, FinishReq
      <4>2. WorkFine(p)'
        BY <4>1 DEF WorkFine
      <4>3. TablesOK' /\ WorkOf(p)
        BY <1>0, <1>4, <2>1, <3>1 DEF TablesOK
      <4>4. QED BY <3>0, <4>1, <4>2, <4>3
    <3>2. CASE /\ form[u][s].here /\ (work[p].step = "encoded" \/ closing)
               /\ Goto(p, IF work[p].step = "encoded" THEN "sign.enter" ELSE "sign.mark")
               /\ work' = [work EXCEPT ![p].closing = closing]
      <4> DEFINE next == IF work[p].step = "encoded" THEN "sign.enter" ELSE "sign.mark"
      <4>1. next \in Steps /\ Goto(p, next)
        BY <1>2, <3>2
      <4> HIDE DEF next
      <4>2. ReqOK(Steps)' /\ req'[p].at = next /\ req'[p].unit = u /\ Others(p)
        BY <1>0, <4>1, GotoReq DEF u
      <4> HIDE DEF closing
      <4>3. /\ work'[p] \in Works /\ work'[p].stage = s /\ work'[p].closing = closing
            /\ work' \in [Slots -> Works] /\ WorkOf(p)
        BY <1>1, <2>3, <3>2 DEF WorkOf, Works, s
      <4>4. TablesOK'
        BY <1>0, <2>1, <4>3 DEF TablesOK
      <4>5. granted' = granted
        BY <2>1 DEF ledgerVars
      <4>7. next = "sign.mark" => closing
        BY <3>2 DEF next
      <4>8. next \in {"sign.enter", "sign.mark"}
        BY DEF next
      <4>9. WorkFine(p)'
        BY <2>2, <4>2, <4>3, <4>5, <4>7, <4>8 DEF WorkFine
      <4>10. QED BY <3>0, <4>2, <4>3, <4>4, <4>8, <4>9
    <3>3. QED BY <2>1, <3>1, <3>2
  <2>5. Inv'
    BY <2>1, <2>4, QuietStep DEF photoVars
  <2>6. QED BY <2>1, <2>5
<1>7. CASE SignMark(p)
  <2> DEFINE row == [form[u][s] EXCEPT !.off = TRUE]
  <2>1. /\ req[p].at = "sign.mark" /\ UNCHANGED <<ledgerVars, photos, pictured>>
        /\ \/ Finish(p) /\ work' = [work EXCEPT ![p] = NoWork]
           \/ Goto(p, "sign.advance") /\ work' = work
    BY <1>7 DEF SignMark, photoVars
  <2>2. WorkColumn[s] \in granted[u]
    BY <1>0, <2>1 DEF WorkFine, u, s
  <2>3. form' = [form EXCEPT ![u][s] = row]
    BY <1>7 DEF SignMark, u, s
  <2>4. form[u][s] \in Forms
    BY <1>0, <1>1 DEF TablesOK
  <2>5. row \in Forms /\ row.by = form[u][s].by
    BY <2>4 DEF Forms
  <2> HIDE DEF row
  <2>6. /\ form' \in [Units -> [AllStages -> Forms]]
        /\ \A v \in Units, t \in AllStages :
             form'[v][t] = IF v = u /\ t = s THEN row ELSE form[v][t]
    BY <1>0, <1>1, <2>3, <2>5, OneForm
  <2>7. FormsOK' /\ PicturesOK'
    <3>1. \A v \in Units, t \in AllStages : form'[v][t].by = form[v][t].by
      BY <2>5, <2>6
    <3>2. FormsOK'
      BY <1>0, <2>1, <2>2, <2>6, <3>1 DEF FormsOK, ledgerVars
    <3>3. "installation" \in AllStages
      BY DEF AllStages
    <3>4. PicturesOK'
      BY <1>0, <2>1, <3>1, <3>3 DEF PicturesOK, InspectedWasPictured
    <3>5. QED BY <3>2, <3>4
  <2>8. TablesOK' /\ WorkOf(p)
    BY <1>0, <1>4, <2>1, <2>6 DEF TablesOK
  <2>9. /\ ReqOK(Steps)' /\ Others(p)
        /\ \/ req'[p].at = "idle"
           \/ req'[p].at = "sign.advance" /\ req'[p].unit = u /\ work' = work
    BY <1>0, <1>2, <2>1, FinishReq, GotoReq DEF u
  <2>10. WorkFine(p)'
    BY <2>1, <2>2, <2>9 DEF WorkFine, s, ledgerVars
  <2>11. QED BY <2>1, <2>7, <2>8, <2>9, <2>10, QuietStep DEF photoVars
<1>8. ASSUME NEW c \in Columns, AdvanceBoardColumn(u, c, "signoff"),
             UNCHANGED <<granted, form, photos, pictured>>,
             c \in {"shipment", "commissioning"} => Preceding(c) \cap granted[u] # {},
             ReqOK(Steps)', Others(p), WorkFine(p)',
             req'[p].at \in {"idle", "sign.mark"},
             work' = [work EXCEPT ![p] = NoWork] \/ work' = work
      PROVE  Inv'
  <2>1. BoardOK'
    BY <1>0, <1>1, <1>8, AdvanceTyped DEF Ledger!Movers
  <2>2. FormsOK' /\ PicturesOK'
    BY <1>0, <1>8 DEF FormsOK, PicturesOK, InspectedWasPictured
  <2>3. TablesOK' /\ WorkOf(p)
    BY <1>0, <1>4, <1>8 DEF TablesOK
  <2>4. PhotosOK'
    BY <1>8, <2>3, PhotosFewer DEF TablesOK, Inv
  <2>5. CompletedFormBacked'
    <3> SUFFICES ASSUME NEW v \in Units, column'[v] \in {"shipment", "commissioning"}
                 PROVE  Ledger!Backed(v)'
      BY DEF CompletedFormBacked
    <3>1. CASE v = u
      <4>1. column'[v] = c /\ granted'[v] = granted[u]
        BY <1>0, <1>1, <1>8, <3>1 DEF AdvanceBoardColumn, BoardOK
      <4>2. Preceding(column'[v]) \cap granted'[v] # {}
        BY <1>8, <3>1, <4>1
      <4>3. QED BY <4>2, SameColumns DEF Ledger!Backed
    <3>2. CASE v # u
      <4>1. column'[v] = column[v] /\ mover'[v] = mover[v] /\ granted'[v] = granted[v]
        BY <1>0, <1>1, <1>8, <3>2 DEF AdvanceBoardColumn, BoardOK
      <4>2. QED BY <1>0, <4>1 DEF CompletedFormBacked, Ledger!Backed
    <3>3. QED BY <3>1, <3>2
  <2>6. QED BY <1>8, <2>1, <2>2, <2>3, <2>4, <2>5, SlotStep
<1>9. CASE SignEnter(p)
  <2>1. /\ req[p].at = "sign.enter" /\ AdvanceBoardColumn(u, "configuration", "signoff")
        /\ UNCHANGED <<granted, form, photos, pictured>>
        /\ \/ Finish(p) /\ work' = [work EXCEPT ![p] = NoWork]
           \/ work[p].closing /\ Goto(p, "sign.mark") /\ work' = work
    BY <1>9 DEF SignEnter, photoVars, u
  <2>2. /\ ReqOK(Steps)' /\ Others(p)
        /\ \/ req'[p].at = "idle"
           \/ req'[p].at = "sign.mark" /\ req'[p].unit = u /\ work' = work /\ work[p].closing
    BY <1>0, <1>2, <2>1, FinishReq, GotoReq DEF u
  <2>3. work[p].closing => WorkColumn[s] \in granted[u]
    BY <1>0, <2>1 DEF WorkFine, u, s
  <2>4. WorkFine(p)'
    BY <2>1, <2>2, <2>3 DEF WorkFine, s
  <2>5. "configuration" \in Columns /\ "configuration" \notin {"shipment", "commissioning"}
    BY DEF Columns
  <2>6. Inv'
    BY <1>8, <2>1, <2>2, <2>4, <2>5
  <2>7. ASSUME Entitled(p) PROVE Ledger!Next
    <3>1. "pre_deployment" \in granted[u]
      BY <2>1, <2>7 DEF Entitled, u
    <3>2. Following["pre_deployment"] = "configuration" /\ "pre_deployment" \in Columns
      BY DEF Following, Columns
    <3>3. QED BY <1>1, <2>1, <3>1, <3>2, EnterLedger
  <2>8. QED BY <2>6, <2>7
<1>10. CASE SignAdvance(p)
  <2> DEFINE c == Following[WorkColumn[s]]
  <2>1. /\ req[p].at = "sign.advance" /\ AdvanceBoardColumn(u, c, "signoff")
        /\ UNCHANGED <<granted, form, photos, pictured>>
        /\ Finish(p) /\ work' = [work EXCEPT ![p] = NoWork]
    BY <1>10 DEF SignAdvance, photoVars, u, s, NextColumn
  <2>2. ReqOK(Steps)' /\ Others(p) /\ req'[p].at = "idle"
    BY <1>0, <1>2, <2>1, FinishReq
  <2>3. WorkColumn[s] \in granted[u]
    BY <1>0, <2>1 DEF WorkFine, u, s
  <2>4. WorkFine(p)'
    BY <2>2 DEF WorkFine
  <2>5. c \in Columns
    BY <1>3, FollowingPreceded
  <2>6. Ledger!Next
    BY <1>1, <1>3, <2>1, <2>3, EnterLedger
  <2>7. Preceding(c) \cap granted[u] # {}
    BY <1>3, <2>3, FollowingPreceded
  <2> HIDE DEF c
  <2>8. Inv'
    BY <1>8, <2>1, <2>2, <2>4, <2>5, <2>7
  <2>9. QED BY <2>6, <2>8
<1>11. QED BY <1>5, <1>6, <1>7, <1>9, <1>10

\* The second statements of the contactability check and of an upload.
LEMMA LastSteps ==
  ASSUME Inv, NEW p \in Slots, ContactWrite(p) \/ PhotoInsert(p)
  PROVE  Inv' /\ UNCHANGED ledgerVars
<1>0. /\ TablesOK /\ BoardOK /\ FormsOK /\ PicturesOK /\ ReqOK(Steps) /\ WorkFine(p)
      /\ "installation" \in AllStages /\ "idle" \in Steps
  BY DEF Inv, AllStages, Steps
<1>1. Finish(p)
  BY DEF ContactWrite, PhotoInsert
<1>2. ReqOK(Steps)' /\ Others(p) /\ req'[p].at = "idle" /\ WorkFine(p)'
  BY <1>0, <1>1, FinishReq DEF WorkFine
<1>3. PICK u \in Units : u = req[p].unit
  BY SlotTyped
<1>4. CASE ContactWrite(p)
  <2>1. UNCHANGED <<ledgerVars, photos, pictured, work>>
    BY <1>4 DEF ContactWrite, photoVars
  <2> DEFINE row == [form[u].installation EXCEPT !.here = TRUE]
  <2>2. form[u].installation \in Forms
    BY <1>0 DEF TablesOK
  <2>3. row \in Forms /\ row.by = form[u].installation.by /\ row.off = form[u].installation.off
    BY <2>2 DEF Forms
  <2>4. form' = [form EXCEPT ![u]["installation"] = row]
    BY <1>3, <1>4 DEF ContactWrite
  <2> HIDE DEF row
  <2>5. /\ form' \in [Units -> [AllStages -> Forms]]
        /\ \A v \in Units, t \in AllStages :
             form'[v][t] = IF v = u /\ t = "installation" THEN row ELSE form[v][t]
    BY <1>0, <2>3, <2>4, OneForm
  <2>6. \A v \in Units, t \in AllStages :
          form'[v][t].by = form[v][t].by /\ form'[v][t].off = form[v][t].off
    BY <2>3, <2>5
  <2>7. FormsOK' /\ PicturesOK'
    BY <1>0, <2>1, <2>6 DEF FormsOK, PicturesOK, InspectedWasPictured, ledgerVars
  <2>8. TablesOK' /\ WorkOf(p)
    BY <1>0, <2>1, <2>5 DEF TablesOK, WorkOf
  <2>9. QED BY <1>2, <2>1, <2>7, <2>8, QuietStep DEF photoVars
<1>5. CASE PhotoInsert(p)
  <2>1. /\ req[p].at = "photo.insert" /\ UNCHANGED <<ledgerVars, form, work>>
        /\ photos' = [photos EXCEPT ![u] = @ + 1] /\ pictured' = pictured \cup {u}
    BY <1>3, <1>5 DEF PhotoInsert
  <2>2. /\ photos \in [Units -> Nat] /\ photos' \in [Units -> Nat]
        /\ \A v \in Units : photos'[v] = IF v = u THEN photos[v] + 1 ELSE photos[v]
    BY <1>0, <2>1 DEF TablesOK
  <2>3. TablesOK' /\ WorkOf(p) /\ FormsOK'
    BY <1>0, <2>1, <2>2 DEF TablesOK, WorkOf, FormsOK, ledgerVars
  <2>4. PicturesOK'
    BY <1>0, <2>1, <2>2 DEF PicturesOK, InspectedWasPictured
  <2>5. PhotosOK'
    <3> SUFFICES ASSUME NEW v \in Units
                 PROVE  photos'[v] + Cardinality(Inserting(v)') <= MaxPhotos + Cardinality(Slots) - 1
      BY DEF PhotosOK
    <3> DEFINE new == Inserting(v)'
    <3> DEFINE old == Inserting(v)
    <3>1. IsFiniteSet(old) /\ Cardinality(old) \in Nat /\ photos[v] \in Nat
      BY <2>2, InsertingFinite
    <3>2. photos[v] + Cardinality(old) <= MaxPhotos + Cardinality(Slots) - 1
      BY DEF Inv, PhotosOK
    <3>3. new \subseteq old \ {p} /\ (v = u => p \in old)
      BY <1>2, <1>3, <2>1 DEF Inserting, Others
    <3> HIDE DEF new, old
    <3>4. Cardinality(new) \in Nat /\ Cardinality(new) <= Cardinality(old \ {p})
      BY <3>1, <3>3, FS_Subset, FS_RemoveElement, FS_CardinalityType
    <3>5. Cardinality(old \ {p}) = IF p \in old THEN Cardinality(old) - 1 ELSE Cardinality(old)
      BY <3>1, FS_RemoveElement
    <3>6. photos'[v] + Cardinality(new) <= MaxPhotos + Cardinality(Slots) - 1
      BY <2>2, <3>1, <3>2, <3>3, <3>4, <3>5, SlotsCount
    <3>7. QED BY <3>6 DEF new
  <2>6. BoardOK' /\ CompletedFormBacked'
    BY <2>1, BackedLate DEF Inv, BoardOK, ledgerVars
  <2>7. QED BY <1>2, <2>1, <2>3, <2>4, <2>5, <2>6, SlotStep DEF ledgerVars
<1>6. QED BY <1>4, <1>5

\* A readiness query says yes only of a column that was once granted.
LEMMA ReadyGranted ==
  ASSUME Inv, NEW u \in Units, NEW c, ReadyToLeave(u, c)
  PROVE  c \in granted[u]
BY DEF ReadyToLeave, Inv, FormsOK

LEMMA BoardRequests ==
  ASSUME Inv, NEW p \in Slots,
         \/ \E u \in Units, c \in MoveTargets, reset \in BOOLEAN : StageMoveRead(p, u, c, reset)
         \/ \E u \in Units : StageSyncRead(p, u)
         \/ StageMoveWrite(p) \/ StageMoveReset(p)
         \/ StageSyncCheck(p) \/ StageSyncWrite(p)
         \/ AbortRequest(p)
  PROVE  Inv' /\ [Ledger!Next]_ledgerVars
<1>0. /\ TablesOK /\ BoardOK /\ FormsOK /\ PicturesOK /\ CompletedFormBacked
      /\ ReqOK(Steps) /\ SyncOK /\ SyncGranted /\ \A q \in Slots : WorkFine(q)
  BY DEF Inv
<1>1. BoardSteps \cup {"idle"} \subseteq Steps /\ "idle" \in Steps
  BY DEF Steps
<1>2. BoardKept(Steps, p)
  <2>1. CASE AbortRequest(p)
    BY <1>0, <1>1, <2>1, AbortStep DEF AbortRequest
  <2>2. CASE \/ \E u \in Units, c \in MoveTargets, reset \in BOOLEAN :
                  StageMoveRead(p, u, c, reset)
             \/ StageMoveWrite(p) \/ StageMoveReset(p)
    BY <1>0, <1>1, <2>2, MoveSteps DEF StageMoveRead, StageMoveWrite, StageMoveReset
  <2>3. CASE StageSyncCheck(p)
    <3>1. PICK ready \in BOOLEAN : ready = ReadyToLeave(req[p].unit, req[p].col)
      BY DEF ReadyToLeave
    <3>2. ready => req[p].col \in granted[req[p].unit]
      BY <3>1, SlotTyped, ReadyGranted
    <3>3. SyncCheck(p, ready)
      BY <2>3, <3>1 DEF StageSyncCheck
    <3>4. QED BY <1>0, <1>1, <3>2, <3>3, SyncSteps
  <2>4. CASE (\E u \in Units : StageSyncRead(p, u)) \/ StageSyncWrite(p)
    BY <1>0, <1>1, <2>4, SyncSteps DEF StageSyncRead, StageSyncWrite
  <2>5. QED BY <2>1, <2>2, <2>3, <2>4
<1>3. /\ UNCHANGED <<form, photos, pictured>>
      /\ work' = work \/ work' = [work EXCEPT ![p] = NoWork]
  BY DEF StageMoveRead, StageMoveWrite, StageMoveReset, StageSyncRead, StageSyncCheck,
         StageSyncWrite, AbortRequest, photoVars
<1>4. TablesOK' /\ WorkOf(p)
  BY <1>0, <1>3, NoWorkTyped DEF TablesOK, WorkOf
<1>5. FormsOK' /\ PicturesOK'
  BY <1>0, <1>2, <1>3 DEF FormsOK, PicturesOK, InspectedWasPictured, BoardKept
<1>6. CompletedFormBacked'
  BY <1>0, <1>2, BackedLate DEF BoardKept
<1>7. req'[p].at \notin StageSteps
  BY <1>2 DEF BoardKept, BoardSteps, StageSteps
<1>8. PhotosOK'
  BY <1>2, <1>3, <1>4, <1>7, PhotosFewer DEF TablesOK, BoardKept, StageSteps, Inv
<1>9. ASSUME NEW q \in Slots PROVE WorkFine(q)'
  <2>1. CASE q = p
    BY <1>7, <2>1 DEF WorkFine, StageSteps
  <2>2. CASE q # p
    <3>1. req'[q] = req[q] /\ work'[q] = work[q] /\ granted' = granted
      BY <1>2, <1>4, <2>2 DEF BoardKept, Others, WorkOf
    <3>2. QED BY <1>0, <1>3, <3>1 DEF WorkFine
  <2>3. QED BY <2>1, <2>2
<1>10. QED BY <1>2, <1>4, <1>5, <1>6, <1>8, <1>9 DEF Inv, BoardKept

LEMMA NextInv ==
  ASSUME Inv, [Next]_vars
  PROVE  Inv' /\ ((\A p \in Slots : Entitled(p)) => [Ledger!Next]_ledgerVars)
<1>1. ASSUME NEW p \in Slots, NEW u \in Units, Start(p, u)
      PROVE  Inv' /\ [Ledger!Next]_ledgerVars
  <2>1. /\ SignSteps.stage1a = SignSteps["stage1a"] /\ SignSteps.stage1b = SignSteps["stage1b"]
        /\ SignSteps.installation = SignSteps["installation"]
        /\ {"stage1a", "stage1b", "installation"} = AllStages
    BY DEF AllStages
  <2>2. CASE (\E s \in AllStages : SaveForm(p, u, s) \/ FailQC(p, u, s)) \/ DeletePhoto(p, u)
    BY <2>2, SingleSteps
  <2>3. CASE \/ CheckContactability(p, u)
             \/ \E s \in AllStages : \E step \in SignSteps[s] : SignFirst(p, u, s, step)
             \/ \E step \in SignSteps.installation : PhotoCheck(p, u, step)
             \/ PhotoCount(p, u)
    BY <2>3, BeginSteps
  <2>4. CASE \/ \E c \in MoveTargets, reset \in BOOLEAN : StageMoveRead(p, u, c, reset)
             \/ StageSyncRead(p, u)
    BY <2>4, BoardRequests
  <2>5. QED
    BY <1>1, <2>1, <2>2, <2>3, <2>4
    DEF Start, UpsertStage1A, UpsertStage1B, UpsertInstallation, RecordSiteReceipt,
        SignOffStage1A, SignOffStage1B, SignOffInstallation, UploadPhoto
<1>2. ASSUME NEW p \in Slots, Continue(p) \/ AbortRequest(p)
      PROVE  Inv' /\ (Entitled(p) => [Ledger!Next]_ledgerVars)
  BY <1>2, SigningSteps, LastSteps, BoardRequests DEF Continue
<1>3. CASE UNCHANGED vars
  <2>1. UNCHANGED <<column, mover, granted, req, form, photos, pictured, work>>
    BY <1>3 DEF vars, boardVars, photoVars
  <2>2. UNCHANGED ledgerVars /\ BoardOK' /\ ReqOK(Steps)' /\ SyncOK' /\ SyncGranted'
    BY <2>1 DEF ledgerVars, Inv, BoardOK, ReqOK, SyncOK, SyncGranted
  <2>3. TablesOK' /\ FormsOK' /\ PicturesOK' /\ CompletedFormBacked'
    BY <2>1 DEF Inv, TablesOK, FormsOK, PicturesOK, InspectedWasPictured,
                CompletedFormBacked, Ledger!Backed
  <2>4. PhotosOK'
    <3>1. \A u \in Units : Inserting(u)' = Inserting(u)
      BY <2>1 DEF Inserting
    <3>2. QED BY <2>1, <3>1 DEF Inv, PhotosOK
  <2>5. \A p \in Slots : WorkFine(p)'
    BY <2>1 DEF Inv, WorkFine
  <2>6. QED BY <2>2, <2>3, <2>4, <2>5 DEF Inv
<1>4. QED BY <1>1, <1>2, <1>3 DEF Next

LEMMA Invariance == Spec => []Inv
<1>1. Inv /\ [Next]_vars => Inv'
  BY NextInv
<1>2. QED BY InitInv, <1>1, PTL DEF Spec

-----------------------------------------------------------------------------
\* Every variable keeps its type; the count of photos never goes below zero.
THEOREM TypeCorrect == Spec => []TypeOK
  BY Invariance, InvTyped, PTL

\* Deciding on a row read statements ago never closes a stage that was not
\* once complete, nor lets a unit into Shipment or Commissioning for it.
THEOREM StaleReadsAreHarmless == Spec => []StaleReadsHarmless
  BY Invariance, InvHarmless, PTL

\* Inspected and Fit & Focus are signed only of an installation that has had a
\* photo.
THEOREM InspectedPictured == Spec => []InspectedWasPictured
<1>1. Inv => InspectedWasPictured
  BY DEF Inv, PicturesOK
<1>2. QED BY <1>1, Invariance, PTL

\* However many uploads overlap, each request beyond the first adds at most one
\* photo to the limit.
THEOREM PhotosBounded == Spec => []PhotoOvershootBounded
  BY Invariance, InvBounds, PTL

LEMMA LedgerInit == Init => Ledger!Init
<1> SUFFICES ASSUME Init PROVE Ledger!Init
  OBVIOUS
<1>1. \A u \in Units : Ledger!Backed(u)
  BY DEF Init, Ledger!Backed
<1>2. BoardOK
  BY InitInv DEF Inv
<1>3. QED BY <1>1, <1>2, SameColumns DEF Ledger!Init, Ledger!AdvanceBacked, BoardOK

-----------------------------------------------------------------------------
(* That the stages implement the board's promise.  Signing "encoded" of a   *)
(* unit with no stage 1A record stores nothing and is no error; if another  *)
(* request saves the record before this one reads it back, this one moves   *)
(* the unit on without the sign-off.  Nothing else breaks the promise, how  *)
(* many requests may overlap.                                               *)

\* No stage 1A record appears while a sign-off of "encoded" of its unit is
\* about to read it back.
RecordKept ==
  \A p \in Slots :
    req[p].at = "sign.read" /\ work[p].step = "encoded" =>
      form'[req[p].unit].stage1a.here = form[req[p].unit].stage1a.here
NoLateRecord == [][RecordKept]_vars

\* The sign-off that finds a record when it reads it back has signed it.
Prepared(p) ==
  /\ /\ req[p].at = "sign.read" /\ work[p].step = "encoded"
     /\ form[req[p].unit].stage1a.here
     => "pre_deployment" \in granted[req[p].unit]
  /\ Entitled(p)

\* Slot p leaves the other slots alone and takes no grant back.
StepKeeps(p) ==
  /\ Others(p) /\ WorkOf(p)
  /\ \A v \in Units : granted[v] \subseteq granted'[v]

LEMMA OtherPrepared ==
  ASSUME Inv, NEW p \in Slots, StepKeeps(p), RecordKept,
         NEW q \in Slots \ {p}, Prepared(q)
  PROVE  Prepared(q)'
<1>1. req'[q] = req[q] /\ work'[q] = work[q] /\ req[q].unit \in Units
  BY SlotTyped DEF StepKeeps, Others, WorkOf
<1>2. QED BY <1>1 DEF Prepared, Entitled, RecordKept, StepKeeps

LEMMA SignGrants ==
  ASSUME Inv, NEW u \in Units, NEW s \in AllStages, NEW step, Sign(u, s, step)
  PROVE  \A v \in Units : granted[v] \subseteq granted'[v]
<1>1. granted \in [Units -> SUBSET Columns]
  BY DEF Inv, BoardOK
<1>2. granted' = granted \/ granted' = [granted EXCEPT ![u] = @ \cup {WorkColumn[s]}]
  BY DEF Sign
<1>3. QED BY <1>1, <1>2

LEMMA StartKeeps ==
  ASSUME Inv, NEW p \in Slots, NEW u \in Units, Start(p, u)
  PROVE  StepKeeps(p) /\ Prepared(p)'
<1>0. TablesOK /\ ReqOK(Steps) /\ {"stage1a", "stage1b", "installation"} = AllStages
  BY DEF Inv, AllStages
<1>1. CASE \/ \E s \in AllStages : SaveForm(p, u, s) \/ FailQC(p, u, s)
           \/ DeletePhoto(p, u)
  BY <1>1 DEF SaveForm, FailQC, DeletePhoto, boardVars, StepKeeps, Others, WorkOf,
              Prepared, Entitled
<1>2. ASSUME NEW s \in AllStages, NEW step \in SignSteps[s], SignFirst(p, u, s, step)
      PROVE  StepKeeps(p) /\ Prepared(p)'
  <2>1. "sign.read" \in Steps
    BY DEF Steps, StageSteps
  <2>2. Others(p) /\ req'[p].at = "sign.read" /\ req'[p].unit = u
    BY <1>2, <2>1, BeginPlain DEF SignFirst
  <2>3. /\ Sign(u, s, step) /\ UNCHANGED <<column, mover, photos, pictured>>
        /\ step \notin PhotoSteps
        /\ work' = [work EXCEPT ![p] = [NoWork EXCEPT !.stage = s, !.step = step]]
    BY <1>2 DEF SignFirst, photoVars
  <2>4. FormsOK' /\ (form'[u][s].here => step \in form'[u][s].by)
    BY <2>3, SignKeeps
  <2>5. WorkOf(p) /\ work'[p].step = step
    BY <1>0, <2>3 DEF WorkOf, TablesOK, NoWork
  <2>6. ASSUME step = "encoded", form'[u].stage1a.here
        PROVE  "pre_deployment" \in granted'[u]
    <3>1. s = "stage1a"
      BY <2>6 DEF SignSteps, AllStages
    <3>2. Required["stage1a"] = {"encoded"} /\ WorkColumn["stage1a"] = "pre_deployment"
      BY DEF Required, SignSteps, WorkColumn
    <3>3. "encoded" \in form'[u]["stage1a"].by
      BY <2>4, <2>6, <3>1
    <3>4. QED BY <1>0, <2>4, <3>2, <3>3 DEF FormsOK
  <2>7. Prepared(p)'
    BY <2>2, <2>5, <2>6 DEF Prepared, Entitled
  <2>8. QED BY <2>2, <2>3, <2>5, <2>7, SignGrants DEF StepKeeps
<1>3. CASE \/ CheckContactability(p, u) \/ PhotoCount(p, u)
           \/ \E step \in SignSteps.installation : PhotoCheck(p, u, step)
  <2>1. {"contact.write", "photo.insert", "sign.write"} \subseteq Steps
    BY DEF Steps, StageSteps
  <2>2. /\ Others(p) /\ req'[p].at \in {"contact.write", "photo.insert", "sign.write"}
    BY <1>3, <2>1, BeginPlain DEF CheckContactability, PhotoCount, PhotoCheck
  <2>3. granted' = granted /\ WorkOf(p)
    BY <1>0, <1>3 DEF CheckContactability, PhotoCount, PhotoCheck, ledgerVars, WorkOf, TablesOK
  <2>4. QED BY <2>2, <2>3 DEF StepKeeps, Prepared, Entitled
<1>4. CASE \/ \E c \in MoveTargets, reset \in BOOLEAN : StageMoveRead(p, u, c, reset)
           \/ StageSyncRead(p, u)
  <2>1. BoardSteps \cup {"idle"} \subseteq Steps /\ BoardOK /\ SyncOK /\ SyncGranted
    BY DEF Steps, Inv
  <2>2. BoardKept(Steps, p)
    BY <1>0, <1>4, <2>1, MoveSteps, SyncSteps DEF StageMoveRead, StageSyncRead
  <2>3. work' = work
    BY <1>4 DEF StageMoveRead, StageSyncRead
  <2>4. req'[p].at \notin {"sign.read", "sign.enter"}
    BY <2>2 DEF BoardKept, BoardSteps
  <2>5. QED BY <2>2, <2>3, <2>4 DEF BoardKept, StepKeeps, WorkOf, Prepared, Entitled
<1>5. QED
  BY <1>0, <1>1, <1>2, <1>3, <1>4
  DEF Start, UpsertStage1A, UpsertStage1B, UpsertInstallation, RecordSiteReceipt,
      SignOffStage1A, SignOffStage1B, SignOffInstallation, UploadPhoto

LEMMA ContinueKeeps ==
  ASSUME Inv, NEW p \in Slots, Prepared(p), Continue(p) \/ AbortRequest(p)
  PROVE  StepKeeps(p) /\ Prepared(p)'
<1>0. TablesOK /\ ReqOK(Steps) /\ WorkFine(p) /\ req[p].unit \in Units
  BY SlotTyped DEF Inv
<1>1. ASSUME work' = work \/ work' = [work EXCEPT ![p] = NoWork]
             \/ \E b \in BOOLEAN : work' = [work EXCEPT ![p].closing = b]
      PROVE  WorkOf(p)
  BY <1>0, <1>1 DEF TablesOK, WorkOf
<1>2. ASSUME NEW next, Goto(p, next)
      PROVE  Others(p) /\ req'[p].at = next /\ req'[p].unit = req[p].unit
  BY <1>0, <1>2 DEF Goto, ReqOK, Requests, Others
<1>3. ASSUME Finish(p)
      PROVE  Others(p) /\ req'[p].at = "idle"
  BY <1>0, <1>3 DEF Finish, NoRequest, ReqOK, Others
<1>4. CASE SignWrite(p)
  <2>1. req'[p].at = "sign.read" /\ Others(p) /\ work' = work
        /\ Sign(req[p].unit, "installation", work[p].step)
        /\ work[p].step \in SignSteps.installation
    BY <1>0, <1>2, <1>4 DEF SignWrite, WorkFine
  <2>2. work'[p].step # "encoded"
    BY <2>1 DEF SignSteps
  <2>3. \A v \in Units : granted[v] \subseteq granted'[v]
    BY <1>0, <2>1, SignGrants DEF AllStages
  <2>4. QED BY <1>1, <2>1, <2>2, <2>3 DEF StepKeeps, Prepared, Entitled
<1>5. CASE SignRead(p)
  <2> DEFINE closing == /\ SignSteps[work[p].stage] \subseteq form[req[p].unit][work[p].stage].by
                        /\ ~form[req[p].unit][work[p].stage].off
  <2>0. closing \in BOOLEAN
    OBVIOUS
  <2>1. /\ req[p].at = "sign.read" /\ granted' = granted
        /\ \/ Finish(p) /\ work' = [work EXCEPT ![p] = NoWork]
           \/ /\ form[req[p].unit][work[p].stage].here
              /\ Goto(p, IF work[p].step = "encoded" THEN "sign.enter" ELSE "sign.mark")
              /\ work' = [work EXCEPT ![p].closing = closing]
    BY <1>5 DEF SignRead, ledgerVars
  <2> HIDE DEF closing
  <2>2. CASE Finish(p) /\ work' = [work EXCEPT ![p] = NoWork]
    BY <1>1, <1>3, <2>1, <2>2 DEF StepKeeps, Prepared, Entitled
  <2>3. CASE /\ form[req[p].unit][work[p].stage].here /\ work[p].step = "encoded"
             /\ Goto(p, "sign.enter") /\ work' = [work EXCEPT ![p].closing = closing]
    <3>1. "pre_deployment" \in granted[req[p].unit]
      BY <1>0, <2>1, <2>3 DEF Prepared, WorkFine
    <3>2. Others(p) /\ req'[p].at = "sign.enter" /\ req'[p].unit = req[p].unit
      BY <1>2, <2>3
    <3>3. QED BY <1>1, <2>0, <2>1, <2>3, <3>1, <3>2 DEF StepKeeps, Prepared, Entitled
  <2>4. CASE Goto(p, "sign.mark") /\ work' = [work EXCEPT ![p].closing = closing]
    <3>1. Others(p) /\ req'[p].at = "sign.mark"
      BY <1>2, <2>4
    <3>2. QED BY <1>1, <2>0, <2>1, <2>4, <3>1 DEF StepKeeps, Prepared, Entitled
  <2>5. QED BY <2>1, <2>2, <2>3, <2>4
<1>6. CASE \/ SignEnter(p) \/ SignMark(p) \/ SignAdvance(p) \/ ContactWrite(p)
           \/ PhotoInsert(p) \/ StageMoveWrite(p) \/ StageMoveReset(p)
           \/ StageSyncCheck(p) \/ StageSyncWrite(p) \/ AbortRequest(p)
  <2>1. /\ granted' = granted
        /\ work' = work \/ work' = [work EXCEPT ![p] = NoWork]
        /\ \/ Finish(p)
           \/ \E next \in {"sign.mark", "sign.advance", "move.reset", "sync.write"} :
                Goto(p, next)
    BY <1>6 DEF SignEnter, SignMark, SignAdvance, ContactWrite, PhotoInsert,
                StageMoveWrite, StageMoveReset, StageSyncCheck, StageSyncWrite, AbortRequest,
                MoveWrite, MoveReset, SyncCheck, SyncWrite, Abort, ledgerVars
  <2>2. Others(p) /\ req'[p].at \notin {"sign.read", "sign.enter"}
    BY <1>2, <1>3, <2>1
  <2>3. QED BY <1>1, <2>1, <2>2 DEF StepKeeps, Prepared, Entitled
<1>7. QED BY <1>4, <1>5, <1>6 DEF Continue

LEMMA PreparedNext ==
  ASSUME Inv, \A p \in Slots : Prepared(p), [Next]_vars, [RecordKept]_vars
  PROVE  \A p \in Slots : Prepared(p)'
<1>1. CASE UNCHANGED vars
  BY <1>1 DEF vars, boardVars, Prepared, Entitled
<1>2. CASE Next /\ RecordKept
  <2>1. PICK p \in Slots : StepKeeps(p) /\ Prepared(p)'
    BY <1>2, StartKeeps, ContinueKeeps DEF Next
  <2>2. QED BY <1>2, <2>1, OtherPrepared
<1>3. QED BY <1>1, <1>2

LEMMA AllPrepared == Spec /\ NoLateRecord => [](\A p \in Slots : Prepared(p))
<1>1. Init => \A p \in Slots : Prepared(p)
  BY NoRequestTyped DEF Init, Prepared, Entitled, NoRequest
<1>2. Inv /\ (\A p \in Slots : Prepared(p)) /\ [Next]_vars /\ [RecordKept]_vars
        => (\A p \in Slots : Prepared(p))'
  BY PreparedNext
<1>3. QED BY <1>1, <1>2, Invariance, PTL DEF Spec, NoLateRecord

\* The stages implement the board's promise, however many requests overlap and
\* wherever they are cut short, unless a stage 1A record is saved in the middle
\* of an "encoded" sign-off that began without one.
THEOREM LedgerImplemented == Spec /\ NoLateRecord => ImplementsLedger
<1>1. Inv /\ (\A p \in Slots : Prepared(p)) /\ [Next]_vars
        => [Ledger!Next]_(Ledger!ledgerVars)
  BY NextInv DEF ledgerVars, Ledger!ledgerVars, Prepared
<1>2. QED BY LedgerInit, <1>1, Invariance, AllPrepared, PTL
          DEF Spec, Ledger!Spec, ImplementsLedger

\* In particular, they do if the server handles one request at a time: the
\* hypothesis of LedgerImplemented then holds of every behaviour.
THEOREM AloneIsNeverLate == (\A p, q \in Slots : p = q) => (Spec => NoLateRecord)
<1> SUFFICES ASSUME \A p, q \in Slots : p = q PROVE Spec => NoLateRecord
  OBVIOUS
<1>1. ASSUME Next, NEW p \in Slots, req[p].at = "sign.read"
      PROVE  form' = form
  <2>1. PICK q \in Slots : (\E u \in Units : Start(q, u)) \/ Continue(q) \/ AbortRequest(q)
    BY <1>1 DEF Next
  <2>2. q = p
    OBVIOUS
  <2>3. ~\E u \in Units : Start(p, u)
    BY <1>1 DEF Start, UpsertStage1A, UpsertStage1B, UpsertInstallation, RecordSiteReceipt,
         SaveForm, SignOffStage1A, SignOffStage1B, SignOffInstallation, SignFirst, FailQC,
         PhotoCheck, CheckContactability, UploadPhoto, PhotoCount, DeletePhoto,
         StageMoveRead, StageSyncRead, MoveRead, SyncRead, Begin
  <2>4. CASE SignRead(p) \/ AbortRequest(p)
    BY <2>4 DEF SignRead, AbortRequest
  <2>5. ~\/ SignWrite(p) \/ SignEnter(p) \/ SignMark(p) \/ SignAdvance(p)
         \/ ContactWrite(p) \/ PhotoInsert(p) \/ StageMoveWrite(p) \/ StageMoveReset(p)
         \/ StageSyncCheck(p) \/ StageSyncWrite(p)
    BY <1>1 DEF SignWrite, SignEnter, SignMark, SignAdvance, ContactWrite, PhotoInsert,
         StageMoveWrite, StageMoveReset, StageSyncCheck, StageSyncWrite,
         MoveWrite, MoveReset, SyncCheck, SyncWrite
  <2>6. QED BY <2>1, <2>2, <2>3, <2>4, <2>5 DEF Continue
<1>2. [Next]_vars => [RecordKept]_vars
  BY <1>1 DEF RecordKept
<1>3. QED BY <1>2, PTL DEF Spec, NoLateRecord
=============================================================================
