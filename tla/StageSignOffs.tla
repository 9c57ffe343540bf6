---------------------------- MODULE StageSignOffs ----------------------------
(***************************************************************************)
(* The sign-offs of the three stages a unit is worked on in: Stage 1A       *)
(* (device_configurations), Stage 1B (firmware_configurations) and the site *)
(* installation (site_installations, installation_photos), which move the   *)
(* unit on when they complete; together with the board requests of module   *)
(* Board.  Dockets and acceptances are other modules' tables: here they     *)
(* are empty, and units get past them by administrators' moves.             *)
(***************************************************************************)
EXTENDS Board, FiniteSets

CONSTANTS Stages,      \* bound: the stages that are worked on
          MaxPhotos    \* MaxInstallationPhotos

AllStages == {"stage1a", "stage1b", "installation"}

ASSUME StagesAssumption == Stages \subseteq AllStages
ASSUME MaxPhotosAssumption == MaxPhotos \in Nat \ {0}
ASSUME SlotsAssumption == IsFiniteSet(Slots)

SignSteps == [stage1a |-> {"encoded", "configured", "qc"},
              stage1b |-> {"configured", "qc"},
              installation |-> {"installed", "inspected", "fit_focus"}]

\* The column a stage is worked on in, and the one its sign-off moves to.
WorkColumn == [stage1a |-> "pre_deployment", stage1b |-> "configuration",
               installation |-> "installation"]
NextColumn(s) == Following[WorkColumn[s]]

\* The steps the readiness query of the stage's column asks for.
Required == [SignSteps EXCEPT !.stage1a = {"encoded"}]

PhotoSteps == {"inspected", "fit_focus"}

VARIABLES
  form,     \* form[u][s]: the row of unit u in the table of stage s
  photos,   \* the number of installation_photos rows of each unit
  pictured, \* history: the units that have once had a photo
  work      \* what the request in each slot is signing

photoVars == <<photos, pictured>>
vars == <<boardVars, form, photoVars, work>>

\* by: the steps whose ..._by column is not null; off: signed_off_at is set.
Forms == [here : BOOLEAN, by : SUBSET UNION {SignSteps[s] : s \in AllStages},
          off : BOOLEAN]
NoForm == [here |-> FALSE, by |-> {}, off |-> FALSE]

NoWork == [stage |-> "stage1a", step |-> "encoded", closing |-> FALSE]

StageSteps == {"sign.write", "sign.read", "sign.enter", "sign.mark",
               "sign.advance", "contact.write", "photo.insert"}
Steps == {"idle"} \cup BoardSteps \cup StageSteps

Init ==
  /\ column = [u \in Units |-> "pre_deployment"]
  /\ mover = [u \in Units |-> "create"]
  /\ granted = [u \in Units |-> {}]
  /\ req = [p \in Slots |-> NoRequest]
  /\ form = [u \in Units |-> [s \in AllStages |-> NoForm]]
  /\ photos = [u \in Units |-> 0]
  /\ pictured = {}
  /\ work = [p \in Slots |-> NoWork]

-----------------------------------------------------------------------------
\* The handlers that insert the row or update what is in it: the fields they
\* fill in are not part of the model.
SaveForm(p, u, s) ==
  /\ req[p].at = "idle"
  /\ form' = [form EXCEPT ![u][s].here = TRUE]
  /\ UNCHANGED <<boardVars, photoVars, work>>

UpsertStage1A(p, u) == SaveForm(p, u, "stage1a")
UpsertStage1B(p, u) == SaveForm(p, u, "stage1b")
UpsertInstallation(p, u) == SaveForm(p, u, "installation")
RecordSiteReceipt(p, u) == SaveForm(p, u, "installation")

\* Dials the address it has read before it stores the answer.
CheckContactability(p, u) ==
  /\ Begin(p, Serving(u, "contact.write"))
  /\ UNCHANGED <<ledgerVars, form, photoVars, work>>

ContactWrite(p) ==
  /\ req[p].at = "contact.write"
  /\ form' = [form EXCEPT ![req[p].unit].installation.here = TRUE]
  /\ Finish(p)
  /\ UNCHANGED <<ledgerVars, photoVars, work>>

\* UPDATE ... SET <step>_by, which for the installation is an upsert.  With
\* no row the UPDATE of stage 1A or 1B touches nothing and is no error.
Sign(u, s, step) ==
  LET stored == form[u][s].here \/ s = "installation"
      by == form[u][s].by \cup {step}
  IN /\ form' = IF stored
                THEN [form EXCEPT ![u][s].here = TRUE, ![u][s].by = by]
                ELSE form
     /\ granted' = IF stored /\ Required[s] \subseteq by
                   THEN [granted EXCEPT ![u] = @ \cup {WorkColumn[s]}]
                   ELSE granted

\* The first statement of SignOffStage1A, SignOffStage1B and of the
\* installation's "installed" step.
SignFirst(p, u, s, step) ==
  /\ step \notin PhotoSteps
  /\ Sign(u, s, step)
  /\ Begin(p, Serving(u, "sign.read"))
  /\ work' = [work EXCEPT ![p] = [NoWork EXCEPT !.stage = s, !.step = step]]
  /\ UNCHANGED <<column, mover, photoVars>>

\* Mutant: the photos are not counted.
PhotoCheckNone(p, u, step) ==
  /\ step \in PhotoSteps
  /\ Begin(p, Serving(u, "sign.write"))
  /\ work' = [work EXCEPT ![p] =
                [NoWork EXCEPT !.stage = "installation", !.step = step]]
  /\ UNCHANGED <<ledgerVars, form, photoVars>>

\* The other installation steps first count the photos ...
PhotoCheck(p, u, step) ==
  /\ step \in PhotoSteps
  /\ photos[u] > 0
  /\ Begin(p, Serving(u, "sign.write"))
  /\ work' = [work EXCEPT ![p] =
                [NoWork EXCEPT !.stage = "installation", !.step = step]]
  /\ UNCHANGED <<ledgerVars, form, photoVars>>

\* ... and then write.
SignWrite(p) ==
  /\ req[p].at = "sign.write"
  /\ Sign(req[p].unit, "installation", work[p].step)
  /\ Goto(p, "sign.read")
  /\ UNCHANGED <<column, mover, photoVars, work>>

\* Mutant: any one step completes the stage.
SignReadAnyStep(p) ==
  /\ req[p].at = "sign.read"
  /\ LET s == work[p].stage
         row == form[req[p].unit][s]
         closing == row.by # {} /\ ~row.off
     IN IF ~row.here \/ ~(work[p].step = "encoded" \/ closing)
        THEN Finish(p) /\ work' = [work EXCEPT ![p] = NoWork]
        ELSE /\ Goto(p, IF work[p].step = "encoded" THEN "sign.enter"
                                                    ELSE "sign.mark")
             /\ work' = [work EXCEPT ![p].closing = closing]
  /\ UNCHANGED <<ledgerVars, form, photoVars>>

\* Read the row back: is the stage complete and not yet signed off?  The
\* answer is acted on two statements later.
SignRead(p) ==
  /\ req[p].at = "sign.read"
  /\ LET s == work[p].stage
         row == form[req[p].unit][s]
         closing == SignSteps[s] \subseteq row.by /\ ~row.off
     IN IF ~row.here \/ ~(work[p].step = "encoded" \/ closing)
        THEN Finish(p) /\ work' = [work EXCEPT ![p] = NoWork]
        ELSE /\ Goto(p, IF work[p].step = "encoded" THEN "sign.enter"
                                                    ELSE "sign.mark")
             /\ work' = [work EXCEPT ![p].closing = closing]
  /\ UNCHANGED <<ledgerVars, form, photoVars>>

\* Stage 1A's "encoded" step always moves the unit to Configuration.
SignEnter(p) ==
  /\ req[p].at = "sign.enter"
  /\ AdvanceBoardColumn(req[p].unit, "configuration", "signoff")
  /\ IF work[p].closing
     THEN Goto(p, "sign.mark") /\ UNCHANGED work
     ELSE Finish(p) /\ work' = [work EXCEPT ![p] = NoWork]
  /\ UNCHANGED <<granted, form, photoVars>>

\* UPDATE ... SET signed_off_at.
SignMark(p) ==
  /\ req[p].at = "sign.mark"
  /\ form' = [form EXCEPT ![req[p].unit][work[p].stage].off = TRUE]
  /\ IF work[p].stage = "stage1a"
     THEN Finish(p) /\ work' = [work EXCEPT ![p] = NoWork]
     ELSE Goto(p, "sign.advance") /\ UNCHANGED work
  /\ UNCHANGED <<ledgerVars, photoVars>>

SignAdvance(p) ==
  /\ req[p].at = "sign.advance"
  /\ AdvanceBoardColumn(req[p].unit, NextColumn(work[p].stage), "signoff")
  /\ Finish(p)
  /\ work' = [work EXCEPT ![p] = NoWork]
  /\ UNCHANGED <<granted, form, photoVars>>

\* The qc_fail step clears the configurator's sign-off and nothing else.
FailQC(p, u, s) ==
  /\ req[p].at = "idle"
  /\ "qc" \in SignSteps[s]
  /\ form' = [form EXCEPT ![u][s].by = @ \ {"configured"}]
  /\ UNCHANGED <<boardVars, photoVars, work>>

SignOffStage1A(p, u) ==
  \/ \E step \in SignSteps.stage1a : SignFirst(p, u, "stage1a", step)
  \/ FailQC(p, u, "stage1a")

SignOffStage1B(p, u) ==
  \/ \E step \in SignSteps.stage1b : SignFirst(p, u, "stage1b", step)
  \/ FailQC(p, u, "stage1b")

SignOffInstallation(p, u) ==
  \E step \in SignSteps.installation :
    SignFirst(p, u, "installation", step) \/ PhotoCheck(p, u, step)

-----------------------------------------------------------------------------
\* Mutant: <= for <.
PhotoCountOneMore(p, u) ==
  /\ photos[u] <= MaxPhotos
  /\ Begin(p, Serving(u, "photo.insert"))
  /\ UNCHANGED <<ledgerVars, form, photoVars, work>>

\* UploadPhoto: count, then insert.
PhotoCount(p, u) ==
  /\ photos[u] < MaxPhotos
  /\ Begin(p, Serving(u, "photo.insert"))
  /\ UNCHANGED <<ledgerVars, form, photoVars, work>>

PhotoInsert(p) ==
  /\ req[p].at = "photo.insert"
  /\ photos' = [photos EXCEPT ![req[p].unit] = @ + 1]
  /\ pictured' = pictured \cup {req[p].unit}
  /\ Finish(p)
  /\ UNCHANGED <<ledgerVars, form, work>>

UploadPhoto(p, u) == PhotoCount(p, u)

\* Mutant: deleting a photo that is not there.
RemovePhotoAbsent(u) == photos' = [photos EXCEPT ![u] = @ - 1]

RemovePhoto(u) == photos[u] > 0 /\ photos' = [photos EXCEPT ![u] = @ - 1]

DeletePhoto(p, u) ==
  /\ req[p].at = "idle"
  /\ RemovePhoto(u)
  /\ UNCHANGED <<boardVars, form, pictured, work>>

-----------------------------------------------------------------------------
(* The board requests, over this module's tables.                           *)

StageMoveRead(p, u, c, resetAcceptance) ==
  MoveRead(p, u, c, resetAcceptance) /\ UNCHANGED <<form, photoVars, work>>

StageMoveWrite(p) == MoveWrite(p) /\ UNCHANGED <<form, photoVars, work>>

StageMoveReset(p) == MoveReset(p) /\ UNCHANGED <<form, photoVars, work>>

StageSyncRead(p, u) == SyncRead(p, u) /\ UNCHANGED <<form, photoVars, work>>

\* Mutant: the row is there, whoever has signed it.
ReadyToLeaveAnyRow(u, c) == \E s \in AllStages : WorkColumn[s] = c /\ form[u][s].here

\* The readiness queries; those of Shipment and Commissioning find no row.
ReadyToLeave(u, c) ==
  \E s \in AllStages : WorkColumn[s] = c /\ Required[s] \subseteq form[u][s].by

StageSyncCheck(p) ==
  /\ SyncCheck(p, ReadyToLeave(req[p].unit, req[p].col))
  /\ UNCHANGED <<form, photoVars, work>>

StageSyncWrite(p) == SyncWrite(p) /\ UNCHANGED <<form, photoVars, work>>

AbortRequest(p) ==
  /\ Abort(p)
  /\ work' = [work EXCEPT ![p] = NoWork]
  /\ UNCHANGED <<form, photoVars>>

-----------------------------------------------------------------------------
\* What the handler in slot p does next, once it has begun.
Continue(p) ==
  \/ SignWrite(p) \/ SignRead(p) \/ SignEnter(p) \/ SignMark(p) \/ SignAdvance(p)
  \/ ContactWrite(p) \/ PhotoInsert(p)
  \/ StageMoveWrite(p) \/ StageMoveReset(p)
  \/ StageSyncCheck(p) \/ StageSyncWrite(p)

Start(p, u) ==
  \/ "stage1a" \in Stages /\ (UpsertStage1A(p, u) \/ SignOffStage1A(p, u))
  \/ "stage1b" \in Stages /\ (UpsertStage1B(p, u) \/ SignOffStage1B(p, u))
  \/ /\ "installation" \in Stages
     /\ \/ UpsertInstallation(p, u) \/ CheckContactability(p, u)
        \/ RecordSiteReceipt(p, u) \/ SignOffInstallation(p, u)
        \/ UploadPhoto(p, u) \/ DeletePhoto(p, u)
  \/ \E c \in MoveTargets, resetAcceptance \in BOOLEAN :
       StageMoveRead(p, u, c, resetAcceptance)
  \/ StageSyncRead(p, u)

Next == \E p \in Slots :
          \/ \E u \in Units : Start(p, u)
          \/ Continue(p)
          \/ AbortRequest(p)

Spec == Init /\ [][Next]_vars

\* Every request that has begun goes on until it ends or is cut short, and
\* users who find a card in the wrong column keep asking for a sync of it,
\* and not all of these requests are cut short.
FairSpec ==
  /\ Spec
  /\ \A p \in Slots : WF_vars(Continue(p) \/ AbortRequest(p))
  /\ \A u \in Units :
       /\ SF_vars(\E p \in Slots : StageSyncRead(p, u))
       /\ SF_vars(\E p \in Slots : req[p].unit = u /\ StageSyncCheck(p))
       /\ SF_vars(\E p \in Slots : req[p].unit = u /\ StageSyncWrite(p))

-----------------------------------------------------------------------------
\* The tables and slots hold what their columns allow; no photo is deleted that
\* is not there, so that the count never goes below zero.
TypeOK ==
  /\ column \in [Units -> Columns]
  /\ mover \in [Units -> Ledger!Movers]
  /\ granted \in [Units -> SUBSET Columns]
  /\ req \in [Slots -> Requests(Steps)]
  /\ form \in [Units -> [AllStages -> Forms]]
  /\ photos \in [Units -> Nat]
  /\ pictured \subseteq Units
  /\ work \in [Slots -> [stage : AllStages, step : UNION {SignSteps[s] : s \in AllStages},
                         closing : BOOLEAN]]

\* A unit is where it was created, where an administrator put it, or in a
\* column whose preceding sign-offs were once complete.
AdvanceBacked == Ledger!AdvanceBacked

\* ... and every step is one the board's promise allows.
ImplementsLedger == Ledger!Spec

\* The same for the columns that a completed form opens, Shipment and
\* Commissioning: no interleaving lets a unit into them on a stale reading.
CompletedFormBacked ==
  \A u \in Units : column[u] \in {"shipment", "commissioning"} => Ledger!Backed(u)

\* A stage 1B or installation record that is signed off had all its steps
\* signed at one time, even if a failed QC has withdrawn one since.
SignedOffOnceComplete ==
  \A u \in Units, s \in AllStages \ {"stage1a"} :
    form[u][s].off => WorkColumn[s] \in granted[u]

\* Deciding on a row read statements ago never closes, nor opens the column
\* behind, a stage that was not once complete.
StaleReadsHarmless == CompletedFormBacked /\ SignedOffOnceComplete

\* However sign-offs, uploads and deletions interleave, Inspected and Fit &
\* Focus are never signed for an installation nobody has photographed ("You'll
\* need at least one photo uploaded before you can do the last two").
InspectedWasPictured ==
  \A u \in Units : form[u].installation.by \cap PhotoSteps # {} => u \in pictured

\* "up to 3 photos allowed": uploads that counted at the same time overshoot
\* the limit, by no more than one photo for every further concurrent request.
PhotoOvershootBounded ==
  \A u \in Units : photos[u] <= MaxPhotos + Cardinality(Slots) - 1

\* SyncBoardColumn is "a way to resync board_column with already-completed
\* sign-offs": a unit whose sign-offs are in place does not stay behind.
CatchesUp(c) ==
  \A u \in Units : (column[u] = c /\ ReadyToLeave(u, c)) ~> (column[u] # c)

SyncCatchesUp == CatchesUp("pre_deployment") /\ CatchesUp("installation")

\* This does not hold: the query of Configuration fails (QueryRuns).
SyncCatchesUpConfiguration == CatchesUp("configuration")
=============================================================================
