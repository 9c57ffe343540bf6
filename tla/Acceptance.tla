----------------------------- MODULE Acceptance -----------------------------
(***************************************************************************)
(* The acceptance stage (internal/acceptance): the client_acceptances row   *)
(* of every unit, the BSP sign-off, the signing links sent to the Branch    *)
(* Manager and to Head Office, the wet-ink upload, and finalizeIfComplete,  *)
(* which closes the stage and moves the unit to Completed; together with    *)
(* the board requests of module Board, which race with them.                *)
(***************************************************************************)
EXTENDS Board

CONSTANTS ManagerTokens,   \* link tokens drawn for the Branch Manager,
          OfficeTokens,    \* and for Head Office (bound on the links made)
          NoToken

Tokens == ManagerTokens \cup OfficeTokens

ASSUME TokensAssumption ==
  ManagerTokens \cap OfficeTokens = {} /\ NoToken \notin Tokens

Signers == {"branch_manager", "head_office"}
SignerOf(t) == IF t \in ManagerTokens THEN "branch_manager" ELSE "head_office"

VARIABLES
  acc,      \* the client_acceptances row of each unit
  held,     \* the link token the request in each slot works with
  minted,   \* the tokens generated so far
  shared,   \* those handed over: returned to staff or mailed to the signer
  expired,  \* those whose 7 days are over
  used,     \* history: tokens that have written a signature
  reused,   \* history: tokens that have written one more than once
  owed      \* history: units moved back and not signed for again since,
            \*          except by a move that failed halfway

tokenVars == <<minted, shared, expired>>
historyVars == <<used, reused, owed>>
vars == <<boardVars, acc, held, tokenVars, historyVars>>

-----------------------------------------------------------------------------
(* client_acceptances: `here' is whether the unit has a row; the timestamps *)
(* bsp_acceptance_date, client_signed_at (branch_manager),                  *)
(* head_office_signed_at and signed_off_at are modelled by their presence.  *)

Rows == [here : BOOLEAN, bsp : BOOLEAN, signed : [Signers -> BOOLEAN],
         link : [Signers -> Tokens \cup {NoToken}], off : BOOLEAN]

NoRow == [here |-> FALSE, bsp |-> FALSE, signed |-> [s \in Signers |-> FALSE],
          link |-> [s \in Signers |-> NoToken], off |-> FALSE]

SomeoneSigned(row) == row.bsp \/ \E s \in Signers : row.signed[s]

AcceptanceSteps == {"link.store", "link.share", "submit.sign", "upload.store",
                    "finalize.mark", "finalize.advance"}
Steps == {"idle"} \cup BoardSteps \cup AcceptanceSteps

\* A unit that has come through the earlier stages and awaits acceptance.
Init ==
  /\ column = [u \in Units |-> "commissioning"]
  /\ mover = [u \in Units |-> "signoff"]
  /\ granted = [u \in Units |-> Columns \ {"commissioning", "completed"}]
  /\ req = [p \in Slots |-> NoRequest]
  /\ acc = [u \in Units |-> NoRow]
  /\ held = [p \in Slots |-> NoToken]
  /\ minted = {} /\ shared = {} /\ expired = {}
  /\ used = {} /\ reused = {}
  /\ owed = {}

-----------------------------------------------------------------------------
(* finalizeIfComplete, run by every handler below after the statement that  *)
(* read or wrote the row; `off' is signed_off_at in the copy it was given.  *)

Finalize(p, off) == IF off THEN Finish(p) ELSE Goto(p, "finalize.mark")

FinalizeMark(p) ==
  /\ req[p].at = "finalize.mark"
  /\ LET u == req[p].unit IN acc' = [acc EXCEPT ![u].off = acc[u].here]
  /\ Goto(p, "finalize.advance")
  /\ UNCHANGED <<ledgerVars, held, tokenVars, historyVars>>

FinalizeAdvance(p) ==
  /\ req[p].at = "finalize.advance"
  /\ AdvanceBoardColumn(req[p].unit, "completed", "signoff")
  /\ Finish(p)
  /\ UNCHANGED <<granted, acc, held, tokenVars, historyVars>>

\* Mutant: any row is finalized, signed or not.
GetAcceptanceUnsigned(p, u) ==
  /\ acc[u].here /\ ~acc[u].off
  /\ Begin(p, Serving(u, "finalize.mark"))
  /\ UNCHANGED <<ledgerVars, acc, held, tokenVars, historyVars>>

\* GET .../acceptance also finalizes a row that is signed but not signed off.
Overdue(u) == SomeoneSigned(acc[u]) /\ ~acc[u].off

GetAcceptance(p, u) ==
  /\ Overdue(u)
  /\ Begin(p, Serving(u, "finalize.mark"))
  /\ UNCHANGED <<ledgerVars, acc, held, tokenVars, historyVars>>

-----------------------------------------------------------------------------
(* The effect of a statement that writes a signature into u's row.          *)

Granting(u) ==
  /\ granted' = [granted EXCEPT ![u] = @ \cup {"commissioning"}]
  /\ owed' = owed \ {u}
  /\ UNCHANGED <<column, mover>>

SignBSP(u) ==
  /\ acc' = [acc EXCEPT ![u].here = TRUE, ![u].bsp = TRUE]
  /\ Granting(u)

RecordBSPAcceptance(p, u) ==
  /\ SignBSP(u)
  /\ IF acc[u].off THEN req[p].at = "idle" /\ UNCHANGED req
                    ELSE Begin(p, Serving(u, "finalize.mark"))
  /\ UNCHANGED <<held, tokenVars, used, reused>>

branchManagerSigned(u) == acc[u].signed["branch_manager"]

\* RecordManualUpload: refused if the Branch Manager's signature is there ...
UploadCheck(p, u) ==
  /\ ~branchManagerSigned(u)
  /\ Begin(p, Serving(u, "upload.store"))
  /\ UNCHANGED <<ledgerVars, acc, held, tokenVars, historyVars>>

RecordManualUpload(p, u) == UploadCheck(p, u)

\* ... at that moment; the upsert itself has no condition.
UploadStore(p) ==
  /\ req[p].at = "upload.store"
  /\ LET u == req[p].unit IN
       /\ acc' = [acc EXCEPT ![u].here = TRUE,
                             ![u].signed["branch_manager"] = TRUE]
       /\ Granting(u)
       /\ Finalize(p, acc[u].off)
  /\ UNCHANGED <<held, tokenVars, used, reused>>

-----------------------------------------------------------------------------
(* Signing links: branchManagerSigned / headOfficeSigned, then the upsert   *)
(* that stores the new token's hash and clears the signer's columns.        *)

\* Mutant: a signature that is there does not stand in the way.
LinkCheckAny(p, u, t) ==
  /\ t \notin minted
  /\ Begin(p, Serving(u, "link.store"))
  /\ held' = [held EXCEPT ![p] = t]
  /\ minted' = minted \cup {t}
  /\ UNCHANGED <<ledgerVars, acc, shared, expired, historyVars>>

LinkCheck(p, u, t) ==
  /\ t \notin minted
  /\ ~acc[u].signed[SignerOf(t)]
  /\ Begin(p, Serving(u, "link.store"))
  /\ held' = [held EXCEPT ![p] = t]
  /\ minted' = minted \cup {t}
  /\ UNCHANGED <<ledgerVars, acc, shared, expired, historyVars>>

\* GenerateClientSigningLink, EmailClientSigningLink and the same for Head Office.
ClientSigningLink(p, u) == \E t \in ManagerTokens : LinkCheck(p, u, t)
HeadOfficeSigningLink(p, u) == \E t \in OfficeTokens : LinkCheck(p, u, t)

Linked(u, s, t) ==
  [acc EXCEPT ![u].here = TRUE, ![u].link[s] = t, ![u].signed[s] = FALSE]

\* The Branch Manager's link inserts the row if need be; Head Office's is an
\* UPDATE, which without a row stores nothing and still reports success.
createSigningLinkToken(u, t) == acc' = Linked(u, "branch_manager", t)

createHeadOfficeSigningLinkToken(u, t) ==
  acc' = IF acc[u].here THEN Linked(u, "head_office", t) ELSE acc

LinkStore(p) ==
  /\ req[p].at = "link.store"
  /\ IF held[p] \in ManagerTokens
     THEN createSigningLinkToken(req[p].unit, held[p])
     ELSE createHeadOfficeSigningLinkToken(req[p].unit, held[p])
  /\ Goto(p, "link.share")
  /\ UNCHANGED <<ledgerVars, held, tokenVars, historyVars>>

\* The raw token leaves the server: in the response, or in the mail.
LinkShare(p) ==
  /\ req[p].at = "link.share"
  /\ shared' = shared \cup {held[p]}
  /\ held' = [held EXCEPT ![p] = NoToken]
  /\ Finish(p)
  /\ UNCHANGED <<ledgerVars, acc, minted, expired, historyVars>>

Expire(t) ==
  /\ t \in minted \ expired
  /\ expired' = expired \cup {t}
  /\ UNCHANGED <<boardVars, acc, held, minted, shared, historyVars>>

-----------------------------------------------------------------------------
(* SubmitClientSignature: resolve the token, then write by unit id.         *)

\* Mutants: a link that has signed is accepted again; a token is accepted
\* that was never handed over.
SubmitLookupUsed(p, u, t) ==
  /\ t \in shared \ expired
  /\ acc[u].link[SignerOf(t)] = t
  /\ Begin(p, Serving(u, "submit.sign"))
  /\ held' = [held EXCEPT ![p] = t]
  /\ UNCHANGED <<ledgerVars, acc, tokenVars, historyVars>>

SubmitLookupUnshared(p, u, t) ==
  /\ t \notin expired
  /\ acc[u].link[SignerOf(t)] = t
  /\ ~acc[u].signed[SignerOf(t)]
  /\ Begin(p, Serving(u, "submit.sign"))
  /\ held' = [held EXCEPT ![p] = t]
  /\ UNCHANGED <<ledgerVars, acc, tokenVars, historyVars>>

SubmitLookup(p, u, t) ==
  /\ t \in shared \ expired
  /\ acc[u].link[SignerOf(t)] = t
  /\ ~acc[u].signed[SignerOf(t)]
  /\ Begin(p, Serving(u, "submit.sign"))
  /\ held' = [held EXCEPT ![p] = t]
  /\ UNCHANGED <<ledgerVars, acc, tokenVars, historyVars>>

SubmitClientSignature(p) == \E u \in Units, t \in Tokens : SubmitLookup(p, u, t)

SubmitSign(p) ==
  /\ req[p].at = "submit.sign"
  /\ LET u == req[p].unit
         t == held[p]
     IN IF acc[u].here
        THEN /\ acc' = [acc EXCEPT ![u].signed[SignerOf(t)] = TRUE]
             /\ used' = used \cup {t}
             /\ reused' = reused \cup ({t} \cap used)
             /\ Granting(u)
             /\ Finalize(p, acc[u].off)
        ELSE Finish(p) /\ UNCHANGED <<ledgerVars, acc, historyVars>>
  /\ held' = [held EXCEPT ![p] = NoToken]
  /\ UNCHANGED tokenVars

-----------------------------------------------------------------------------
(* The board requests, over this module's tables.                           *)

BoardMoveRead(p, u, c, resetAcceptance) ==
  /\ MoveRead(p, u, c, resetAcceptance)
  /\ UNCHANGED <<acc, held, tokenVars, historyVars>>

BoardMoveWrite(p) ==
  /\ MoveWrite(p)
  /\ owed' = IF req[p].back THEN owed \cup {req[p].unit} ELSE owed
  /\ UNCHANGED <<acc, held, tokenVars, used, reused>>

\* Mutants: the reset clears the signatures and leaves signed_off_at; the
\* reset reports success and deletes nothing.
BoardMoveResetKeepsOff(p) ==
  /\ MoveReset(p)
  /\ acc' = [acc EXCEPT ![req[p].unit] = [NoRow EXCEPT !.off = acc[req[p].unit].off]]
  /\ UNCHANGED <<held, tokenVars, historyVars>>

BoardMoveResetNothing(p) ==
  /\ MoveReset(p)
  /\ UNCHANGED <<acc, held, tokenVars, historyVars>>

\* DELETE FROM client_acceptances.
BoardMoveReset(p) ==
  /\ MoveReset(p)
  /\ acc' = [acc EXCEPT ![req[p].unit] = NoRow]
  /\ UNCHANGED <<held, tokenVars, historyVars>>

BoardSyncRead(p, u) ==
  /\ SyncRead(p, u)
  /\ UNCHANGED <<acc, held, tokenVars, historyVars>>

\* Mutants: a row counts as ready whether or not anyone has signed it; the
\* query asks for signed_off_at.
MayAnswerAnyRow(u, c, ready) ==
  IF c = "commissioning" THEN ready = acc[u].here
                         ELSE ready => c \in granted[u]

MayAnswerOff(u, c, ready) ==
  IF c = "commissioning" THEN ready = acc[u].off
                         ELSE ready => c \in granted[u]

\* What the readiness query of column c may answer.  Those of the columns
\* before Commissioning read tables that other modules model: here they may
\* answer anything the past sign-offs allow.
MayAnswer(u, c, ready) ==
  IF c = "commissioning" THEN ready = SomeoneSigned(acc[u])
                         ELSE ready => c \in granted[u]

BoardSyncCheck(p) ==
  /\ \E ready \in BOOLEAN : /\ MayAnswer(req[p].unit, req[p].col, ready)
                            /\ SyncCheck(p, ready)
  /\ UNCHANGED <<acc, held, tokenVars, historyVars>>

BoardSyncWrite(p) ==
  /\ SyncWrite(p)
  /\ UNCHANGED <<acc, held, tokenVars, historyVars>>

\* Of a move that fails between its two statements the administrator is told
\* so: what it owes is not held against the server.
AbortRequest(p) ==
  /\ Abort(p)
  /\ held' = [held EXCEPT ![p] = NoToken]
  /\ owed' = IF req[p].at = "move.reset" THEN owed \ {req[p].unit} ELSE owed
  /\ UNCHANGED <<acc, tokenVars, used, reused>>

-----------------------------------------------------------------------------
BoardNext(p) ==
  \/ \E u \in Units, c \in MoveTargets, resetAcceptance \in BOOLEAN :
       BoardMoveRead(p, u, c, resetAcceptance)
  \/ BoardMoveWrite(p)
  \/ BoardMoveReset(p)
  \/ \E u \in Units : BoardSyncRead(p, u)
  \/ BoardSyncCheck(p)
  \/ BoardSyncWrite(p)

SignNext(p) ==
  \/ \E u \in Units : RecordBSPAcceptance(p, u)
  \/ \E u \in Units : RecordManualUpload(p, u)
  \/ UploadStore(p)
  \/ \E u \in Units : ClientSigningLink(p, u) \/ HeadOfficeSigningLink(p, u)
  \/ LinkStore(p)
  \/ LinkShare(p)
  \/ SubmitClientSignature(p)
  \/ SubmitSign(p)
  \/ \E u \in Units : GetAcceptance(p, u)
  \/ FinalizeMark(p)
  \/ FinalizeAdvance(p)

Next ==
  \/ \E p \in Slots : BoardNext(p) \/ SignNext(p) \/ AbortRequest(p)
  \/ \E t \in Tokens : Expire(t)

Spec == Init /\ [][Next]_vars

\* What a request does once it has begun.
Continue(p) == req[p].at # "idle" /\ (BoardNext(p) \/ SignNext(p))

\* Every request that has begun goes on until it ends or is cut short, and
\* users who find a card in the wrong column keep asking for a sync of it,
\* and not all of these requests are cut short.
FairSpec ==
  /\ Spec
  /\ \A p \in Slots : WF_vars(Continue(p) \/ AbortRequest(p))
  /\ \A u \in Units :
       /\ SF_vars(\E p \in Slots : BoardSyncRead(p, u))
       /\ SF_vars(\E p \in Slots : req[p].unit = u /\ BoardSyncCheck(p))
       /\ SF_vars(\E p \in Slots : req[p].unit = u /\ BoardSyncWrite(p))

-----------------------------------------------------------------------------
\* The tables and slots hold what their columns allow; only tokens that were
\* generated are handed over, and only those handed over have signed.
TypeOK ==
  /\ column \in [Units -> Columns]
  /\ mover \in [Units -> Ledger!Movers]
  /\ granted \in [Units -> SUBSET Columns]
  /\ req \in [Slots -> Requests(Steps)]
  /\ acc \in [Units -> Rows]
  /\ held \in [Slots -> Tokens \cup {NoToken}]
  /\ minted \subseteq Tokens /\ shared \subseteq minted /\ expired \subseteq minted
  /\ used \subseteq shared /\ reused \subseteq used
  /\ owed \subseteq Units

\* However the requests interleave and wherever they are cut short, a unit is
\* in the column it is in because an administrator put it there or because the
\* sign-offs of the preceding column were once recorded: SyncBoardColumn "can
\* only ever catch board_column up to state that a properly-authorized
\* sign-off already produced, never grant a new one".
AdvanceBacked == Ledger!AdvanceBacked

\* ... and every step of the handlers is a step the board's promise allows.
ImplementsLedger == Ledger!Spec

(* What is under way for a unit when another request takes a step.          *)

\* A link for this signer has passed its check and is about to be stored.
LinkPending(u, s) ==
  \E p \in Slots : /\ req[p].at = "link.store" /\ req[p].unit = u
                   /\ SignerOf(held[p]) = s

\* A request is about to close the record or to complete the unit; the record
\* of the unit is about to be deleted.
Closing(p) ==
  \/ req[p].at \in {"finalize.mark", "finalize.advance"}
  \/ req[p].at = "sync.write" /\ req[p].col = "commissioning"

BeingClosed(u) == \E p \in Slots : Closing(p) /\ req[p].unit = u
BeingReset(u) == \E p \in Slots : req[p].at = "move.reset" /\ req[p].unit = u

\* The server, not an administrator, has put the unit into Completed.
ByServer(u) == column[u] = "completed" /\ mover[u] # "admin"

\* A signature that no link under way can still erase.
FirmlySigned(u) ==
  acc[u].bsp \/ \E s \in Signers : acc[u].signed[s] /\ ~LinkPending(u, s)

\* The two overlaps that take a signature from under a closed stage.
Overlapped(u) ==
  \/ SomeoneSigned(acc[u]) /\ ~FirmlySigned(u)
  \/ BeingReset(u) /\ (ByServer(u) \/ BeingClosed(u))

Backed(u) == acc[u].off \/ ByServer(u) \/ BeingClosed(u) => FirmlySigned(u)

\* The stage is closed on a signature ("once ANY ONE of BSP Acceptance, Branch
\* Manager, or Head Office / Security Manager sign-off is present",
\* finalizeIfComplete) that is there to stay: a record that is signed off, a
\* unit that the server has completed and one that a request is about to
\* complete have it, however requests interleave, until a signature arrives
\* between the two statements of a link request and is the only one, or a
\* backward move deletes the record under a request that closes it.
ClosedOnSignature ==
  [][\A u \in Units : Backed(u) /\ ~Overlapped(u) => Backed(u)' \/ Overlapped(u)']_vars

\* "Commissioning | Completed | BSP Acceptance, plus the client or head office
\* signature" (users_manual.md).  This does not hold: any one signature will do.
CompletedAsManual ==
  \A u \in Units : column[u] = "completed" /\ mover[u] = "signoff"
                    => acc[u].bsp /\ \E s \in Signers : acc[u].signed[s]

\* A signing link writes at most one signature (SubmitClientSignature
\* "rejects expired or already-used links outright").
LinkSignsOnce == reused = {}

\* A signature is not overwritten by a later link request, branchManagerSigned
\* exists "so callers can refuse to re-open/overwrite it": what can still erase
\* it is a link request that had passed its check when the signature came.
\* Without one under way it stays as long as the record does.
SignatureKept ==
  [][\A u \in Units, s \in Signers :
       acc[u].signed[s] /\ ~LinkPending(u, s) /\ acc'[u].here
         => acc'[u].signed[s] /\ ~LinkPending(u, s)']_vars

\* After a confirmed backward move a unit is completed again, other than by
\* an administrator, only if somebody has signed for it since
\* (MoveBoardColumn: "so the unit genuinely has to be re-accepted").
ReacceptedAfterReset ==
  \A u \in Units : column[u] = "completed" /\ mover[u] # "admin"
                    => u \notin owed

\* ... however other requests interleave: once its record is gone and nothing
\* that acts on the old one is under way, no sign-off, link, sync or look at the
\* record completes the unit before somebody has signed again.
Unclaimed(u) ==
  u \in owed /\ ~SomeoneSigned(acc[u]) /\ ~ByServer(u) /\ ~BeingClosed(u)

ResetHolds == [][\A u \in Units : Unclaimed(u) => Unclaimed(u)' \/ u \notin owed']_vars

\* A unit that somebody has signed for (one signature closes the stage, see
\* ClosedOnSignature and CompletedAsManual) does not stay in Commissioning, even
\* if the request that signed was cut short halfway through finalizeIfComplete
\* (signed_off_at then keeps that function from trying again), unless the
\* signature goes away.
SignedCatchesUp ==
  \A u \in Units : (column[u] = "commissioning" /\ SomeoneSigned(acc[u]))
                     ~> (column[u] # "commissioning" \/ ~SomeoneSigned(acc[u]))
=============================================================================
