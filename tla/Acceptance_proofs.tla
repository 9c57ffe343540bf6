-------------------------- MODULE Acceptance_proofs --------------------------
(***************************************************************************)
(* Proofs about module Acceptance, for every set of units, request slots    *)
(* and tokens.                                                              *)
(***************************************************************************)
EXTENDS Acceptance, Board_proofs

USE DEF Others

LEMMA StepNames == {"idle"} \cup BoardSteps \cup AcceptanceSteps \subseteq Steps
  BY DEF Steps

\* The token a request works with has been generated, one that signs has been
\* handed over, and no sync looks for what follows the last column.
HeldOK ==
  \A p \in Slots :
    /\ req[p].at \in {"link.store", "link.share"} => held[p] \in minted
    /\ req[p].at = "submit.sign" => held[p] \in shared
    /\ req[p].at \in {"sync.check", "sync.write"} => req[p].col # "completed"

TypeInv == TypeOK /\ HeldOK

LEMMA RowTyped ==
  ASSUME NEW row \in Rows, NEW s \in Signers, NEW b \in BOOLEAN
  PROVE  /\ NoRow \in Rows
         /\ [row EXCEPT !.off = b] \in Rows
         /\ [row EXCEPT !.here = TRUE, !.bsp = TRUE] \in Rows
         /\ [row EXCEPT !.signed[s] = TRUE] \in Rows
         /\ [row EXCEPT !.here = TRUE, !.signed[s] = TRUE] \in Rows
  BY DEF NoRow, Rows

LEMMA LinkTyped ==
  ASSUME NEW row \in Rows, NEW s \in Signers, NEW t \in Tokens
  PROVE  [row EXCEPT !.here = TRUE, !.link[s] = t, !.signed[s] = FALSE] \in Rows
  BY DEF Rows

\* Storing a token does nothing, or writes one link.
LEMMA LinkStored ==
  ASSUME NEW p \in Slots, LinkStore(p), held[p] \in Tokens
  PROVE  acc' \in {acc, Linked(req[p].unit, SignerOf(held[p]), held[p])}
BY DEF LinkStore, createSigningLinkToken, createHeadOfficeSigningLinkToken, SignerOf

LEMMA TypeInit == Init => TypeInv
<1> SUFFICES ASSUME Init PROVE TypeInv
  OBVIOUS
<1>1. req \in [Slots -> Requests(Steps)] /\ \A p \in Slots : req[p].at = "idle"
  BY UnitsAssumption DEF Init, NoRequest, Requests, Columns, Steps
<1>2. acc \in [Units -> Rows]
  BY DEF Init, NoRow, Rows
<1>3. TypeOK
  BY <1>1, <1>2 DEF Init, TypeOK, Ledger!Movers, Columns
<1>4. HeldOK
  BY <1>1 DEF HeldOK
<1>5. QED BY <1>3, <1>4 DEF TypeInv

LEMMA LedgerTyped ==
  ASSUME TypeOK, NEW u \in Units, NEW c \in Columns, NEW who \in Ledger!Movers
  PROVE  /\ AdvanceBoardColumn(u, c, who) =>
              column' \in [Units -> Columns] /\ mover' \in [Units -> Ledger!Movers]
         /\ Granting(u) =>
              granted' \in [Units -> SUBSET Columns] /\ owed' \subseteq Units
              /\ column' \in [Units -> Columns] /\ mover' \in [Units -> Ledger!Movers]
  BY DEF TypeOK, AdvanceBoardColumn, Granting, Columns

LEMMA SlotTyped ==
  ASSUME TypeOK, NEW p \in Slots
  PROVE  /\ ReqOK(Steps) /\ req[p].unit \in Units /\ req[p].col \in Columns
         /\ acc[req[p].unit] \in Rows /\ SignerOf(held[p]) \in Signers
  BY DEF TypeOK, ReqOK, Requests, SignerOf, Signers


\* What a step of slot p leaves of the type invariant when the tables it
\* writes keep their types, the token sets are untouched and the slot does
\* not go on to use its token.
LEMMA SlotStep ==
  ASSUME TypeInv, NEW p \in Slots,
         ReqOK(Steps)', Others(p),
         req'[p].at \notin {"link.store", "link.share", "submit.sign"},
         req'[p].at \in {"sync.check", "sync.write"} => req'[p].col # "completed",
         held' \in [Slots -> Tokens \cup {NoToken}],
         \A q \in Slots \ {p} : held'[q] = held[q],
         UNCHANGED tokenVars,
         column' \in [Units -> Columns], mover' \in [Units -> Ledger!Movers],
         granted' \in [Units -> SUBSET Columns],
         acc' \in [Units -> Rows],
         used' \subseteq shared, reused' \subseteq used', owed' \subseteq Units
  PROVE  TypeInv'
<1>1. HeldOK'
  BY DEF TypeInv, HeldOK, tokenVars
<1>2. TypeOK'
  BY DEF TypeInv, TypeOK, ReqOK, tokenVars
<1>3. QED BY <1>1, <1>2 DEF TypeInv

\* The steps that only move the request in slot p on.
LEMMA QuietStep ==
  ASSUME TypeInv, NEW p \in Slots,
         ReqOK(Steps)', Others(p),
         req'[p].at \notin {"link.store", "link.share", "submit.sign"},
         req'[p].at \in {"sync.check", "sync.write"} => req'[p].col # "completed",
         UNCHANGED <<ledgerVars, acc, held, tokenVars, historyVars>>
  PROVE  TypeInv'
<1>1. /\ held \in [Slots -> Tokens \cup {NoToken}] /\ acc \in [Units -> Rows]
      /\ column \in [Units -> Columns] /\ mover \in [Units -> Ledger!Movers]
      /\ granted \in [Units -> SUBSET Columns]
      /\ used \subseteq shared /\ reused \subseteq used /\ owed \subseteq Units
  BY DEF TypeInv, TypeOK
<1>2. QED BY <1>1, SlotStep DEF ledgerVars, historyVars

LEMMA TypeStep == ASSUME TypeInv, [Next]_vars PROVE TypeInv'
<1>0. /\ TypeOK
      /\ \A p \in Slots :
           /\ ReqOK(Steps) /\ req[p].unit \in Units /\ req[p].col \in Columns
           /\ acc[req[p].unit] \in Rows /\ SignerOf(held[p]) \in Signers
  BY SlotTyped DEF TypeInv
<1>1. ASSUME NEW p \in Slots, NEW u \in Units, RecordBSPAcceptance(p, u)
      PROVE  TypeInv'
  <2> USE <1>0, <1>1 DEF RecordBSPAcceptance, SignBSP
  <2>1. acc' \in [Units -> Rows]
    BY RowTyped, ZenonT(30) DEF TypeOK, Signers
  <2>2. ReqOK(Steps)' /\ req'[p].at \in {"idle", "finalize.mark"}
        /\ Others(p)
    <3>1. CASE acc[u].off
      BY <3>1 DEF ReqOK
    <3>2. CASE ~acc[u].off
      BY <3>2, StepNames, ServeReq DEF AcceptanceSteps
    <3>3. QED BY <3>1, <3>2
  <2>3. granted' \in [Units -> SUBSET Columns] /\ owed' \subseteq Units
        /\ column' \in [Units -> Columns] /\ mover' \in [Units -> Ledger!Movers]
    BY LedgerTyped DEF Columns, Ledger!Movers
  <2>4. UNCHANGED <<held, tokenVars, used, reused>>
    OBVIOUS
  <2> HIDE DEF RecordBSPAcceptance
  <2>5. QED BY <2>1, <2>2, <2>3, <2>4, SlotStep DEF TypeOK
<1>2. ASSUME NEW p \in Slots, NEW u \in Units, UploadCheck(p, u)
      PROVE  TypeInv'
  BY <1>0, <1>2, StepNames, ServeReq, QuietStep
  DEF UploadCheck, AcceptanceSteps
<1>3. ASSUME NEW p \in Slots, UploadStore(p)
      PROVE  TypeInv'
  <2> USE <1>0, <1>3 DEF UploadStore
  <2>1. acc' \in [Units -> Rows]
    BY RowTyped, ZenonT(30) DEF TypeOK, Signers
  <2>2. ReqOK(Steps)' /\ req'[p].at \in {"idle", "finalize.mark"}
        /\ Others(p)
    BY StepNames, FinishReq, GotoReq DEF Finalize, AcceptanceSteps
  <2>3. granted' \in [Units -> SUBSET Columns] /\ owed' \subseteq Units
        /\ column' \in [Units -> Columns] /\ mover' \in [Units -> Ledger!Movers]
    BY LedgerTyped DEF Columns, Ledger!Movers
  <2>4. UNCHANGED <<held, tokenVars, used, reused>>
    OBVIOUS
  <2> HIDE DEF UploadStore
  <2>5. QED BY <2>1, <2>2, <2>3, <2>4, SlotStep DEF TypeOK
<1>4. ASSUME NEW p \in Slots, NEW u \in Units, NEW t \in Tokens, LinkCheck(p, u, t)
      PROVE  TypeInv'
  <2> USE <1>0, <1>4 DEF LinkCheck
  <2>1. ReqOK(Steps)' /\ req'[p].at = "link.store"
        /\ Others(p)
    BY StepNames, ServeReq DEF AcceptanceSteps
  <2>2. held' \in [Slots -> Tokens \cup {NoToken}] /\ held'[p] \in minted'
        /\ \A q \in Slots \ {p} : held'[q] = held[q]
    BY DEF TypeOK
  <2>3. HeldOK'
    BY <2>1, <2>2 DEF HeldOK, TypeInv
  <2>4. TypeOK'
    BY <2>1, <2>2 DEF TypeOK, ReqOK, ledgerVars, historyVars
  <2>5. QED BY <2>3, <2>4 DEF TypeInv
<1>5. ASSUME NEW p \in Slots, LinkStore(p)
      PROVE  TypeInv'
  <2> USE <1>0, <1>5 DEF LinkStore
  <2>1. ReqOK(Steps)' /\ req'[p].at = "link.share"
        /\ Others(p)
    BY StepNames, GotoReq DEF AcceptanceSteps
  <2>2. held[p] \in minted /\ held[p] \in Tokens
    BY DEF TypeInv, HeldOK, TypeOK
  <2>3. [acc[req[p].unit] EXCEPT !.here = TRUE, !.link[SignerOf(held[p])] = held[p],
                               !.signed[SignerOf(held[p])] = FALSE] \in Rows
    BY <2>2, LinkTyped, ZenonT(30)
  <2>4. acc' \in [Units -> Rows]
    <3>1. Linked(req[p].unit, SignerOf(held[p]), held[p]) \in [Units -> Rows]
      BY <2>3 DEF TypeOK, Linked
    <3>2. QED BY <2>2, <3>1, LinkStored DEF TypeOK
  <2>5. HeldOK'
    BY <2>1, <2>2 DEF HeldOK, TypeInv, tokenVars
  <2>6. TypeOK'
    BY <2>1, <2>4 DEF TypeOK, ReqOK, ledgerVars, historyVars, tokenVars
  <2>7. QED BY <2>5, <2>6 DEF TypeInv
<1>6. ASSUME NEW p \in Slots, LinkShare(p)
      PROVE  TypeInv'
  <2> USE <1>0, <1>6 DEF LinkShare
  <2>1. ReqOK(Steps)' /\ req'[p].at = "idle"
        /\ Others(p)
    BY StepNames, FinishReq
  <2>2. held[p] \in minted
    BY DEF TypeInv, HeldOK
  <2>3. held' \in [Slots -> Tokens \cup {NoToken}]
        /\ \A q \in Slots \ {p} : held'[q] = held[q]
    BY DEF TypeOK
  <2>4. HeldOK'
    BY <2>1, <2>3 DEF HeldOK, TypeInv
  <2>5. TypeOK'
    BY <2>1, <2>2, <2>3 DEF TypeOK, ReqOK, ledgerVars, historyVars
  <2>6. QED BY <2>4, <2>5 DEF TypeInv
<1>7. ASSUME NEW p \in Slots, NEW u \in Units, NEW t \in Tokens, SubmitLookup(p, u, t)
      PROVE  TypeInv'
  <2> USE <1>0, <1>7 DEF SubmitLookup
  <2>1. ReqOK(Steps)' /\ req'[p].at = "submit.sign"
        /\ Others(p)
    BY StepNames, ServeReq DEF AcceptanceSteps
  <2>2. held' \in [Slots -> Tokens \cup {NoToken}] /\ held'[p] \in shared
        /\ \A q \in Slots \ {p} : held'[q] = held[q]
    BY DEF TypeOK
  <2>3. HeldOK'
    BY <2>1, <2>2 DEF HeldOK, TypeInv, tokenVars
  <2>4. TypeOK'
    BY <2>1, <2>2 DEF TypeOK, ReqOK, ledgerVars, historyVars, tokenVars
  <2>5. QED BY <2>3, <2>4 DEF TypeInv
<1>8. ASSUME NEW p \in Slots, SubmitSign(p)
      PROVE  TypeInv'
  <2> USE <1>0, <1>8 DEF SubmitSign
  <2>1. held[p] \in shared
    BY DEF TypeInv, HeldOK
  <2>2. acc' \in [Units -> Rows]
    <3>1. [acc[req[p].unit] EXCEPT !.signed[SignerOf(held[p])] = TRUE] \in Rows
      BY RowTyped, ZenonT(30)
    <3>2. QED BY <3>1 DEF TypeOK
  <2>3. ReqOK(Steps)' /\ req'[p].at \in {"idle", "finalize.mark"}
        /\ Others(p)
    BY StepNames, FinishReq, GotoReq DEF Finalize, AcceptanceSteps
  <2>4. granted' \in [Units -> SUBSET Columns] /\ owed' \subseteq Units
        /\ column' \in [Units -> Columns] /\ mover' \in [Units -> Ledger!Movers]
    BY LedgerTyped DEF Columns, Ledger!Movers, ledgerVars, historyVars, TypeOK
  <2>5. used' \subseteq shared /\ reused' \subseteq used'
    BY <2>1 DEF TypeOK, historyVars
  <2>6. held' \in [Slots -> Tokens \cup {NoToken}]
        /\ \A q \in Slots \ {p} : held'[q] = held[q]
    BY DEF TypeOK
  <2>7. UNCHANGED tokenVars
    OBVIOUS
  <2> HIDE DEF SubmitSign
  <2>8. QED BY <2>2, <2>3, <2>4, <2>5, <2>6, <2>7, SlotStep
<1>9. ASSUME NEW p \in Slots, NEW u \in Units, GetAcceptance(p, u)
      PROVE  TypeInv'
  BY <1>0, <1>9, StepNames, ServeReq, QuietStep
  DEF GetAcceptance, Overdue, AcceptanceSteps
<1>10. ASSUME NEW p \in Slots, FinalizeMark(p)
      PROVE  TypeInv'
  <2> USE <1>0, <1>10 DEF FinalizeMark
  <2>1. acc[req[p].unit].here \in BOOLEAN
    BY DEF Rows
  <2>2. acc' \in [Units -> Rows]
    BY <2>1, RowTyped, ZenonT(30) DEF TypeOK, Signers
  <2>3. ReqOK(Steps)' /\ req'[p].at = "finalize.advance"
        /\ Others(p)
    BY StepNames, GotoReq DEF AcceptanceSteps
  <2>4. UNCHANGED <<ledgerVars, held, tokenVars, historyVars>>
    OBVIOUS
  <2> HIDE DEF FinalizeMark
  <2>5. QED BY <2>2, <2>3, <2>4, SlotStep DEF TypeOK, ledgerVars, historyVars
<1>11. ASSUME NEW p \in Slots, FinalizeAdvance(p)
      PROVE  TypeInv'
  <2> USE <1>0, <1>11 DEF FinalizeAdvance
  <2>1. column' \in [Units -> Columns] /\ mover' \in [Units -> Ledger!Movers]
    BY LedgerTyped DEF Columns, Ledger!Movers
  <2>2. ReqOK(Steps)' /\ req'[p].at = "idle" /\ Others(p)
    BY StepNames, FinishReq
  <2> HIDE DEF FinalizeAdvance
  <2>3. UNCHANGED <<granted, acc, held, tokenVars, historyVars>>
    BY DEF FinalizeAdvance
  <2>4. QED BY <2>1, <2>2, <2>3, SlotStep DEF TypeOK, historyVars
<1>12. ASSUME NEW p \in Slots, NEW u \in Units, NEW c \in MoveTargets,
              NEW reset \in BOOLEAN, BoardMoveRead(p, u, c, reset)
      PROVE  TypeInv'
  <2>1. [at |-> "move.write", unit |-> u, col |-> c, back |-> IsBackward(u, c)]
          \in Requests(Steps)
    BY StepNames, MoveRequest DEF BoardSteps
  <2>2. QED BY <1>0, <1>12, <2>1, BeginReq, QuietStep DEF BoardMoveRead, MoveRead
<1>13. ASSUME NEW p \in Slots, BoardMoveWrite(p)
      PROVE  TypeInv'
  <2> USE <1>0, <1>13 DEF BoardMoveWrite, MoveWrite
  <2>1. column' \in [Units -> Columns] /\ mover' \in [Units -> Ledger!Movers]
    BY LedgerTyped DEF Ledger!Movers
  <2>2. ReqOK(Steps)' /\ req'[p].at \in {"idle", "move.reset"}
        /\ Others(p)
    BY StepNames, FinishReq, GotoReq DEF BoardSteps
  <2>3. owed' \subseteq Units /\ UNCHANGED <<granted, acc, held, tokenVars, used, reused>>
    BY DEF TypeOK
  <2> HIDE DEF BoardMoveWrite
  <2>4. QED BY <2>1, <2>2, <2>3, SlotStep DEF TypeOK
<1>14. ASSUME NEW p \in Slots, BoardMoveReset(p)
      PROVE  TypeInv'
  <2> USE <1>0, <1>14 DEF BoardMoveReset, MoveReset
  <2>1. acc' \in [Units -> Rows]
    BY DEF TypeOK, NoRow, Rows
  <2>2. ReqOK(Steps)' /\ req'[p].at = "idle" /\ Others(p)
    BY StepNames, FinishReq
  <2>3. UNCHANGED <<ledgerVars, held, tokenVars, historyVars>>
    OBVIOUS
  <2> HIDE DEF BoardMoveReset
  <2>4. QED BY <2>1, <2>2, <2>3, SlotStep DEF TypeOK, ledgerVars, historyVars
<1>15. ASSUME NEW p \in Slots, NEW u \in Units, BoardSyncRead(p, u)
      PROVE  TypeInv'
  <2>1. LET r == [Serving(u, "sync.check") EXCEPT !.col = column[u]]
        IN  r \in Requests(Steps) /\ r.at = "sync.check" /\ r.col = column[u]
    BY <1>0, StepNames, SyncRequest DEF TypeOK, BoardSteps
  <2>2. QED BY <1>0, <1>15, <2>1, BeginReq, QuietStep DEF BoardSyncRead, SyncRead
<1>16. ASSUME NEW p \in Slots, BoardSyncCheck(p)
      PROVE  TypeInv'
  <2>1. ReqOK(Steps)' /\ req'[p].at \in {"idle", "sync.write"}
        /\ (req'[p].at = "sync.write" => req'[p].col # "completed")
        /\ Others(p)
    BY <1>0, <1>16, StepNames, FinishReq, GotoReq
    DEF BoardSyncCheck, SyncCheck, BoardSteps, TypeInv, HeldOK
  <2>2. UNCHANGED <<ledgerVars, acc, held, tokenVars, historyVars>>
    BY <1>16 DEF BoardSyncCheck, SyncCheck
  <2>3. QED BY <2>1, <2>2, QuietStep
<1>17. ASSUME NEW p \in Slots, BoardSyncWrite(p)
      PROVE  TypeInv'
  <2> USE <1>0, <1>17 DEF BoardSyncWrite, SyncWrite
  <2>1. req[p].col # "completed"
    BY DEF TypeInv, HeldOK
  <2>2. Following[req[p].col] \in Columns
    BY <2>1 DEF Columns, Following
  <2>3. column' \in [Units -> Columns] /\ mover' \in [Units -> Ledger!Movers]
    BY <2>2, LedgerTyped DEF Ledger!Movers
  <2>4. ReqOK(Steps)' /\ req'[p].at = "idle" /\ Others(p)
    BY StepNames, FinishReq
  <2>5. UNCHANGED <<granted, acc, held, tokenVars, historyVars>>
    OBVIOUS
  <2> HIDE DEF BoardSyncWrite
  <2>6. QED BY <2>3, <2>4, <2>5, SlotStep DEF TypeOK, historyVars
<1>18. ASSUME NEW p \in Slots, AbortRequest(p)
      PROVE  TypeInv'
  <2> USE <1>0, <1>18 DEF AbortRequest, Abort
  <2>1. ReqOK(Steps)' /\ req'[p].at = "idle" /\ Others(p)
    BY StepNames, FinishReq
  <2>2. held' \in [Slots -> Tokens \cup {NoToken}]
        /\ \A q \in Slots \ {p} : held'[q] = held[q]
    BY DEF TypeOK
  <2>3. owed' \subseteq Units /\ UNCHANGED <<ledgerVars, acc, tokenVars, used, reused>>
    BY DEF TypeOK
  <2> HIDE DEF AbortRequest
  <2>4. QED BY <2>1, <2>2, <2>3, SlotStep DEF TypeOK, ledgerVars
<1>19. ASSUME NEW t \in Tokens, Expire(t)
      PROVE  TypeInv'
  BY <1>19 DEF TypeInv, TypeOK, HeldOK, Expire, boardVars, historyVars
<1>20. CASE UNCHANGED vars
  BY <1>20 DEF TypeInv, TypeOK, HeldOK, vars, boardVars, tokenVars, historyVars
<1>21. QED
  BY <1>1, <1>2, <1>3, <1>4, <1>5, <1>6, <1>7, <1>8, <1>9, <1>10, <1>11, <1>12,
     <1>13, <1>14, <1>15, <1>16, <1>17, <1>18, <1>19, <1>20
  DEF Next, BoardNext, SignNext, RecordManualUpload, ClientSigningLink,
      HeadOfficeSigningLink, SubmitClientSignature, Tokens

\* Every variable keeps its type, a token is shared only after it has been
\* generated and signs only after it has been shared.
THEOREM TypeCorrect == Spec => []TypeOK
<1>1. Spec => []TypeInv
  BY TypeInit, TypeStep, PTL DEF Spec
<1>2. TypeInv => TypeOK
  BY DEF TypeInv
<1>3. QED BY <1>1, <1>2, PTL

-----------------------------------------------------------------------------
(* Why the board keeps its promise: a row that somebody has signed, a       *)
(* request about to complete a unit and a sync about to advance one each    *)
(* follow a sign-off that was recorded, and what was once recorded stays    *)
(* recorded, whatever is deleted from the tables meanwhile.                 *)

GrantInv ==
  /\ \A u \in Units : SomeoneSigned(acc[u]) => "commissioning" \in granted[u]
  /\ \A p \in Slots :
       /\ req[p].at \in {"finalize.mark", "finalize.advance"}
            => "commissioning" \in granted[req[p].unit]
       /\ req[p].at = "sync.write" => req[p].col \in granted[req[p].unit]

LEMMA GrantInit == Init => GrantInv
<1>1. Init => \A u \in Units : ~SomeoneSigned(acc[u])
  BY DEF Init, NoRow, SomeoneSigned
<1>2. Init => \A p \in Slots : req[p].at = "idle"
  BY DEF Init, NoRequest
<1>3. QED BY <1>1, <1>2 DEF GrantInv

\* A step of slot p preserves GrantInv if nothing granted is taken back and
\* what p signs, or goes on to do, is granted.
LEMMA GrantFrame ==
  ASSUME GrantInv, NEW p \in Slots, \A q \in Slots : req[q].unit \in Units,
         \A u \in Units : granted[u] \subseteq granted'[u],
         \A u \in Units : SomeoneSigned(acc'[u])
                            => SomeoneSigned(acc[u]) \/ "commissioning" \in granted'[u],
         Others(p),
         req'[p].at \in {"finalize.mark", "finalize.advance"}
           => "commissioning" \in granted'[req'[p].unit],
         req'[p].at = "sync.write" => req'[p].col \in granted'[req'[p].unit]
  PROVE  GrantInv'
  BY DEF GrantInv, SomeoneSigned

\* Steps that neither sign nor grant anything.
LEMMA GrantQuiet ==
  ASSUME GrantInv, NEW p \in Slots, \A q \in Slots : req[q].unit \in Units,
         UNCHANGED <<acc, granted>>,
         Others(p),
         req'[p].at \in {"finalize.mark", "finalize.advance"}
           => "commissioning" \in granted[req'[p].unit],
         req'[p].at = "sync.write" => req'[p].col \in granted[req'[p].unit]
  PROVE  GrantInv'
  BY GrantFrame

\* Recording a signature grants the Commissioning sign-off.
LEMMA GrantSign ==
  ASSUME TypeInv, GrantInv, NEW p \in Slots, NEW u \in Units, Granting(u),
         \A v \in Units \ {u} : acc'[v] = acc[v],
         Others(p),
         req'[p].at \in {"idle", "finalize.mark"},
         req'[p].at = "finalize.mark" => req'[p].unit = u
  PROVE  GrantInv'
<1>1. \A q \in Slots : req[q].unit \in Units
  BY SlotTyped DEF TypeInv
<1>2. /\ \A v \in Units : granted[v] \subseteq granted'[v]
      /\ "commissioning" \in granted'[u]
  BY DEF Granting, TypeInv, TypeOK
<1>3. \A v \in Units : SomeoneSigned(acc'[v])
                          => SomeoneSigned(acc[v]) \/ "commissioning" \in granted'[v]
  BY <1>2
<1>4. QED BY <1>1, <1>2, <1>3, GrantFrame

LEMMA GrantStep == ASSUME TypeInv, GrantInv, [Next]_vars PROVE GrantInv'
<1>0. /\ TypeOK
      /\ \A p \in Slots :
           /\ ReqOK(Steps) /\ req[p].unit \in Units /\ req[p].col \in Columns
           /\ acc[req[p].unit] \in Rows /\ SignerOf(held[p]) \in Signers
  BY SlotTyped DEF TypeInv
<1>1. ASSUME NEW p \in Slots, NEW u \in Units, RecordBSPAcceptance(p, u)
      PROVE  GrantInv'
  <2> USE <1>0, <1>1 DEF RecordBSPAcceptance, SignBSP
  <2>1. /\ Others(p)
        /\ req'[p].at \in {"idle", "finalize.mark"}
        /\ req'[p].at = "finalize.mark" => req'[p].unit = u
    BY StepNames, ServeReq DEF AcceptanceSteps
  <2>2. \A v \in Units \ {u} : acc'[v] = acc[v]
    BY DEF TypeOK
  <2>3. QED BY <2>1, <2>2, GrantSign
<1>2. ASSUME NEW p \in Slots, UploadStore(p)
      PROVE  GrantInv'
  <2> USE <1>0, <1>2 DEF UploadStore
  <2>1. /\ Others(p)
        /\ req'[p].at \in {"idle", "finalize.mark"}
        /\ req'[p].at = "finalize.mark" => req'[p].unit = req[p].unit
    BY StepNames, FinishReq, GotoReq DEF Finalize, AcceptanceSteps
  <2>2. \A v \in Units \ {req[p].unit} : acc'[v] = acc[v]
    BY DEF TypeOK
  <2>3. QED BY <2>1, <2>2, GrantSign
<1>3. ASSUME NEW p \in Slots, SubmitSign(p)
      PROVE  GrantInv'
  <2> USE <1>0, <1>3 DEF SubmitSign
  <2>1. CASE acc[req[p].unit].here
    <3>1. /\ Others(p)
          /\ req'[p].at \in {"idle", "finalize.mark"}
          /\ req'[p].at = "finalize.mark" => req'[p].unit = req[p].unit
      BY <2>1, StepNames, FinishReq, GotoReq DEF Finalize, AcceptanceSteps
    <3>2. \A v \in Units \ {req[p].unit} : acc'[v] = acc[v]
      BY <2>1 DEF TypeOK
    <3>3. QED BY <2>1, <3>1, <3>2, GrantSign
  <2>2. CASE ~acc[req[p].unit].here
    BY <2>2, StepNames, FinishReq, GrantQuiet DEF ledgerVars
  <2>3. QED BY <2>1, <2>2
<1>4. ASSUME NEW p \in Slots, LinkStore(p)
      PROVE  GrantInv'
  <2> USE <1>0, <1>4 DEF LinkStore
  <2>1. /\ Others(p)
        /\ req'[p].at = "link.share"
    BY StepNames, GotoReq DEF AcceptanceSteps
  <2>2. \A u \in Units : SomeoneSigned(acc'[u]) => SomeoneSigned(acc[u])
    <3>1. CASE acc' = acc
      BY <3>1
    <3>2. CASE acc' = Linked(req[p].unit, SignerOf(held[p]), held[p])
      <4> DEFINE v == req[p].unit
                 row == [acc[v] EXCEPT !.here = TRUE,
                                       !.link[SignerOf(held[p])] = held[p],
                                       !.signed[SignerOf(held[p])] = FALSE]
      <4>1. /\ acc'[v] = row
            /\ \A u \in Units \ {v} : acc'[u] = acc[u]
        BY <3>2 DEF TypeOK, Linked
      <4>2. row.bsp = acc[v].bsp
            /\ \A s \in Signers : row.signed[s] => acc[v].signed[s]
        BY DEF Rows
      <4> HIDE DEF v, row
      <4>3. SomeoneSigned(row) => SomeoneSigned(acc[v])
        BY <4>2 DEF SomeoneSigned
      <4>4. QED BY <4>1, <4>3, ZenonT(30)
    <3>3. held[p] \in Tokens
      BY DEF TypeInv, HeldOK, TypeOK
    <3>4. QED BY <3>1, <3>2, <3>3, LinkStored
  <2>3. granted' = granted
    BY DEF ledgerVars
  <2> HIDE DEF LinkStore
  <2>4. QED BY <2>1, <2>2, <2>3, GrantFrame
<1>5. ASSUME NEW p \in Slots, NEW u \in Units, GetAcceptance(p, u)
      PROVE  GrantInv'
  <2>1. /\ Others(p)
        /\ req'[p].at = "finalize.mark" /\ req'[p].unit = u
    BY <1>0, <1>5, StepNames, ServeReq DEF GetAcceptance, AcceptanceSteps
  <2>2. "commissioning" \in granted[u] /\ UNCHANGED <<acc, granted>>
    BY <1>5 DEF GetAcceptance, Overdue, GrantInv, ledgerVars
  <2>3. QED BY <1>0, <2>1, <2>2, GrantQuiet
<1>6. ASSUME NEW p \in Slots, FinalizeMark(p)
      PROVE  GrantInv'
  <2> USE <1>0, <1>6 DEF FinalizeMark
  <2>1. /\ Others(p)
        /\ req'[p].at = "finalize.advance" /\ req'[p].unit = req[p].unit
    BY StepNames, GotoReq DEF AcceptanceSteps
  <2>2. \A u \in Units : SomeoneSigned(acc'[u]) => SomeoneSigned(acc[u])
    BY DEF TypeOK, SomeoneSigned, Rows
  <2>3. "commissioning" \in granted[req[p].unit] /\ granted' = granted
    BY DEF GrantInv, ledgerVars
  <2> HIDE DEF FinalizeMark
  <2>4. QED BY <2>1, <2>2, <2>3, GrantFrame
<1>7. ASSUME NEW p \in Slots, BoardMoveReset(p)
      PROVE  GrantInv'
  <2> USE <1>0, <1>7 DEF BoardMoveReset, MoveReset
  <2>1. /\ Others(p)
        /\ req'[p].at = "idle"
    BY StepNames, FinishReq
  <2>2. \A u \in Units : SomeoneSigned(acc'[u]) => SomeoneSigned(acc[u])
    BY DEF TypeOK, SomeoneSigned, NoRow
  <2>3. granted' = granted
    BY DEF ledgerVars
  <2> HIDE DEF BoardMoveReset
  <2>4. QED BY <2>1, <2>2, <2>3, GrantFrame
<1>8. ASSUME NEW p \in Slots, BoardSyncCheck(p)
      PROVE  GrantInv'
  <2>1. PICK ready \in BOOLEAN : /\ MayAnswer(req[p].unit, req[p].col, ready)
                                 /\ SyncCheck(p, ready)
    BY <1>8 DEF BoardSyncCheck
  <2>2. ready => req[p].col \in granted[req[p].unit]
    BY <1>0, <2>1 DEF MayAnswer, GrantInv
  <2>3. /\ Others(p)
        /\ req'[p].at \in {"idle", "sync.write"}
        /\ req'[p].at = "sync.write" => /\ ready
                                        /\ req'[p].unit = req[p].unit
                                        /\ req'[p].col = req[p].col
    BY <1>0, <2>1, StepNames, FinishReq, GotoReq DEF SyncCheck, BoardSteps
  <2>4. UNCHANGED <<acc, granted>>
    BY <1>8 DEF BoardSyncCheck, SyncCheck, ledgerVars
  <2>5. QED BY <1>0, <2>2, <2>3, <2>4, GrantQuiet
<1>9. ASSUME NEW p \in Slots,
             \/ \E u \in Units : UploadCheck(p, u) \/ BoardSyncRead(p, u)
             \/ \E u \in Units, t \in Tokens : LinkCheck(p, u, t) \/ SubmitLookup(p, u, t)
             \/ \E u \in Units, c \in MoveTargets, reset \in BOOLEAN :
                  BoardMoveRead(p, u, c, reset)
      PROVE  GrantInv'
  <2>1. \A u \in Units, c \in MoveTargets :
          [at |-> "move.write", unit |-> u, col |-> c, back |-> IsBackward(u, c)]
            \in Requests(Steps)
    BY StepNames, MoveRequest DEF BoardSteps
  <2>2. \A u \in Units : LET r == [Serving(u, "sync.check") EXCEPT !.col = column[u]]
                         IN  r \in Requests(Steps) /\ r.at = "sync.check"
    BY <1>0, StepNames, SyncRequest DEF TypeOK, BoardSteps
  <2>3. /\ Others(p)
        /\ req'[p].at \in {"upload.store", "sync.check", "link.store",
                           "submit.sign", "move.write"}
    <3>1. CASE \E u \in Units : UploadCheck(p, u)
      BY <1>0, <3>1, StepNames, ServeReq DEF UploadCheck, AcceptanceSteps
    <3>2. ASSUME NEW u \in Units, BoardSyncRead(p, u)
          PROVE  Others(p) /\ req'[p].at = "sync.check"
      <4> DEFINE r == [Serving(u, "sync.check") EXCEPT !.col = column[u]]
      <4>1. r \in Requests(Steps) /\ r.at = "sync.check"
        BY <2>2
      <4>2. Begin(p, r)
        BY <3>2 DEF BoardSyncRead, SyncRead
      <4> HIDE DEF r
      <4>3. QED BY <1>0, <4>1, <4>2, BeginReq
    <3>3. CASE \E u \in Units, t \in Tokens : LinkCheck(p, u, t)
      BY <1>0, <3>3, StepNames, ServeReq DEF LinkCheck, AcceptanceSteps
    <3>4. CASE \E u \in Units, t \in Tokens : SubmitLookup(p, u, t)
      BY <1>0, <3>4, StepNames, ServeReq DEF SubmitLookup, AcceptanceSteps
    <3>5. CASE \E u \in Units, c \in MoveTargets, reset \in BOOLEAN :
                 BoardMoveRead(p, u, c, reset)
      BY <1>0, <3>5, <2>1, BeginReq DEF BoardMoveRead, MoveRead
    <3>6. QED BY <1>9, <3>1, <3>2, <3>3, <3>4, <3>5
  <2>4. UNCHANGED <<acc, granted>>
    BY <1>9 DEF UploadCheck, BoardSyncRead, SyncRead, LinkCheck, SubmitLookup,
                BoardMoveRead, MoveRead, ledgerVars
  <2>5. QED BY <1>0, <2>3, <2>4, GrantQuiet
<1>10. ASSUME NEW p \in Slots,
              LinkShare(p) \/ FinalizeAdvance(p) \/ BoardMoveWrite(p) \/ BoardSyncWrite(p)
              \/ AbortRequest(p)
      PROVE  GrantInv'
  <2>1. /\ Others(p)
        /\ req'[p].at \in {"idle", "move.reset"}
    BY <1>0, <1>10, StepNames, FinishReq, GotoReq
    DEF LinkShare, FinalizeAdvance, BoardMoveWrite, MoveWrite, BoardSyncWrite, SyncWrite,
        AbortRequest, Abort, BoardSteps
  <2>2. UNCHANGED <<acc, granted>>
    BY <1>10 DEF LinkShare, FinalizeAdvance, BoardMoveWrite, MoveWrite, BoardSyncWrite,
                 SyncWrite, AbortRequest, Abort, ledgerVars
  <2>3. QED BY <1>0, <2>1, <2>2, GrantQuiet
<1>11. ASSUME NEW t \in Tokens, Expire(t)
      PROVE  GrantInv'
  BY <1>11 DEF GrantInv, Expire, boardVars, SomeoneSigned
<1>12. CASE UNCHANGED vars
  BY <1>12 DEF GrantInv, vars, boardVars, SomeoneSigned
<1>13. QED
  BY <1>1, <1>2, <1>3, <1>4, <1>5, <1>6, <1>7, <1>8, <1>9, <1>10, <1>11, <1>12
  DEF Next, BoardNext, SignNext, RecordManualUpload, ClientSigningLink,
      HeadOfficeSigningLink, SubmitClientSignature, Tokens

-----------------------------------------------------------------------------
(* The refinement: every step of the handlers is a step of BoardLedger.     *)

LEMMA LedgerInit == Init => Ledger!Init
<1> SUFFICES ASSUME Init PROVE Ledger!Init
  OBVIOUS
<1>1. /\ column \in [Units -> Columns] /\ mover \in [Units -> Ledger!Movers]
      /\ granted \in [Units -> SUBSET Columns]
  BY DEF Init, Ledger!Movers, Columns
<1>2. "installation" \in Preceding("commissioning")
  BY DEF Preceding, Columns, Following
<1>3. \A u \in Units : Ledger!Backed(u)
  BY <1>2, SameColumns DEF Init, Ledger!Backed, Columns
<1>4. QED BY <1>1, <1>3, SameColumns DEF Ledger!Init, Ledger!AdvanceBacked

\* A signature recorded is a grant, or leaves the board alone.
LEMMA GrantingLedger ==
  ASSUME TypeOK, NEW u \in Units, Granting(u)
  PROVE  Ledger!Next
<1>1. "commissioning" \in Columns
  BY DEF Columns
<1>2. Ledger!Grant({u}, "commissioning")
  BY DEF Granting, Ledger!Grant, TypeOK
<1>3. QED BY <1>1, <1>2, SameColumns DEF Ledger!Next

LEMMA LedgerStep ==
  ASSUME TypeInv, GrantInv, [Next]_vars
  PROVE  [Ledger!Next]_(Ledger!ledgerVars)
<1> SUFFICES ASSUME ~ UNCHANGED ledgerVars
             PROVE  Ledger!Next
  BY DEF ledgerVars, Ledger!ledgerVars
<1>0. \A p \in Slots : req[p].unit \in Units /\ req[p].col \in Columns
  BY SlotTyped DEF TypeInv
<1>1. CASE \E p \in Slots, u \in Units : RecordBSPAcceptance(p, u)
  BY <1>1, GrantingLedger DEF RecordBSPAcceptance, SignBSP, TypeInv
<1>2. CASE \E p \in Slots : UploadStore(p)
  BY <1>0, <1>2, GrantingLedger DEF UploadStore, TypeInv
<1>3. CASE \E p \in Slots : SubmitSign(p)
  BY <1>0, <1>3, GrantingLedger DEF SubmitSign, TypeInv
<1>4. ASSUME NEW p \in Slots, FinalizeAdvance(p)
      PROVE  Ledger!Next
  <2>1. "commissioning" \in granted[req[p].unit]
    BY <1>4 DEF FinalizeAdvance, GrantInv
  <2>2. /\ AdvanceBoardColumn(req[p].unit, Following["commissioning"], "signoff")
        /\ granted' = granted
    BY <1>4 DEF FinalizeAdvance, Following
  <2>3. "commissioning" \in Columns
    BY DEF Columns
  <2>4. QED BY <1>0, <2>1, <2>2, <2>3, EnterLedger
<1>5. ASSUME NEW p \in Slots, BoardMoveWrite(p)
      PROVE  Ledger!Next
  <2>1. Ledger!AdminMove(req[p].unit, req[p].col)
    BY <1>5 DEF BoardMoveWrite, MoveWrite, AdvanceBoardColumn, Ledger!AdminMove
  <2>2. QED BY <1>0, <2>1, SameColumns DEF Ledger!Next
<1>6. ASSUME NEW p \in Slots, BoardSyncWrite(p)
      PROVE  Ledger!Next
  <2>1. /\ req[p].col \in granted[req[p].unit] /\ req[p].col # "completed"
        /\ AdvanceBoardColumn(req[p].unit, Following[req[p].col], "sync")
        /\ granted' = granted
    BY <1>6 DEF BoardSyncWrite, SyncWrite, GrantInv, TypeInv, HeldOK
  <2>2. QED BY <1>0, <2>1, EnterLedger
<1>7. CASE \E p \in Slots :
             \/ BoardMoveReset(p) \/ BoardSyncCheck(p) \/ LinkStore(p) \/ LinkShare(p)
             \/ FinalizeMark(p) \/ AbortRequest(p)
  BY <1>7 DEF BoardMoveReset, MoveReset, BoardSyncCheck, SyncCheck, LinkStore, LinkShare,
              FinalizeMark, AbortRequest, Abort
<1>8. CASE \E p \in Slots :
             \/ \E u \in Units : UploadCheck(p, u) \/ BoardSyncRead(p, u)
                                 \/ GetAcceptance(p, u)
             \/ \E u \in Units, t \in Tokens : LinkCheck(p, u, t) \/ SubmitLookup(p, u, t)
             \/ \E u \in Units, c \in MoveTargets, reset \in BOOLEAN :
                  BoardMoveRead(p, u, c, reset)
  BY <1>8 DEF UploadCheck, BoardSyncRead, SyncRead, GetAcceptance, LinkCheck,
              SubmitLookup, BoardMoveRead, MoveRead
<1>9. CASE \E t \in Tokens : Expire(t)
  BY <1>9 DEF Expire, boardVars, ledgerVars
<1>10. CASE UNCHANGED vars
  BY <1>10 DEF vars, boardVars, ledgerVars
<1>11. QED
  BY <1>1, <1>2, <1>3, <1>4, <1>5, <1>6, <1>7, <1>8, <1>9, <1>10
  DEF Next, BoardNext, SignNext, RecordManualUpload, ClientSigningLink,
      HeadOfficeSigningLink, SubmitClientSignature, Tokens

LEMMA Invariants == Spec => [](TypeInv /\ GrantInv)
<1>1. Init => TypeInv /\ GrantInv
  BY TypeInit, GrantInit
<1>2. TypeInv /\ GrantInv /\ [Next]_vars => (TypeInv /\ GrantInv)'
  BY TypeStep, GrantStep
<1>3. QED BY <1>1, <1>2, PTL DEF Spec

\* Whatever the requests interleave, repeat or leave unfinished, the handlers
\* do to the board only what BoardLedger allows.
THEOREM LedgerImplemented == Spec => ImplementsLedger
<1>1. Init => Ledger!Init
  BY LedgerInit
<1>2. TypeInv /\ GrantInv /\ [Next]_vars => [Ledger!Next]_(Ledger!ledgerVars)
  BY LedgerStep
<1>3. QED BY <1>1, <1>2, Invariants, PTL DEF Spec, ImplementsLedger, Ledger!Spec

\* A unit is in a column only because an administrator put it there or
\* because the sign-offs of the preceding column were recorded.
THEOREM AlwaysBacked == Spec => []AdvanceBacked
<1>1. Init => AdvanceBacked
  BY LedgerInit DEF AdvanceBacked, Ledger!Init
<1>2. /\ AdvanceBacked /\ (TypeInv /\ GrantInv) /\ [Next]_vars
      => AdvanceBacked'
  BY LedgerStep, BackedStep
  DEF AdvanceBacked, TypeInv, TypeOK, BoardOK, ledgerVars, Ledger!ledgerVars
<1>3. QED BY <1>1, <1>2, Invariants, PTL DEF Spec

-----------------------------------------------------------------------------
(* What the step of a request does: one of nine kinds.                      *)

\* Slot p, which serves unit u or nobody before and after, goes on to one of
\* the statements `to'; the other slots and the rows of other units stay.
Goes(p, u, to) ==
  /\ Others(p)
  /\ \A q \in Slots \ {p} : held'[q] = held[q]
  /\ \A v \in Units \ {u} :
       acc'[v] = acc[v] /\ column'[v] = column[v] /\ mover'[v] = mover[v]
  /\ req[p].at # "idle" => req[p].unit = u
  /\ req'[p].at \in to
  /\ req'[p].at # "idle" => req'[p].unit = u

\* A signature is written: by a handler that just began, or by one that looked
\* at the row, or up a link, a statement ago.
Signs(p, u) ==
  /\ Goes(p, u, {"idle", "finalize.mark"})
  /\ req[p].at \in {"idle", "upload.store", "submit.sign"}
  /\ UNCHANGED <<column, mover, minted, shared>>
  /\ owed' = owed \ {u}
  /\ acc'[u].here /\ SomeoneSigned(acc'[u])
  /\ acc'[u].link = acc[u].link /\ acc'[u].off = acc[u].off
  /\ \A s \in Signers : acc[u].signed[s] => acc'[u].signed[s]
  /\ req[p].at = "idle" => acc'[u].signed = acc[u].signed
  /\ IF req[p].at = "submit.sign"
     THEN /\ acc'[u].signed[SignerOf(held[p])]
          /\ used' = used \cup {held[p]} /\ reused' = reused \cup ({held[p]} \cap used)
     ELSE UNCHANGED <<used, reused>>

Stores(p, u) ==
  /\ Goes(p, u, {"link.share"}) /\ req[p].at = "link.store"
  /\ UNCHANGED <<column, mover, held, minted, shared, historyVars>>
  /\ acc'[u].bsp = acc[u].bsp /\ acc'[u].off = acc[u].off
  /\ acc[u].here => acc'[u].here
  /\ \A s \in Signers :
       \/ acc'[u].link[s] = acc[u].link[s] /\ acc'[u].signed[s] = acc[u].signed[s]
       \/ s = SignerOf(held[p]) /\ acc'[u].link[s] = held[p] /\ ~acc'[u].signed[s]

Marks(p, u) ==
  /\ Goes(p, u, {"finalize.advance"}) /\ req[p].at = "finalize.mark"
  /\ UNCHANGED <<column, mover, minted, shared, historyVars>>
  /\ acc'[u].here = acc[u].here /\ acc'[u].bsp = acc[u].bsp
  /\ acc'[u].signed = acc[u].signed /\ acc'[u].link = acc[u].link

\* The unit enters column c, for good: a sign-off, a sync or a move forward.
Enters(p, u, c) ==
  /\ Goes(p, u, {"idle"})
  /\ column'[u] = c
  /\ UNCHANGED <<acc, minted, shared, historyVars>>
  /\ \/ req[p].at = "move.write" /\ mover'[u] = "admin"
     \/ req[p].at = "finalize.advance" /\ c = "completed"
     \/ /\ req[p].at = "sync.write" /\ req[p].col # "completed"
        /\ c = Following[req[p].col]

\* The two statements of a backward move.
Backs(p, u) ==
  /\ Goes(p, u, {"move.reset"}) /\ req[p].at = "move.write" /\ req[p].back
  /\ mover'[u] = "admin"
  /\ owed' = owed \cup {u}
  /\ UNCHANGED <<acc, minted, shared, used, reused>>

Clears(p, u) ==
  /\ Goes(p, u, {"idle"}) /\ req[p].at = "move.reset"
  /\ acc'[u] = NoRow
  /\ UNCHANGED <<column, mover, minted, shared, historyVars>>

Draws(p, u) ==
  /\ Goes(p, u, {"link.store"}) /\ req[p].at = "idle"
  /\ held'[p] \in Tokens \ minted /\ minted' = minted \cup {held'[p]}
  /\ ~acc[u].signed[SignerOf(held'[p])]
  /\ UNCHANGED <<column, mover, acc, shared, historyVars>>

Shares(p, u) ==
  /\ Goes(p, u, {"idle"}) /\ req[p].at = "link.share"
  /\ shared' = shared \cup {held[p]}
  /\ UNCHANGED <<column, mover, acc, minted, historyVars>>

\* The tables stay: the request reads them, or is cut short.
Reads(p, u) ==
  /\ Goes(p, u, {"idle", "upload.store", "submit.sign", "finalize.mark",
                 "move.write", "sync.check", "sync.write"})
  /\ UNCHANGED <<column, mover, acc, minted, shared, used, reused>>
  /\ owed' = IF req[p].at = "move.reset" THEN owed \ {u} ELSE owed
  /\ req'[p].at = "finalize.mark" => SomeoneSigned(acc[u])
  /\ req'[p].at = "submit.sign" =>
       /\ held'[p] \in shared /\ acc[u].link[SignerOf(held'[p])] = held'[p]
       /\ ~acc[u].signed[SignerOf(held'[p])]
  /\ req'[p].at = "sync.check" => req'[p].col = column[u]
  /\ req'[p].at = "sync.write" =>
       /\ req[p].at = "sync.check" /\ req'[p].col = req[p].col
       /\ req[p].col = "commissioning" => SomeoneSigned(acc[u])

Does(p, u) ==
  \/ Signs(p, u) \/ Stores(p, u) \/ Marks(p, u) \/ \E c \in Columns : Enters(p, u, c)
  \/ Backs(p, u) \/ Clears(p, u) \/ Draws(p, u) \/ Shares(p, u) \/ Reads(p, u)

LEMMA SignsRow ==
  ASSUME TypeInv, NEW p \in Slots, NEW u \in Units, UploadStore(p), u = req[p].unit
  PROVE  Signs(p, u)
<1>0. /\ TypeOK /\ ReqOK(Steps) /\ acc[u] \in Rows
      /\ "branch_manager" \in Signers
  BY SlotTyped DEF TypeInv, Signers
<1>1. /\ req[p].at = "upload.store" /\ Granting(u) /\ Finalize(p, acc[u].off)
      /\ UNCHANGED <<held, tokenVars, used, reused>>
  BY DEF UploadStore
<1>2. /\ Others(p) /\ req'[p].at \in {"idle", "finalize.mark"}
      /\ req'[p].at = "finalize.mark" => req'[p].unit = u
  BY <1>0, <1>1, StepNames, FinishReq, GotoReq DEF Finalize, AcceptanceSteps
<1>3. acc'[u] = [acc[u] EXCEPT !.here = TRUE, !.signed["branch_manager"] = TRUE]
      /\ \A v \in Units \ {u} : acc'[v] = acc[v]
  BY <1>0 DEF TypeOK, UploadStore
<1>4. /\ acc'[u].here /\ acc'[u].link = acc[u].link /\ acc'[u].off = acc[u].off
      /\ SomeoneSigned(acc'[u])
      /\ \A s \in Signers : acc[u].signed[s] => acc'[u].signed[s]
  BY <1>0, <1>3 DEF Rows, SomeoneSigned
<1>5. Goes(p, u, {"idle", "finalize.mark"})
  BY <1>1, <1>2, <1>3 DEF Goes, Granting
<1>6. QED BY <1>1, <1>4, <1>5 DEF Signs, Granting, tokenVars

LEMMA SignsLink ==
  ASSUME TypeInv, NEW p \in Slots, NEW u \in Units, SubmitSign(p), u = req[p].unit,
         acc[u].here
  PROVE  Signs(p, u)
<1>0. /\ TypeOK /\ ReqOK(Steps) /\ acc[u] \in Rows
  BY SlotTyped DEF TypeInv
<1>. PICK s \in Signers : s = SignerOf(held[p])
  BY SlotTyped DEF TypeInv
<1>1. /\ req[p].at = "submit.sign" /\ Granting(u) /\ Finalize(p, acc[u].off)
      /\ acc' = [acc EXCEPT ![u].signed[s] = TRUE]
      /\ used' = used \cup {held[p]} /\ reused' = reused \cup ({held[p]} \cap used)
      /\ held' = [held EXCEPT ![p] = NoToken] /\ UNCHANGED tokenVars
  BY DEF SubmitSign
<1>2. /\ Others(p) /\ req'[p].at \in {"idle", "finalize.mark"}
      /\ req'[p].at = "finalize.mark" => req'[p].unit = u
  BY <1>0, <1>1, StepNames, FinishReq, GotoReq DEF Finalize, AcceptanceSteps
<1>3. acc'[u] = [acc[u] EXCEPT !.signed[s] = TRUE]
      /\ \A v \in Units \ {u} : acc'[v] = acc[v]
  BY <1>0, <1>1 DEF TypeOK
<1>4. /\ acc'[u].here /\ acc'[u].link = acc[u].link /\ acc'[u].off = acc[u].off
      /\ SomeoneSigned(acc'[u]) /\ acc'[u].signed[s]
      /\ \A z \in Signers : acc[u].signed[z] => acc'[u].signed[z]
  BY <1>0, <1>3 DEF Rows, SomeoneSigned
<1>5. Goes(p, u, {"idle", "finalize.mark"})
  BY <1>0, <1>1, <1>2, <1>3 DEF Goes, Granting, TypeOK
<1>6. QED BY <1>1, <1>4, <1>5 DEF Signs, Granting, tokenVars

LEMMA SignsBSP ==
  ASSUME TypeInv, NEW p \in Slots, NEW u \in Units, RecordBSPAcceptance(p, u)
  PROVE  Signs(p, u)
<1>0. /\ TypeOK /\ ReqOK(Steps) /\ acc[u] \in Rows
  BY SlotTyped DEF TypeInv, TypeOK
<1>1. /\ acc' = [acc EXCEPT ![u].here = TRUE, ![u].bsp = TRUE] /\ Granting(u)
      /\ UNCHANGED <<held, tokenVars, used, reused>>
  BY DEF RecordBSPAcceptance, SignBSP
<1>2. /\ req[p].at = "idle" /\ Others(p) /\ req'[p].at \in {"idle", "finalize.mark"}
      /\ req'[p].at = "finalize.mark" => req'[p].unit = u
  <2>1. CASE acc[u].off
    BY <2>1 DEF RecordBSPAcceptance
  <2>2. CASE ~acc[u].off
    <3>1. Begin(p, Serving(u, "finalize.mark"))
      BY <2>2 DEF RecordBSPAcceptance
    <3>2. req[p].at = "idle"
      BY <3>1 DEF Begin
    <3>3. QED BY <1>0, <3>1, <3>2, StepNames, ServeReq DEF AcceptanceSteps
  <2>3. QED BY <2>1, <2>2
<1>3. acc'[u] = [acc[u] EXCEPT !.here = TRUE, !.bsp = TRUE]
      /\ \A v \in Units \ {u} : acc'[v] = acc[v]
  BY <1>0, <1>1 DEF TypeOK
<1>4. /\ acc'[u].here /\ SomeoneSigned(acc'[u]) /\ acc'[u].off = acc[u].off
      /\ acc'[u].link = acc[u].link /\ acc'[u].signed = acc[u].signed
  BY <1>0, <1>3 DEF Rows, SomeoneSigned
<1>5. Goes(p, u, {"idle", "finalize.mark"})
  BY <1>1, <1>2, <1>3 DEF Goes, Granting
<1>6. QED BY <1>1, <1>2, <1>4, <1>5 DEF Signs, Granting, tokenVars

LEMMA StoresLink ==
  ASSUME TypeInv, NEW p \in Slots, NEW u \in Units, LinkStore(p), u = req[p].unit
  PROVE  Stores(p, u)
<1>0. /\ TypeOK /\ ReqOK(Steps) /\ acc[u] \in Rows
  BY SlotTyped DEF TypeInv
<1>. PICK s \in Signers : s = SignerOf(held[p])
  BY SlotTyped DEF TypeInv
<1>1. /\ req[p].at = "link.store" /\ Goto(p, "link.share") /\ held[p] \in Tokens
      /\ UNCHANGED <<ledgerVars, held, tokenVars, historyVars>>
  BY DEF LinkStore, TypeInv, HeldOK, TypeOK
<1>2. Others(p) /\ req'[p].at = "link.share" /\ req'[p].unit = u
  BY <1>0, <1>1, StepNames, GotoReq DEF AcceptanceSteps
<1>3. CASE acc' = acc
  <2>1. Goes(p, u, {"link.share"})
    BY <1>1, <1>2, <1>3 DEF Goes, ledgerVars
  <2>2. QED BY <1>1, <1>3, <2>1 DEF Stores, ledgerVars, tokenVars
<1>4. CASE acc' = Linked(u, s, held[p])
  <2>1. acc'[u] = [acc[u] EXCEPT !.here = TRUE, !.link[s] = held[p], !.signed[s] = FALSE]
        /\ \A v \in Units \ {u} : acc'[v] = acc[v]
    BY <1>0, <1>4 DEF TypeOK, Linked
  <2>2. /\ acc'[u].here /\ acc'[u].bsp = acc[u].bsp /\ acc'[u].off = acc[u].off
        /\ acc'[u].link = [acc[u].link EXCEPT ![s] = held[p]]
        /\ acc'[u].signed = [acc[u].signed EXCEPT ![s] = FALSE]
    BY <1>0, <2>1 DEF Rows
  <2>3. /\ acc[u].link \in [Signers -> Tokens \cup {NoToken}]
        /\ acc[u].signed \in [Signers -> BOOLEAN]
    BY <1>0 DEF Rows
  <2>4. \A z \in Signers :
          \/ acc'[u].link[z] = acc[u].link[z] /\ acc'[u].signed[z] = acc[u].signed[z]
          \/ z = s /\ acc'[u].link[z] = held[p] /\ ~acc'[u].signed[z]
    BY <2>2, <2>3
  <2>5. Goes(p, u, {"link.share"})
    BY <1>1, <1>2, <2>1 DEF Goes, ledgerVars
  <2>6. QED BY <1>1, <2>2, <2>4, <2>5 DEF Stores, ledgerVars, tokenVars
<1>5. QED BY <1>1, <1>3, <1>4, LinkStored

LEMMA MarksRow ==
  ASSUME TypeInv, NEW p \in Slots, NEW u \in Units, FinalizeMark(p), u = req[p].unit
  PROVE  Marks(p, u)
<1>0. TypeOK /\ ReqOK(Steps) /\ acc[u] \in Rows
  BY SlotTyped DEF TypeInv
<1>1. /\ acc' = [acc EXCEPT ![u].off = acc[u].here] /\ req[p].at = "finalize.mark"
      /\ Goto(p, "finalize.advance")
      /\ UNCHANGED <<ledgerVars, held, tokenVars, historyVars>>
  BY DEF FinalizeMark
<1>2. Others(p) /\ req'[p].at = "finalize.advance" /\ req'[p].unit = u
  BY <1>0, <1>1, StepNames, GotoReq DEF AcceptanceSteps
<1>3. acc'[u] = [acc[u] EXCEPT !.off = acc[u].here]
      /\ \A v \in Units \ {u} : acc'[v] = acc[v]
  BY <1>0, <1>1 DEF TypeOK
<1>4. /\ acc'[u].here = acc[u].here /\ acc'[u].bsp = acc[u].bsp
      /\ acc'[u].link = acc[u].link /\ acc'[u].signed = acc[u].signed
  BY <1>0, <1>3 DEF Rows
<1>5. Goes(p, u, {"finalize.advance"})
  BY <1>1, <1>2, <1>3 DEF Goes, ledgerVars
<1>6. QED BY <1>1, <1>4, <1>5 DEF Marks, ledgerVars, tokenVars

\* An advance of the unit's column that ends the request.
LEMMA EntersColumn ==
  ASSUME TypeInv, NEW p \in Slots, NEW u \in Units, u = req[p].unit,
         NEW c \in Columns, NEW who, AdvanceBoardColumn(u, c, who), Finish(p),
         UNCHANGED <<acc, held, tokenVars, historyVars>>,
         \/ req[p].at = "move.write" /\ who = "admin"
         \/ req[p].at = "finalize.advance" /\ c = "completed"
         \/ /\ req[p].at = "sync.write" /\ req[p].col # "completed"
            /\ c = Following[req[p].col]
  PROVE  \E d \in Columns : Enters(p, u, d)
<1>0. TypeOK /\ ReqOK(Steps)
  BY SlotTyped DEF TypeInv
<1>1. Others(p) /\ req'[p].at = "idle"
  BY <1>0, StepNames, FinishReq
<1>2. /\ column'[u] = c /\ mover'[u] = who
      /\ \A v \in Units \ {u} : column'[v] = column[v] /\ mover'[v] = mover[v]
  BY <1>0 DEF AdvanceBoardColumn, TypeOK
<1>3. Goes(p, u, {"idle"})
  BY <1>1, <1>2 DEF Goes
<1>4. Enters(p, u, c)
  BY <1>2, <1>3 DEF Enters, tokenVars
<1>5. QED BY <1>4

LEMMA BoardDoes ==
  ASSUME TypeInv, NEW p \in Slots, NEW u \in Units, u = req[p].unit,
         \/ BoardMoveWrite(p) \/ BoardMoveReset(p) \/ BoardSyncCheck(p)
         \/ BoardSyncWrite(p) \/ FinalizeAdvance(p)
  PROVE  Does(p, u)
<1>0. /\ TypeOK /\ ReqOK(Steps) /\ acc[u] \in Rows /\ req[p].col \in Columns
  BY SlotTyped DEF TypeInv
<1>1. CASE BoardMoveWrite(p)
  <2>1. /\ req[p].at = "move.write" /\ AdvanceBoardColumn(u, req[p].col, "admin")
        /\ IF req[p].back THEN Goto(p, "move.reset") ELSE Finish(p)
        /\ owed' = IF req[p].back THEN owed \cup {u} ELSE owed
        /\ UNCHANGED <<acc, held, tokenVars, used, reused>>
    BY <1>1 DEF BoardMoveWrite, MoveWrite
  <2>2. CASE ~req[p].back
    <3>1. \E d \in Columns : Enters(p, u, d)
      BY <1>0, <2>1, <2>2, EntersColumn DEF historyVars
    <3>2. QED BY <3>1 DEF Does
  <2>3. CASE req[p].back
    <3>1. Others(p) /\ req'[p].at = "move.reset" /\ req'[p].unit = u
      BY <1>0, <2>1, <2>3, StepNames, GotoReq DEF BoardSteps
    <3>2. /\ mover'[u] = "admin"
          /\ \A v \in Units \ {u} : column'[v] = column[v] /\ mover'[v] = mover[v]
      BY <1>0, <2>1 DEF AdvanceBoardColumn, TypeOK
    <3>3. Goes(p, u, {"move.reset"})
      BY <2>1, <3>1, <3>2 DEF Goes
    <3>4. Backs(p, u)
      BY <2>1, <2>3, <3>2, <3>3 DEF Backs, tokenVars
    <3>5. QED BY <3>4 DEF Does
  <2>4. QED BY <2>2, <2>3
<1>2. CASE BoardMoveReset(p)
  <2>1. /\ req[p].at = "move.reset" /\ Finish(p) /\ acc' = [acc EXCEPT ![u] = NoRow]
        /\ UNCHANGED <<ledgerVars, held, tokenVars, historyVars>>
    BY <1>2 DEF BoardMoveReset, MoveReset
  <2>2. Others(p) /\ req'[p].at = "idle"
    BY <1>0, <2>1, StepNames, FinishReq
  <2>3. acc'[u] = NoRow /\ \A v \in Units \ {u} : acc'[v] = acc[v]
    BY <1>0, <2>1 DEF TypeOK
  <2>4. Goes(p, u, {"idle"})
    BY <2>1, <2>2, <2>3 DEF Goes, ledgerVars
  <2>5. Clears(p, u)
    BY <2>1, <2>3, <2>4 DEF Clears, ledgerVars, tokenVars
  <2>6. QED BY <2>5 DEF Does
<1>3. CASE BoardSyncCheck(p)
  <2>1. PICK ready \in BOOLEAN : MayAnswer(u, req[p].col, ready) /\ SyncCheck(p, ready)
    BY <1>3 DEF BoardSyncCheck
  <2>2. /\ Others(p) /\ req'[p].at \in {"idle", "sync.write"}
        /\ req'[p].at = "sync.write" =>
             ready /\ req'[p].unit = u /\ req'[p].col = req[p].col
    BY <1>0, <2>1, StepNames, FinishReq, GotoReq DEF SyncCheck, BoardSteps
  <2>3. /\ req[p].at = "sync.check"
        /\ UNCHANGED <<column, mover, acc, held, tokenVars, historyVars>>
    BY <1>3, <2>1 DEF BoardSyncCheck, SyncCheck, ledgerVars
  <2>4. ready /\ req[p].col = "commissioning" => SomeoneSigned(acc[u])
    BY <2>1 DEF MayAnswer
  <2>5. Goes(p, u, {"idle", "sync.write"})
    BY <2>2, <2>3 DEF Goes
  <2>6. Reads(p, u)
    BY <2>2, <2>3, <2>4, <2>5 DEF Reads, Goes, tokenVars, historyVars
  <2>7. QED BY <2>6 DEF Does
<1>4. CASE BoardSyncWrite(p)
  <2>1. /\ req[p].at = "sync.write" /\ AdvanceBoardColumn(u, Following[req[p].col], "sync")
        /\ Finish(p) /\ UNCHANGED <<acc, held, tokenVars, historyVars>>
    BY <1>4 DEF BoardSyncWrite, SyncWrite
  <2>2. req[p].col # "completed" /\ Following[req[p].col] \in Columns
    BY <1>0, <2>1, FollowingPreceded DEF TypeInv, HeldOK
  <2>3. \E d \in Columns : Enters(p, u, d)
    BY <2>1, <2>2, EntersColumn
  <2>4. QED BY <2>3 DEF Does
<1>5. CASE FinalizeAdvance(p)
  <2>1. /\ req[p].at = "finalize.advance" /\ AdvanceBoardColumn(u, "completed", "signoff")
        /\ Finish(p) /\ UNCHANGED <<acc, held, tokenVars, historyVars>>
    BY <1>5 DEF FinalizeAdvance
  <2>2. "completed" \in Columns
    BY DEF Columns
  <2>3. \E d \in Columns : Enters(p, u, d)
    BY <2>1, <2>2, EntersColumn
  <2>4. QED BY <2>3 DEF Does
<1>6. QED BY <1>1, <1>2, <1>3, <1>4, <1>5

LEMMA EndsDo ==
  ASSUME TypeInv, NEW p \in Slots, NEW u \in Units, u = req[p].unit,
         \/ AbortRequest(p) \/ LinkShare(p) \/ (SubmitSign(p) /\ ~acc[u].here)
  PROVE  Does(p, u)
<1>0. TypeOK /\ ReqOK(Steps)
  BY SlotTyped DEF TypeInv
<1>1. /\ Finish(p) /\ held' = [held EXCEPT ![p] = NoToken]
      /\ UNCHANGED <<column, mover, acc>>
  BY DEF AbortRequest, Abort, LinkShare, SubmitSign, ledgerVars
<1>2. Others(p) /\ req'[p].at = "idle"
  BY <1>0, <1>1, StepNames, FinishReq
<1>3. Goes(p, u, {"idle"})
  BY <1>0, <1>1, <1>2 DEF Goes, TypeOK
<1>4. CASE LinkShare(p)
  BY <1>1, <1>3, <1>4 DEF Does, Shares, LinkShare
<1>5. CASE AbortRequest(p) \/ (SubmitSign(p) /\ ~acc[u].here)
  <2>1. /\ UNCHANGED <<minted, shared, used, reused>>
        /\ owed' = IF req[p].at = "move.reset" THEN owed \ {u} ELSE owed
    BY <1>5 DEF AbortRequest, SubmitSign, tokenVars, historyVars
  <2>2. Reads(p, u)
    BY <1>1, <1>2, <1>3, <2>1 DEF Reads, Goes
  <2>3. QED BY <2>2 DEF Does
<1>6. QED BY <1>4, <1>5

\* The steps that begin a request.
LEMMA BeginsDo ==
  ASSUME TypeInv, NEW p \in Slots, NEW u \in Units,
         \/ UploadCheck(p, u) \/ BoardSyncRead(p, u) \/ GetAcceptance(p, u)
         \/ \E t \in Tokens : LinkCheck(p, u, t) \/ SubmitLookup(p, u, t)
         \/ \E c \in MoveTargets, reset \in BOOLEAN : BoardMoveRead(p, u, c, reset)
  PROVE  Does(p, u)
<1>0. TypeOK /\ ReqOK(Steps) /\ column[u] \in Columns
  BY SlotTyped DEF TypeInv, TypeOK
<1>1. CASE UploadCheck(p, u) \/ GetAcceptance(p, u)
  <2>1. PICK step \in {"upload.store", "finalize.mark"} : Begin(p, Serving(u, step))
    BY <1>1 DEF UploadCheck, GetAcceptance
  <2>2. /\ req[p].at = "idle" /\ req'[p].at = step /\ req'[p].unit = u /\ Others(p)
    <3>1. req[p].at = "idle"
      BY <2>1 DEF Begin
    <3>2. QED BY <1>0, <2>1, <3>1, StepNames, ServeReq DEF AcceptanceSteps
  <2>3. UNCHANGED <<column, mover, acc, held, tokenVars, historyVars>>
    BY <1>1 DEF UploadCheck, GetAcceptance, ledgerVars
  <2>4. req'[p].at = "finalize.mark" => SomeoneSigned(acc[u])
    <3>1. CASE UploadCheck(p, u)
      <4>1. Begin(p, Serving(u, "upload.store"))
        BY <3>1 DEF UploadCheck
      <4>2. req'[p].at = "upload.store"
        BY <1>0, <4>1, StepNames, ServeReq DEF AcceptanceSteps
      <4>3. QED BY <4>2
    <3>2. CASE GetAcceptance(p, u)
      BY <3>2 DEF GetAcceptance, Overdue
    <3>3. QED BY <1>1, <3>1, <3>2
  <2>5. Goes(p, u, {"upload.store", "finalize.mark"})
    BY <2>2, <2>3 DEF Goes
  <2>6. Reads(p, u)
    BY <2>2, <2>3, <2>4, <2>5 DEF Reads, Goes, tokenVars, historyVars
  <2>7. QED BY <2>6 DEF Does
<1>2. CASE BoardSyncRead(p, u)
  <2> DEFINE r == [Serving(u, "sync.check") EXCEPT !.col = column[u]]
  <2>1. r \in Requests(Steps) /\ r.at = "sync.check" /\ r.col = column[u]
    BY <1>0, StepNames, SyncRequest DEF BoardSteps
  <2>2. r.unit = u
    BY DEF Serving, NoRequest
  <2>3. /\ Begin(p, r) /\ req[p].at = "idle"
        /\ UNCHANGED <<column, mover, acc, held, tokenVars, historyVars>>
    BY <1>2 DEF BoardSyncRead, SyncRead, Begin, ledgerVars
  <2> HIDE DEF r
  <2>4. Others(p) /\ req'[p] = r
    BY <1>0, <2>1, <2>3, BeginReq
  <2>5. Goes(p, u, {"sync.check"})
    BY <2>1, <2>2, <2>3, <2>4 DEF Goes
  <2>6. Reads(p, u)
    BY <2>1, <2>3, <2>4, <2>5 DEF Reads, Goes, tokenVars, historyVars
  <2>7. QED BY <2>6 DEF Does
<1>3. ASSUME NEW c \in MoveTargets, NEW reset \in BOOLEAN, BoardMoveRead(p, u, c, reset)
      PROVE  Does(p, u)
  <2> DEFINE r == [at |-> "move.write", unit |-> u, col |-> c, back |-> IsBackward(u, c)]
  <2>1. r \in Requests(Steps) /\ r.at = "move.write" /\ r.unit = u
    BY StepNames, MoveRequest DEF BoardSteps
  <2>2. /\ Begin(p, r) /\ req[p].at = "idle"
        /\ UNCHANGED <<column, mover, acc, held, tokenVars, historyVars>>
    BY <1>3 DEF BoardMoveRead, MoveRead, Begin, ledgerVars
  <2> HIDE DEF r
  <2>3. Others(p) /\ req'[p] = r
    BY <1>0, <2>1, <2>2, BeginReq
  <2>4. Goes(p, u, {"move.write"})
    BY <2>1, <2>2, <2>3 DEF Goes
  <2>5. Reads(p, u)
    BY <2>1, <2>2, <2>3, <2>4 DEF Reads, Goes, tokenVars, historyVars
  <2>6. QED BY <2>5 DEF Does
<1>4. ASSUME NEW t \in Tokens, LinkCheck(p, u, t) \/ SubmitLookup(p, u, t)
      PROVE  Does(p, u)
  <2>1. PICK step \in {"link.store", "submit.sign"} : Begin(p, Serving(u, step))
    BY <1>4 DEF LinkCheck, SubmitLookup
  <2>2. /\ req[p].at = "idle" /\ req'[p].at = step /\ req'[p].unit = u /\ Others(p)
    <3>1. req[p].at = "idle"
      BY <2>1 DEF Begin
    <3>2. QED BY <1>0, <2>1, <3>1, StepNames, ServeReq DEF AcceptanceSteps
  <2>3. /\ held'[p] = t /\ \A q \in Slots \ {p} : held'[q] = held[q]
        /\ ~acc[u].signed[SignerOf(t)]
        /\ UNCHANGED <<column, mover, acc, shared, historyVars>>
    BY <1>0, <1>4 DEF LinkCheck, SubmitLookup, TypeOK, ledgerVars, tokenVars
  <2>4. Goes(p, u, {step})
    BY <2>2, <2>3 DEF Goes
  <2>5. CASE LinkCheck(p, u, t)
    <3>1. req'[p].at = "link.store"
      BY <1>0, <2>5, StepNames, ServeReq DEF LinkCheck, AcceptanceSteps
    <3>2. Draws(p, u)
      BY <2>2, <2>3, <2>4, <2>5, <3>1 DEF Draws, LinkCheck
    <3>3. QED BY <3>2 DEF Does
  <2>6. CASE SubmitLookup(p, u, t)
    <3>1. req'[p].at = "submit.sign"
      BY <1>0, <2>6, StepNames, ServeReq DEF SubmitLookup, AcceptanceSteps
    <3>2. Reads(p, u)
      BY <2>2, <2>3, <2>4, <2>6, <3>1
      DEF Reads, Goes, SubmitLookup, tokenVars, historyVars
    <3>3. QED BY <3>2 DEF Does
  <2>7. QED BY <1>4, <2>5, <2>6
<1>5. QED BY <1>1, <1>2, <1>3, <1>4

\* Every step of a request is of one of the kinds; what is left is a link that
\* expires.
LEMMA StepDoes ==
  ASSUME TypeInv, [Next]_vars
  PROVE  \/ \E p \in Slots, u \in Units : Does(p, u)
         \/ UNCHANGED <<boardVars, acc, held, minted, shared, historyVars>>
<1>1. ASSUME NEW p \in Slots, BoardNext(p) \/ SignNext(p) \/ AbortRequest(p)
      PROVE  \E u \in Units : Does(p, u)
  <2>1. PICK u \in Units : u = req[p].unit
    BY SlotTyped DEF TypeInv
  <2>2. CASE \E v \in Units : RecordBSPAcceptance(p, v)
    BY <2>2, SignsBSP DEF Does
  <2>3. CASE UploadStore(p)
    BY <2>1, <2>3, SignsRow DEF Does
  <2>4. CASE SubmitSign(p) /\ acc[u].here
    BY <2>1, <2>4, SignsLink DEF Does
  <2>5. CASE LinkStore(p) \/ FinalizeMark(p)
    BY <2>1, <2>5, StoresLink, MarksRow DEF Does
  <2>6. CASE \/ BoardMoveWrite(p) \/ BoardMoveReset(p) \/ BoardSyncCheck(p)
             \/ BoardSyncWrite(p) \/ FinalizeAdvance(p)
    BY <2>1, <2>6, BoardDoes
  <2>7. CASE AbortRequest(p) \/ LinkShare(p) \/ (SubmitSign(p) /\ ~acc[u].here)
    BY <2>1, <2>7, EndsDo
  <2>8. CASE \E v \in Units :
               \/ UploadCheck(p, v) \/ BoardSyncRead(p, v) \/ GetAcceptance(p, v)
               \/ \E t \in Tokens : LinkCheck(p, v, t) \/ SubmitLookup(p, v, t)
               \/ \E c \in MoveTargets, reset \in BOOLEAN : BoardMoveRead(p, v, c, reset)
    BY <2>8, BeginsDo
  <2>9. QED
    BY <1>1, <2>2, <2>3, <2>4, <2>5, <2>6, <2>7, <2>8
    DEF BoardNext, SignNext, RecordManualUpload, ClientSigningLink,
        HeadOfficeSigningLink, SubmitClientSignature, Tokens
<1>2. CASE (\E t \in Tokens : Expire(t)) \/ UNCHANGED vars
  BY <1>2 DEF Expire, vars, boardVars, tokenVars, historyVars
<1>3. QED BY <1>1, <1>2 DEF Next

-----------------------------------------------------------------------------
(* What a step does to what is under way for a unit.                        *)

\* A step about another unit changes nothing of this one.
LEMMA ElsewhereKept ==
  ASSUME NEW p \in Slots, NEW u \in Units, Does(p, u), NEW v \in Units \ {u}
  PROVE  /\ acc'[v] = acc[v] /\ (v \in owed' <=> v \in owed)
         /\ ByServer(v)' <=> ByServer(v)
         /\ BeingClosed(v)' <=> BeingClosed(v)
         /\ BeingReset(v)' <=> BeingReset(v)
         /\ \A s \in Signers : LinkPending(v, s)' <=> LinkPending(v, s)
<1>1. /\ Others(p) /\ \A q \in Slots \ {p} : held'[q] = held[q]
      /\ acc'[v] = acc[v] /\ column'[v] = column[v] /\ mover'[v] = mover[v]
      /\ req[p].at # "idle" => req[p].unit = u
      /\ req'[p].at # "idle" => req'[p].unit = u
      /\ v \in owed' <=> v \in owed
  BY DEF Does, Signs, Stores, Marks, Enters, Backs, Clears, Draws, Shares, Reads, Goes,
         historyVars
<1>2. BeingClosed(v)' <=> BeingClosed(v)
  BY <1>1 DEF BeingClosed, Closing
<1>3. BeingReset(v)' <=> BeingReset(v)
  BY <1>1 DEF BeingReset
<1>4. \A s \in Signers : LinkPending(v, s)' <=> LinkPending(v, s)
  BY <1>1 DEF LinkPending
<1>5. QED BY <1>1, <1>2, <1>3, <1>4 DEF ByServer

\* Only a sync from Commissioning enters Completed.
LEMMA EntersCompleted ==
  ASSUME TypeInv, NEW p \in Slots, NEW u \in Units, Enters(p, u, "completed")
  PROVE  (req[p].at = "move.write" /\ mover'[u] = "admin") \/ Closing(p)
<1>1. req[p].col \in Columns
  BY SlotTyped DEF TypeInv
<1>2. req[p].col # "completed" /\ Following[req[p].col] = "completed"
        => req[p].col = "commissioning"
  BY <1>1 DEF Following, Columns
<1>3. QED BY <1>2 DEF Enters, Closing

\* A record is signed off, and a unit completed by the server, by a request that
\* has set out to; a request sets out to on a signature that is there.
LEMMA ClosesOnSignature ==
  ASSUME TypeInv, NEW p \in Slots, NEW u \in Units, Does(p, u)
  PROVE  /\ acc'[u].off => acc[u].off \/ BeingClosed(u)
         /\ ByServer(u)' => ByServer(u) \/ BeingClosed(u)
         /\ BeingClosed(u)' => BeingClosed(u) \/ SomeoneSigned(acc'[u])
<1>1. Closing(p) => BeingClosed(u)
  BY DEF BeingClosed, Closing, Does, Signs, Stores, Marks, Enters, Backs, Clears, Draws,
         Shares, Reads, Goes
<1>2. acc'[u].off => acc[u].off \/ BeingClosed(u)
  <2>1. CASE Marks(p, u)
    BY <1>1, <2>1 DEF Marks, Closing
  <2>2. CASE Clears(p, u)
    BY <2>2 DEF Clears, NoRow
  <2>3. CASE Signs(p, u) \/ Stores(p, u) \/ UNCHANGED acc
    BY <2>3 DEF Signs, Stores
  <2>4. QED BY <2>1, <2>2, <2>3 DEF Does, Enters, Backs, Draws, Shares, Reads
<1>3. ByServer(u)' => ByServer(u) \/ BeingClosed(u)
  <2>1. CASE UNCHANGED <<column, mover>>
    BY <2>1 DEF ByServer
  <2>2. ASSUME NEW c \in Columns, Enters(p, u, c), ByServer(u)'
        PROVE  BeingClosed(u)
    <3>1. Enters(p, u, "completed")
      BY <2>2 DEF ByServer, Enters
    <3>2. QED BY <1>1, <2>2, <3>1, EntersCompleted DEF ByServer
  <2>3. CASE Backs(p, u)
    BY <2>3 DEF Backs, ByServer
  <2>4. QED
    BY <2>1, <2>2, <2>3 DEF Does, Signs, Stores, Marks, Clears, Draws, Shares, Reads
<1>4. ASSUME BeingClosed(u)' PROVE BeingClosed(u) \/ SomeoneSigned(acc'[u])
  <2>1. PICK q \in Slots : Closing(q)' /\ req'[q].unit = u
    BY <1>4 DEF BeingClosed
  <2>2. CASE q # p
    <3>1. req'[q] = req[q]
      BY <2>2 DEF Does, Signs, Stores, Marks, Enters, Backs, Clears, Draws, Shares, Reads,
                  Goes
    <3>2. QED BY <2>1, <3>1 DEF BeingClosed, Closing
  <2>3. CASE q = p
    <3>1. CASE Signs(p, u)
      BY <3>1 DEF Signs
    <3>2. CASE Marks(p, u)
      BY <1>1, <3>2 DEF Marks, Closing
    <3>3. CASE Reads(p, u)
      BY <2>1, <2>3, <3>3 DEF Reads, Goes, Closing
    <3>4. QED
      BY <2>1, <2>3, <3>1, <3>2, <3>3
      DEF Does, Stores, Enters, Backs, Clears, Draws, Shares, Goes, Closing
  <2>4. QED BY <2>2, <2>3
<1>5. QED BY <1>2, <1>3, <1>4

\* A signature that no link is about to erase survives the step, or goes with
\* its record.
LEMMA FirmStays ==
  ASSUME NEW p \in Slots, NEW u \in Units, Does(p, u), FirmlySigned(u)
  PROVE  SomeoneSigned(acc'[u]) \/ Clears(p, u)
<1>1. CASE Stores(p, u)
  <2>1. LinkPending(u, SignerOf(held[p]))
    BY <1>1 DEF Stores, Goes, LinkPending
  <2>2. QED BY <1>1, <2>1 DEF Stores, FirmlySigned, SomeoneSigned
<1>2. CASE Signs(p, u) \/ Marks(p, u) \/ UNCHANGED acc
  BY <1>2 DEF Signs, Marks, FirmlySigned, SomeoneSigned
<1>3. QED BY <1>1, <1>2 DEF Does, Enters, Backs, Draws, Shares, Reads

-----------------------------------------------------------------------------
(* What holds of all requests, however they overlap: the properties name    *)
(* what must be under way for a signature to go or a stage to lose it.      *)

LEMMA SignatureStep ==
  ASSUME TypeInv, [Next]_vars, NEW v \in Units, NEW s \in Signers,
         acc[v].signed[s], ~LinkPending(v, s), acc'[v].here
  PROVE  acc'[v].signed[s] /\ ~LinkPending(v, s)'
<1>1. ASSUME NEW p \in Slots, Does(p, v)
      PROVE  acc'[v].signed[s] /\ ~LinkPending(v, s)'
  <2>1. acc'[v].signed[s]
    <3>1. CASE Signs(p, v) \/ Marks(p, v) \/ UNCHANGED acc
      BY <3>1 DEF Signs, Marks
    <3>2. CASE Clears(p, v)
      BY <3>2 DEF Clears, NoRow
    <3>3. CASE Stores(p, v)
      <4>1. s # SignerOf(held[p])
        BY <3>3 DEF Stores, Goes, LinkPending
      <4>2. QED BY <3>3, <4>1 DEF Stores
    <3>4. QED BY <1>1, <3>1, <3>2, <3>3 DEF Does, Enters, Backs, Draws, Shares, Reads
  <2>2. ASSUME NEW q \in Slots, req'[q].at = "link.store", req'[q].unit = v,
               SignerOf(held'[q]) = s
        PROVE  FALSE
    <3>1. CASE q # p
      <4>1. req'[q] = req[q] /\ held'[q] = held[q]
        BY <1>1, <3>1 DEF Does, Signs, Stores, Marks, Enters, Backs, Clears, Draws, Shares,
                          Reads, Goes
      <4>2. QED BY <2>2, <4>1 DEF LinkPending
    <3>2. CASE q = p
      <4>1. Draws(p, v)
        BY <1>1, <2>2, <3>2 DEF Does, Signs, Stores, Marks, Enters, Backs, Clears, Shares,
                                Reads, Goes
      <4>2. QED BY <2>2, <3>2, <4>1 DEF Draws
    <3>3. QED BY <3>1, <3>2
  <2>3. QED BY <2>1, <2>2 DEF LinkPending
<1>2. ASSUME NEW p \in Slots, NEW u \in Units, Does(p, u), v # u
      PROVE  acc'[v].signed[s] /\ ~LinkPending(v, s)'
  BY <1>2, ElsewhereKept
<1>3. CASE UNCHANGED <<boardVars, acc, held, minted, shared, historyVars>>
  BY <1>3 DEF boardVars, LinkPending
<1>4. QED BY <1>1, <1>2, <1>3, StepDoes

\* A signature once given is removed only with the whole record, or by a link
\* that had passed its check before the signature came: no later link request
\* re-opens it.
THEOREM SignaturesAreKept == Spec => SignatureKept
<1>1. TypeInv /\ [Next]_vars =>
        \A u \in Units, s \in Signers :
          acc[u].signed[s] /\ ~LinkPending(u, s) /\ acc'[u].here
            => acc'[u].signed[s] /\ ~LinkPending(u, s)'
  BY SignatureStep
<1>2. QED BY <1>1, Invariants, PTL DEF Spec, SignatureKept

LEMMA ClosedStep ==
  ASSUME TypeInv, [Next]_vars, NEW v \in Units, Backed(v), ~Overlapped(v)
  PROVE  Backed(v)' \/ Overlapped(v)'
<1>1. ASSUME NEW p \in Slots, Does(p, v), ~Overlapped(v)',
             acc'[v].off \/ ByServer(v)' \/ BeingClosed(v)'
      PROVE  FirmlySigned(v)'
  <2>1. CASE SomeoneSigned(acc'[v])
    BY <1>1, <2>1 DEF Overlapped
  <2>2. CASE ~SomeoneSigned(acc'[v])
    <3>1. acc[v].off \/ ByServer(v) \/ BeingClosed(v)
      BY <1>1, <2>2, ClosesOnSignature
    <3>2. Clears(p, v)
      BY <1>1, <2>2, <3>1, FirmStays DEF Backed
    <3>3. BeingReset(v) /\ ~acc'[v].off
      BY <3>2 DEF Clears, Goes, BeingReset, NoRow
    <3>4. ByServer(v) \/ BeingClosed(v)
      BY <1>1, <2>2, <3>3, ClosesOnSignature
    <3>5. QED BY <3>3, <3>4 DEF Overlapped
  <2>3. QED BY <2>1, <2>2
<1>2. ASSUME NEW p \in Slots, NEW u \in Units, Does(p, u), v # u
      PROVE  Backed(v)'
  <2>1. FirmlySigned(v)' <=> FirmlySigned(v)
    BY <1>2, ElsewhereKept DEF FirmlySigned
  <2>2. QED BY <1>2, <2>1, ElsewhereKept DEF Backed
<1>3. CASE UNCHANGED <<boardVars, acc, held, minted, shared, historyVars>>
  BY <1>3 DEF boardVars, Backed, FirmlySigned, LinkPending, ByServer, BeingClosed, Closing
<1>4. QED BY <1>1, <1>2, <1>3, StepDoes DEF Backed

\* A record is closed, and a unit completed by the server, on a signature that
\* is there to stay: finalizeIfComplete and the sync act on one they have seen,
\* and it stays unless a link is stored over it or a backward move deletes the
\* record under a request that closes it.
THEOREM StagesCloseOnSignature == Spec => ClosedOnSignature
<1>1. TypeInv /\ [Next]_vars =>
        \A u \in Units : Backed(u) /\ ~Overlapped(u) => Backed(u)' \/ Overlapped(u)'
  BY ClosedStep
<1>2. QED BY <1>1, Invariants, PTL DEF Spec, ClosedOnSignature

LEMMA UnclaimedStep ==
  ASSUME TypeInv, [Next]_vars, NEW v \in Units, Unclaimed(v), v \in owed'
  PROVE  Unclaimed(v)'
<1>1. ASSUME NEW p \in Slots, Does(p, v)
      PROVE  Unclaimed(v)'
  <2>1. ~SomeoneSigned(acc'[v])
    <3>1. CASE Stores(p, v)
      BY <3>1 DEF Stores, SomeoneSigned, Unclaimed
    <3>2. CASE Marks(p, v) \/ Clears(p, v) \/ UNCHANGED acc
      BY <3>2 DEF Marks, Clears, NoRow, SomeoneSigned, Unclaimed
    <3>3. ~Signs(p, v)
      BY DEF Signs
    <3>4. QED BY <1>1, <3>1, <3>2, <3>3 DEF Does, Enters, Backs, Draws, Shares, Reads
  <2>2. QED BY <1>1, <2>1, ClosesOnSignature DEF Unclaimed
<1>2. ASSUME NEW p \in Slots, NEW u \in Units, Does(p, u), v # u
      PROVE  Unclaimed(v)'
  BY <1>2, ElsewhereKept DEF Unclaimed
<1>3. CASE UNCHANGED <<boardVars, acc, held, minted, shared, historyVars>>
  BY <1>3 DEF boardVars, historyVars, Unclaimed, ByServer, BeingClosed, Closing
<1>4. QED BY <1>1, <1>2, <1>3, StepDoes

\* A unit that was moved back, has no signature and is in no request that acts
\* on its old record is not completed by the server before somebody signs.
THEOREM ResetsHold == Spec => ResetHolds
<1>1. TypeInv /\ [Next]_vars =>
        \A u \in Units : Unclaimed(u) => Unclaimed(u)' \/ u \notin owed'
  BY UnclaimedStep
<1>2. QED BY <1>1, Invariants, PTL DEF Spec, ResetHolds

-----------------------------------------------------------------------------
(* Two properties that some overlap of two requests breaks: each is a       *)
(* theorem of the behaviours without that overlap, whatever else the        *)
(* requests interleave, repeat or leave unfinished.                         *)

\* The request in slot q is another one than p's about the same unit.
Beside(p, q) == p # q /\ req[q].at # "idle" /\ req[p].unit = req[q].unit

\* The requests that are about to move the unit back or to delete its record.
MovingBack(p) ==
  \/ req[p].at = "move.write" /\ req[p].back
  \/ req[p].at = "move.reset"

\* One link is not being submitted twice at a time.
SubmitsApart ==
  \A p, q \in Slots :
    req[p].at = "submit.sign" /\ req[q].at = "submit.sign" /\ held[p] = held[q] => p = q

\* No backward move meets a request that is about to close the unit's stage.
MovesApart == \A p, q \in Slots : MovingBack(p) /\ Beside(p, q) => ~Closing(q)

\* With one request at a time nothing overlaps: neither of the two is empty.
THEOREM OneSlotSuffices ==
  (\A p, q \in Slots : p = q) => (Spec => [](SubmitsApart /\ MovesApart))
<1> SUFFICES ASSUME \A p, q \in Slots : p = q
             PROVE  Spec => [](SubmitsApart /\ MovesApart)
  OBVIOUS
<1>1. SubmitsApart /\ MovesApart
  BY DEF SubmitsApart, MovesApart, Beside
<1>2. QED BY <1>1, PTL

-----------------------------------------------------------------------------
(* A unit that was moved back and not signed for again is owed a signature. *)

\* What it had is gone, or about to go with its record.
OwedOK(u) == u \in owed => ~ByServer(u) /\ (SomeoneSigned(acc[u]) => BeingReset(u))

OwedInv ==
  /\ \A u \in Units : OwedOK(u)
  /\ \A p \in Slots : Closing(p) => req[p].unit \notin owed

LEMMA OwedStep ==
  ASSUME TypeInv, OwedInv, MovesApart, MovesApart', NEW p \in Slots, NEW u \in Units,
         Does(p, u)
  PROVE  OwedInv'
<1>0. /\ \A q \in Slots : req[q].unit \in Units
      /\ acc[u] \in Rows /\ OwedOK(u) /\ (Closing(p) => req[p].unit \notin owed)
  BY SlotTyped DEF TypeInv, TypeOK, OwedInv
<1>1. /\ Others(p)
      /\ \A v \in Units \ {u} :
           /\ acc'[v] = acc[v] /\ column'[v] = column[v] /\ mover'[v] = mover[v]
           /\ v \in owed' <=> v \in owed
      /\ req[p].at # "idle" => req[p].unit = u
      /\ req'[p].at # "idle" => req'[p].unit = u
  BY DEF Does, Signs, Stores, Marks, Enters, Backs, Clears, Draws, Shares, Reads, Goes,
         historyVars
<1>2. ASSUME NEW v \in Units \ {u} PROVE OwedOK(v)'
  <2>1. BeingReset(v) => BeingReset(v)'
    BY <1>1 DEF BeingReset
  <2>2. QED BY <1>1, <2>1 DEF OwedInv, OwedOK, ByServer, SomeoneSigned
<1>3. CASE u \notin owed'
  <2>1. OwedOK(u)'
    BY <1>3 DEF OwedOK
  <2>2. ASSUME NEW q \in Slots, Closing(q)' PROVE req'[q].unit \notin owed'
    <3>1. CASE q = p
      BY <1>1, <1>3, <2>2, <3>1 DEF Closing
    <3>2. CASE q # p
      BY <1>0, <1>1, <1>3, <2>2, <3>2 DEF OwedInv, Closing
    <3>3. QED BY <3>1, <3>2
  <2>3. QED BY <1>2, <2>1, <2>2 DEF OwedInv
<1>4. CASE Backs(p, u)
  <2>1. BeingReset(u)' /\ ~ByServer(u)'
    BY <1>4 DEF Backs, Goes, BeingReset, ByServer
  <2>2. OwedOK(u)'
    BY <2>1 DEF OwedOK
  <2>3. ASSUME NEW q \in Slots, Closing(q)' PROVE req'[q].unit \notin owed'
    <3>1. q # p /\ req'[q] = req[q]
      BY <1>1, <1>4, <2>3 DEF Backs, Goes, Closing
    <3>2. req[q].unit # u
      BY <1>4, <2>3, <3>1 DEF MovesApart, MovingBack, Beside, Closing, Backs, Goes
    <3>3. QED BY <1>0, <1>1, <2>3, <3>1, <3>2 DEF OwedInv, Closing
  <2>4. QED BY <1>2, <2>2, <2>3 DEF OwedInv
<1>5. CASE u \in owed' /\ ~Backs(p, u)
  <2>1. u \in owed /\ owed' = owed /\ ~Signs(p, u) /\ ~Closing(p)
    BY <1>0, <1>1, <1>5
    DEF Does, Signs, Stores, Marks, Enters, Clears, Draws, Shares, Reads, historyVars,
        Closing
  <2>2. ~ByServer(u)'
    <3>1. CASE UNCHANGED <<column, mover>>
      BY <1>0, <2>1, <3>1 DEF OwedOK, ByServer
    <3>2. CASE \E c \in Columns : Enters(p, u, c)
      <4>1. column'[u] = "completed" => Enters(p, u, "completed")
        BY <3>2 DEF Enters
      <4>2. QED BY <2>1, <4>1, EntersCompleted DEF ByServer
    <3>3. QED
      BY <1>5, <2>1, <3>1, <3>2 DEF Does, Stores, Marks, Clears, Draws, Shares, Reads
  <2>3. SomeoneSigned(acc'[u]) => SomeoneSigned(acc[u]) /\ ~Clears(p, u)
    BY <1>5, <2>1
    DEF Does, Stores, Marks, Enters, Clears, Draws, Shares, Reads, SomeoneSigned, NoRow
  <2>4. SomeoneSigned(acc'[u]) => BeingReset(u)'
    <3>1. req[p].at # "move.reset" \/ Clears(p, u)
      BY <1>5, <2>1 DEF Does, Stores, Marks, Enters, Draws, Shares, Reads
    <3>2. QED BY <1>0, <1>1, <2>1, <2>3, <3>1 DEF OwedOK, BeingReset
  <2>5. OwedOK(u)'
    BY <2>2, <2>4 DEF OwedOK, SomeoneSigned
  <2>6. ASSUME NEW q \in Slots, Closing(q)' PROVE req'[q].unit \notin owed'
    <3>1. CASE q # p
      BY <1>0, <1>1, <2>1, <2>6, <3>1 DEF OwedInv, Closing
    <3>2. CASE q = p
      <4>1. Reads(p, u) /\ SomeoneSigned(acc[u])
        BY <1>5, <2>1, <2>6, <3>2
        DEF Does, Stores, Marks, Enters, Clears, Draws, Shares, Reads, Goes, Closing
      <4>2. PICK r \in Slots : req[r].at = "move.reset" /\ req[r].unit = u
        BY <1>0, <2>1, <4>1 DEF OwedOK, BeingReset
      <4>3. r # p
        BY <1>5, <4>1, <4>2 DEF Reads
      <4>4. req'[r] = req[r] /\ req'[p].unit = u /\ req'[p].at # "idle"
        BY <1>1, <2>6, <3>2, <4>3 DEF Closing
      <4>5. QED
        BY <2>6, <3>2, <4>2, <4>3, <4>4 DEF MovesApart, MovingBack, Beside, Closing
    <3>3. QED BY <3>1, <3>2
  <2>7. QED BY <1>2, <2>5, <2>6 DEF OwedInv
<1>6. QED BY <1>3, <1>4, <1>5

LEMMA OwedInvariance == Spec /\ []MovesApart => []OwedInv
<1>1. Init => OwedInv
  BY DEF Init, NoRequest, OwedInv, OwedOK, Closing
<1>2. ASSUME OwedInv, UNCHANGED <<boardVars, acc, held, minted, shared, historyVars>>
      PROVE  OwedInv'
  BY <1>2 DEF boardVars, historyVars, OwedInv, OwedOK, Closing, BeingReset, ByServer,
              SomeoneSigned
<1>3. TypeInv /\ MovesApart /\ MovesApart' /\ OwedInv /\ [Next]_vars => OwedInv'
  BY <1>2, StepDoes, OwedStep
<1>4. QED BY <1>1, <1>3, Invariants, PTL DEF Spec

\* A unit that was moved back is completed by the server again only after
\* somebody has signed once more, or after a move that failed before it deleted
\* the record, unless the move met a request that was about to close the stage.
THEOREM MovedBackIsSignedAgain == Spec /\ []MovesApart => []ReacceptedAfterReset
<1>1. OwedInv => ReacceptedAfterReset
  BY DEF OwedInv, OwedOK, ByServer, ReacceptedAfterReset
<1>2. QED BY <1>1, OwedInvariance, PTL

-----------------------------------------------------------------------------
(* A signing link belongs to one row, and signs it once.                    *)

\* A link stored in a row was generated for that signer and that unit alone;
\* once it has signed, the signature is there.
LinkOK(u, s) ==
  acc[u].link[s] # NoToken =>
    /\ acc[u].link[s] \in minted /\ SignerOf(acc[u].link[s]) = s
    /\ \A v \in Units : acc[v].link[s] = acc[u].link[s] => v = u
    /\ acc[u].link[s] \in used => acc[u].signed[s]

\* A token about to be stored has been handed to nobody and is in no row; one
\* about to sign has not signed, and is in no other row than the one resolved.
HeldLinkOK(p) ==
  /\ req[p].at = "link.store" =>
       held[p] \notin shared /\ \A v \in Units, s \in Signers : acc[v].link[s] # held[p]
  /\ req[p].at = "submit.sign" =>
       /\ held[p] \notin used
       /\ \A v \in Units, s \in Signers : acc[v].link[s] = held[p] => v = req[p].unit

\* Two requests never store or hand over the same token.
Drawn ==
  \A p, q \in Slots :
    /\ req[p].at \in {"link.store", "link.share"}
    /\ req[q].at \in {"link.store", "link.share"}
    /\ held[p] = held[q]
    => p = q

LinkInv ==
  /\ \A u \in Units, s \in Signers : LinkOK(u, s)
  /\ \A p \in Slots : HeldLinkOK(p)
  /\ Drawn
  /\ LinkSignsOnce

LEMMA DrawnStep ==
  ASSUME TypeInv, Drawn, NEW p \in Slots, NEW u \in Units, Does(p, u)
  PROVE  Drawn'
<1>0. Others(p) /\ \A q \in Slots \ {p} : held'[q] = held[q]
  BY DEF Does, Signs, Stores, Marks, Enters, Backs, Clears, Draws, Shares, Reads, Goes
<1>1. ASSUME NEW q \in Slots \ {p}, req[q].at \in {"link.store", "link.share"},
             req'[p].at \in {"link.store", "link.share"}, held'[q] = held'[p]
      PROVE  FALSE
  <2>1. CASE Stores(p, u)
    BY <1>0, <1>1, <2>1 DEF Stores, Drawn
  <2>2. CASE Draws(p, u)
    BY <1>0, <1>1, <2>2 DEF Draws, TypeInv, HeldOK
  <2>3. QED
    BY <1>1, <2>1, <2>2 DEF Does, Signs, Marks, Enters, Backs, Clears, Shares, Reads, Goes
<1>2. QED BY <1>0, <1>1 DEF Drawn

\* The steps that neither store a link nor sign with one.
LEMMA LinkFrame ==
  ASSUME TypeInv, NEW u \in Units, NEW s \in Signers, LinkOK(u, s),
         \A v \in Units : acc'[v].link[s] \in {acc[v].link[s], NoToken},
         acc'[u].link[s] # NoToken /\ acc[u].signed[s] => acc'[u].signed[s],
         minted \subseteq minted', used' = used
  PROVE  LinkOK(u, s)'
  BY DEF LinkOK

LEMMA LinksStep ==
  ASSUME TypeInv, LinkInv, NEW p \in Slots, NEW u \in Units, Does(p, u),
         NEW v \in Units, NEW s \in Signers
  PROVE  LinkOK(v, s)'
<1>0. /\ LinkOK(v, s) /\ HeldLinkOK(p) /\ TypeOK
      /\ \A w \in Units \ {u} : acc'[w] = acc[w]
  BY DEF LinkInv, TypeInv, Does, Signs, Stores, Marks, Enters, Backs, Clears, Draws, Shares,
         Reads, Goes
<1>1. CASE Stores(p, u)
  <2>1. /\ held[p] \in minted /\ held[p] \notin used
        /\ \A w \in Units, z \in Signers : acc[w].link[z] # held[p]
    BY <1>0, <1>1 DEF Stores, HeldLinkOK, TypeInv, HeldOK, TypeOK
  <2>2. /\ minted' = minted /\ used' = used
        /\ \A w \in Units : acc'[w].link[s] # acc[w].link[s] => w = u
    BY <1>0, <1>1 DEF Stores, historyVars
  <2>3. CASE acc'[u].link[s] = acc[u].link[s] /\ acc'[u].signed[s] = acc[u].signed[s]
    <3>1. \A w \in Units : acc'[w].link[s] = acc[w].link[s]
      BY <2>2, <2>3
    <3>2. acc'[v].signed[s] = acc[v].signed[s]
      BY <1>0, <2>3
    <3>3. QED BY <1>0, <2>2, <3>1, <3>2, LinkFrame
  <2>4. CASE s = SignerOf(held[p]) /\ acc'[u].link[s] = held[p]
    <3>1. CASE v = u
      <4>1. \A w \in Units : acc'[w].link[s] = held[p] => w = u
        BY <1>0, <2>1
      <4>2. QED BY <2>1, <2>2, <2>4, <3>1, <4>1 DEF LinkOK
    <3>2. CASE v # u
      <4>1. acc'[v] = acc[v]
        BY <1>0, <3>2
      <4>2. \A w \in Units : acc'[w].link[s] = acc[v].link[s]
                               => acc[w].link[s] = acc[v].link[s]
        BY <1>0, <2>1, <2>4
      <4>3. QED BY <1>0, <2>2, <4>1, <4>2 DEF LinkOK
    <3>3. QED BY <3>1, <3>2
  <2>5. QED BY <1>1, <2>3, <2>4 DEF Stores
<1>2. CASE Signs(p, u) /\ req[p].at = "submit.sign"
  <2>1. /\ \A w \in Units : acc'[w].link = acc[w].link
        /\ used' = used \cup {held[p]} /\ acc'[u].signed[SignerOf(held[p])]
        /\ minted' = minted
        /\ acc[v].signed[s] => acc'[v].signed[s]
    BY <1>0, <1>2 DEF Signs
  <2>2. acc[v].link[s] = held[p] => v = u
    BY <1>0, <1>2 DEF HeldLinkOK, Signs, Goes
  <2>3. QED BY <1>0, <2>1, <2>2 DEF LinkOK
<1>3. CASE Signs(p, u) /\ req[p].at # "submit.sign"
  BY <1>0, <1>3, LinkFrame DEF Signs
<1>4. CASE Clears(p, u)
  <2>1. acc'[u].link[s] = NoToken
    BY <1>4 DEF Clears, NoRow
  <2>2. QED BY <1>0, <1>4, <2>1, LinkFrame DEF Clears, historyVars
<1>5. CASE Marks(p, u)
  BY <1>0, <1>5, LinkFrame DEF Marks, historyVars
<1>6. CASE \/ Backs(p, u) \/ Draws(p, u) \/ Shares(p, u) \/ Reads(p, u)
           \/ \E c \in Columns : Enters(p, u, c)
  BY <1>0, <1>6, LinkFrame DEF Backs, Draws, Shares, Reads, Enters, historyVars
<1>7. QED BY <1>1, <1>2, <1>3, <1>4, <1>5, <1>6 DEF Does

LEMMA HeldLinksStep ==
  ASSUME TypeInv, LinkInv, SubmitsApart, NEW p \in Slots, NEW u \in Units, Does(p, u),
         NEW q \in Slots
  PROVE  HeldLinkOK(q)'
<1>0. /\ HeldLinkOK(p) /\ HeldLinkOK(q) /\ TypeOK /\ Drawn
      /\ \A w \in Units, s \in Signers : LinkOK(w, s)
      /\ \A w \in Units \ {u} : acc'[w] = acc[w]
  BY DEF LinkInv, TypeInv, Does, Signs, Stores, Marks, Enters, Backs, Clears, Draws, Shares,
         Reads, Goes
<1>1. CASE q = p
  <2>1. CASE Draws(p, u)
    <3>1. /\ held'[p] \notin minted /\ held'[p] \in Tokens /\ req'[p].at = "link.store"
          /\ UNCHANGED <<acc, shared>>
      BY <2>1 DEF Draws, Goes
    <3>2. held'[p] \notin shared
      BY <1>0, <3>1 DEF TypeOK
    <3>3. \A w \in Units, s \in Signers : acc[w].link[s] # held'[p]
      BY <1>0, <3>1, TokensAssumption DEF LinkOK
    <3>4. QED BY <1>1, <3>1, <3>2, <3>3 DEF HeldLinkOK
  <2>2. CASE Reads(p, u) /\ req'[p].at = "submit.sign"
    <3>1. /\ held'[p] \in shared /\ acc[u].link[SignerOf(held'[p])] = held'[p]
          /\ ~acc[u].signed[SignerOf(held'[p])] /\ req'[p].unit = u
          /\ UNCHANGED <<acc, used>>
      BY <2>2 DEF Reads, Goes
    <3>2. PICK t \in Tokens, s \in Signers : t = held'[p] /\ s = SignerOf(t)
      BY <1>0, <3>1 DEF TypeOK, SignerOf, Signers
    <3>3. t # NoToken
      BY <3>2, TokensAssumption
    <3>4. /\ acc[u].link[s] = t /\ t \notin used
          /\ \A w \in Units : acc[w].link[s] = t => w = u
      BY <1>0, <3>1, <3>2, <3>3 DEF LinkOK
    <3>5. \A w \in Units, z \in Signers : acc[w].link[z] = t => z = s
      BY <1>0, <3>2, <3>3 DEF LinkOK
    <3>6. QED BY <1>1, <2>2, <3>1, <3>2, <3>4, <3>5 DEF HeldLinkOK
  <2>3. CASE req'[p].at \notin {"link.store", "submit.sign"}
    BY <1>1, <2>3 DEF HeldLinkOK
  <2>4. QED
    BY <2>1, <2>2, <2>3
    DEF Does, Signs, Stores, Marks, Enters, Backs, Clears, Shares, Reads, Goes
<1>2. CASE q # p
  <2>1. req'[q] = req[q] /\ held'[q] = held[q]
    BY <1>2 DEF Does, Signs, Stores, Marks, Enters, Backs, Clears, Draws, Shares, Reads, Goes
  <2>2. ASSUME req[q].at = "link.store"
        PROVE  /\ held[q] \notin shared'
               /\ \A w \in Units, s \in Signers : acc'[w].link[s] # held[q]
    <3>1. /\ held[q] \notin shared /\ held[q] \in Tokens /\ held[q] # NoToken
          /\ \A w \in Units, s \in Signers : acc[w].link[s] # held[q]
      BY <1>0, <2>2, TokensAssumption DEF HeldLinkOK, TypeInv, HeldOK, TypeOK
    <3>2. CASE Stores(p, u)
      <4>1. held[p] # held[q] /\ shared' = shared
        BY <1>0, <1>2, <2>2, <3>2 DEF Stores, Drawn
      <4>2. \A s \in Signers : acc'[u].link[s] \in {acc[u].link[s], held[p]}
        BY <3>2 DEF Stores
      <4>3. QED BY <1>0, <3>1, <4>1, <4>2
    <3>3. CASE Shares(p, u)
      BY <1>0, <1>2, <2>2, <3>1, <3>3 DEF Shares, Drawn
    <3>4. CASE Clears(p, u)
      <4>1. \A s \in Signers : acc'[u].link[s] = NoToken
        BY <3>4 DEF Clears, NoRow
      <4>2. QED BY <1>0, <3>1, <3>4, <4>1 DEF Clears
    <3>5. CASE /\ shared' = shared
               /\ acc'[u].link = acc[u].link
      BY <1>0, <3>1, <3>5
    <3>6. QED
      BY <3>2, <3>3, <3>4, <3>5 DEF Does, Signs, Marks, Enters, Backs, Draws, Reads
  <2>3. ASSUME req[q].at = "submit.sign"
        PROVE  /\ held[q] \notin used'
               /\ \A w \in Units, s \in Signers : acc'[w].link[s] = held[q]
                                                    => w = req[q].unit
    <3>1. /\ held[q] \notin used /\ held[q] \in shared /\ held[q] # NoToken
          /\ \A w \in Units, s \in Signers : acc[w].link[s] = held[q] => w = req[q].unit
      BY <1>0, <2>3, TokensAssumption DEF HeldLinkOK, TypeInv, HeldOK, TypeOK
    <3>2. held[q] \notin used'
      <4>1. CASE Signs(p, u) /\ req[p].at = "submit.sign"
        BY <1>2, <2>3, <3>1, <4>1 DEF Signs, SubmitsApart
      <4>2. CASE ~(Signs(p, u) /\ req[p].at = "submit.sign")
        BY <3>1, <4>2
        DEF Does, Signs, Stores, Marks, Enters, Backs, Clears, Draws, Shares, Reads,
            historyVars
      <4>3. QED BY <4>1, <4>2
    <3>3. \A s \in Signers : acc'[u].link[s] = held[q] => acc[u].link[s] = held[q]
      <4>1. CASE Stores(p, u)
        <5>1. held[p] # held[q]
          BY <1>0, <3>1, <4>1 DEF Stores, HeldLinkOK
        <5>2. QED BY <4>1, <5>1 DEF Stores
      <4>2. CASE Clears(p, u)
        BY <3>1, <4>2 DEF Clears, NoRow
      <4>3. CASE acc'[u].link = acc[u].link
        BY <4>3
      <4>4. QED
        BY <4>1, <4>2, <4>3 DEF Does, Signs, Marks, Enters, Backs, Draws, Shares, Reads
    <3>4. QED BY <1>0, <3>1, <3>2, <3>3
  <2>4. QED BY <2>1, <2>2, <2>3 DEF HeldLinkOK
<1>3. QED BY <1>1, <1>2

LEMMA LinkStep ==
  ASSUME TypeInv, LinkInv, SubmitsApart, NEW p \in Slots, NEW u \in Units, Does(p, u)
  PROVE  LinkInv'
<1>1. \A v \in Units, s \in Signers : LinkOK(v, s)'
  BY LinksStep
<1>2. \A q \in Slots : HeldLinkOK(q)'
  BY HeldLinksStep
<1>3. Drawn'
  BY DrawnStep DEF LinkInv
<1>4. LinkSignsOnce'
  BY DEF LinkInv, HeldLinkOK, LinkSignsOnce, Does, Signs, Stores, Marks, Enters, Backs,
         Clears, Draws, Shares, Reads, historyVars
<1>5. QED BY <1>1, <1>2, <1>3, <1>4 DEF LinkInv

LEMMA LinkInvariance == Spec /\ []SubmitsApart => []LinkInv
<1>1. Init => LinkInv
  BY DEF Init, NoRequest, NoRow, LinkInv, LinkOK, HeldLinkOK, Drawn, LinkSignsOnce
<1>2. ASSUME LinkInv, UNCHANGED <<boardVars, acc, held, minted, shared, historyVars>>
      PROVE  LinkInv'
  BY <1>2 DEF boardVars, historyVars, LinkInv, LinkOK, HeldLinkOK, Drawn, LinkSignsOnce
<1>3. TypeInv /\ SubmitsApart /\ LinkInv /\ [Next]_vars => LinkInv'
  BY <1>2, StepDoes, LinkStep
<1>4. QED BY <1>1, <1>3, Invariants, PTL DEF Spec

\* SubmitClientSignature writes at most one signature per signing link, however
\* many links are drawn, replaced, deleted with their record or outlive it,
\* unless one link is submitted twice at a time.
THEOREM EveryLinkSignsOnce == Spec /\ []SubmitsApart => []LinkSignsOnce
<1>1. LinkInv => LinkSignsOnce
  BY DEF LinkInv
<1>2. QED BY <1>1, LinkInvariance, PTL
=============================================================================
