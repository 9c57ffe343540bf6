# AssetWatch: TLA+ models, checks and proofs

AssetWatch tracks surveillance hardware from its arrival in the store to the
client's acceptance of the installed device. A unit is a card on a Kanban board
with six columns; sign-offs recorded by different people move it to the right.
This directory holds TLA+ models of the program, the TLC configurations that
check them, and proofs that TLAPS checks. Paths below are relative to `src/`.

## 1. The system

A Go server keeps all its state in PostgreSQL, and a React client calls it. No
handler holds state of its own between requests, apart from the login rate
limiter. What makes the server hard to get right is that **a handler is a
sequence of SQL statements, each of which commits by itself**. Only
`CreateUnit`, `CreateUser`, `SetUserRoles`, `AdminSetPassword`, `ResetPassword`
and `WipeAll` use a transaction. So

* two requests interleave at every statement, and a handler acts on a row as it
  was one or two statements ago;
* a request can end after any statement: the client disconnects, the 30 s
  timeout (`cmd/api/main.go:95`) cancels the context, a statement fails, the
  process dies. What was written stays written;
* a transaction is undone as a whole, but sees what others commit between two
  of its statements, and waits where PostgreSQL's locks make it wait.

The repository has no tests.

### Components

| Component | State | Operations | Correct means | Module |
|---|---|---|---|---|
| Board (`hardware/service.go` 33-61, 409-530) | `hardware_units.board_column` | advance (by a sign-off), manual move, sync | a column is entered only on recorded sign-offs or by an administrator | `Board`, `BoardLedger` |
| Acceptance (`acceptance/service.go`) | `client_acceptances`, one row per unit; links in people's hands | BSP sign-off, two kinds of signing link, public submission, upload, finalise | a record is closed by a signature, a link signs once, a signature stays | `Acceptance` |
| Stage 1A / 1B (`hardware/stage1a.go`, `stage1b.go`) | `device_configurations`, `firmware_configurations` | save, sign-off steps, `qc_fail` | a stage closes only with all its steps; a sync catches up | `StageSignOffs` |
| Installation (`installation/service.go`) | `site_installations`, photos | save, receipt, contactability, sign-off steps, photo upload and deletion | as above; a photo before inspection; the photo limit | `StageSignOffs`, `Defects` |
| Delivery dockets (`logistics/service.go`) | dockets, items, tracking events, custody log | create, add, remove, dispatch, receive, stage buttons | contents fixed after dispatch, delivered is final, every unit handled | `Dockets` |
| Hardware units (`hardware/service.go` 134-365) | unit rows, serial numbers, status | create, retire, restore, purge, identity | only retired units vanish; one unit per serial number | `HardwareUnits` |
| Item stock (`items`) | `items.qty` | create, update, (de)activate; claimed by creations | stock never negative, never lost or invented | `HardwareUnits`, `StockLedger` |
| Export and wipe (`datamanagement`) | all tables | export, wipe | stock given back by a wipe, once | `HardwareUnits` |
| Receiving (`hardware/service.go` 574-618) | `goods_receipts`, exception flag | record | an incorrect delivery raises the exception | `Defects` |
| Defects (`defective`) | `defect_reports`, status, exception flag | declare, ship back, deliver, replace | a report says what happened; its replacement exists and is linked | `Defects` |
| Authentication (`auth`) | users, roles, refresh tokens, reset tokens | login, refresh, logout, reset, administration | a new password ends the sessions under the old one; a reset link is spent | `Access`, `Sessions` |
| Role checks (`rbac`, `cmd/api/main.go`) | roles in the access token | admit or refuse | a role taken away lapses | `Access` |
| Login limiter (`webserver/security.go`) | attempts per address, in memory | admit or refuse | never more than the limit in a window | `LoginLimiter` |
| Site network values (`hardware/stage1a.go` 131-148, `sitelocation`) | IP addresses, branches of units, names of sites | check, save, move, rename | an address is used once per site | `Network` |
| Web session (`web/src/api/client.ts`) | tokens in local storage, one refresh promise | login, logout, authorised fetch | one refresh at a time; a logout is final; every request ends | `WebSession` |

### Interactions

The handlers of every stage call `hardware.AdvanceBoardColumn`, an `UPDATE` that
has **no condition on the current column**. `SyncBoardColumn`, which any user may
call, reads the column, runs that column's `readinessQuery` against the stage's
table, and writes the following column. `MoveBoardColumn`, for administrators,
writes any column and, if the move is backward, deletes the acceptance record.
`logistics` calls `LogStoreCustody` and `AdvanceBoardColumn` for each unit of a
docket. `CreateUnit` takes one from the stock of the unit's item, `WipeAll` gives
it back, a purge does not. `RecordReplacement` calls `CreateUnit`; a declaration,
both kinds of receipt, retirement and restoration overwrite the same two columns
of the unit. The public signing page calls `SubmitClientSignature` with nothing
but the token. The web client's `authFetch` refreshes an expired access token
behind the page's back; requests that fail at the same time share one promise.
Roles are read when an access token is issued and not again while it lives.

## 2. The modules

| Module | What it is |
|---|---|
| `BoardColumns` | the columns, their order and successors |
| `BoardLedger` | **abstract specification**: what the board promises |
| `Board` | request slots, cut-offs, `MoveBoardColumn`, `SyncBoardColumn`, `AdvanceBoardColumn`; extended by the next three |
| `Acceptance` | `Board` composed with the acceptance stage |
| `StageSignOffs` | `Board` composed with Stage 1A, Stage 1B and the installation |
| `Dockets` | `Board` composed with the delivery dockets |
| `StockLedger` | **abstract specification**: what the stock of an item promises |
| `HardwareUnits` | units and items: creation and wipe as transactions with their locks, purge, status, quantity edits |
| `Defects` | `HardwareUnits` composed with the defect reports and the receipts |
| `Network` | IP addresses against the branches of units and the names of sites |
| `LoginLimiter` | the sliding window, its clock, the restart that forgets it |
| `Access` | `LoginLimiter` composed with accounts, roles, access tokens and reset links |
| `Sessions` | the server's handlers for the refresh tokens of one account |
| `WebSession` | `Sessions` composed with the browser's client |
| `*_proofs` | theorems about the module they are named after, `HardwareUnits_proofs` about `Defects` too; `Board_proofs` has the lemmas about `Board` and `BoardLedger` the others use, for whatever steps an extending module adds |

The configurations instantiate these modules directly: their constants are sets
of model values and numbers, and need no definitions of an MC module. An operator
whose comment begins "Mutant:" is a plausible bug in the definition that follows
it, used to confirm that the runs would notice.

### State and actions against the code

`req[p]` is the request that slot `p` is serving: the statement it will execute
next (`at`), the unit, and what the handler carries in local variables. **Every
SQL statement that reads something the handler acts on, or writes, is an action
of its own.** Reads whose result is only returned to the client or put into the
audit trail are left out. `AbortRequest` (`Abort`) ends a request before any
statement.

| Variable | Code |
|---|---|
| `column[u]` | `hardware_units.board_column`; `current_stage` is written with it and is a function of it |
| `acc[u]` | the `client_acceptances` row: timestamps are modelled by being set; `link[s]` is the stored hash, named by its token |
| `held[p]` (`Acceptance`) | the raw token the handler in slot `p` holds |
| `minted`, `shared`, `expired` | tokens generated; returned or mailed; past their 7 days |
| `form[u][s]` | the row of stage `s`: which `..._by` columns are set, and `signed_off_at` |
| `photos[u]` | number of `installation_photos` rows |
| `work[p]` | the step slot `p` signs, and whether the row it read back was complete |
| `made`, `status`, `sent`, `received`, `items` (`Dockets`) | `delivery_dockets` and `delivery_docket_items`; `sent`/`received` are `dispatched_at`/`received_at` set |
| `custody`, `events` | the dispatch entries of `store_custody_logs`; the tracking events |
| `job[p]` | the docket slot `p` works on and the units its loop has left |
| `unit[u]`, `item[i]` | rows of `hardware_units` (serial number, item, status) and of `items` (quantity, active) |
| `exception[u]`, `defect[u]` | `is_exception`; the `defect_reports` row, its timestamps by being set |
| `branch`, `address`, `site` | `allocated_branch`, `client_ip_address`, the names in `site_locations` |
| `now`, `attempts` | the clock and the limiter's map |
| `user`, `link`, `tokens` (`Access`) | users with their roles and whether they have a live refresh token; reset links; unexpired access tokens, which only clients hold |
| `issued`, `dead` | rows of `refresh_tokens`; those revoked or past their time |
| `call[c]` | the login, refresh or logout slot `c` is serving, as `req` above; then its answer, until the browser takes it |
| `stored`, `fresh` | the refresh token in local storage; the access token there will be accepted |
| `fetch[b][f]` | an `authFetch`: sent with a good or an expired token, or waiting for the refresh |
| `flight[b]`, `login[b]` | `refreshPromise` and the login form's request, by the slot that serves it |

History variables, which the code has not: `mover` (who wrote the column last),
`granted` (the columns whose sign-offs have once been complete), `used`,
`reused` (links that have signed, and signed twice), `owed` (units moved back and
not signed for since), `pictured` (units that have once had a photo), `book` and
`purged` (what administrators entered, and units purged, per item), `crossed` and
`torn` (wipes overlapped by a creation or a purge), `made` and `cut` of `Defects`
(what a replacement was created for, and whether its request was cut short),
`place` and `sound` (the site a unit was allocated to; addresses written right
after their look-up and not moved since), `admitted`, `held` and `uses` of
`Access` (attempts let through, when a role was last held, how often a link set a
password), `session`, `outdated`, `spared`, `abandoned` and `loggedOut` (whose token
is whose, which tokens go back to an earlier password, and what has happened to a
session). They only record; no guard of a
handler reads them. In `Acceptance` and `Dockets`, `granted` also bounds what the
readiness queries of *other* stages may answer, since their tables are not in
these modules: a query may answer yes only if those sign-offs have been complete
at some time.

Some decisions deserve a word.

* **`UPDATE` without a row.** In Stage 1A and 1B, and for the Head Office link,
  an `UPDATE` that matches no row is no error. The models keep that: the row may
  be inserted between the `UPDATE` and the read-back.
* **Transactions and locks.** A transaction's writes are applied when it commits.
  Until then its locks are guards of the others: the row of an item it updated,
  the index entry of a serial number it inserted, the roles it deleted or
  inserted, and, for `TRUNCATE`, every transaction that has touched
  `hardware_units`. A `DELETE` or a subquery works on what was committed when
  its statement began; `WipeAll` counts units in one statement and truncates them
  in the next. Two wipes that overlap wait for each other, and PostgreSQL aborts
  one: `Abort` is that too.
* **The docket page.** The server checks neither a dispatch nor a receipt
  against the docket's state; the page decides which form to show
  (`DocketDetailPage.tsx:234-299`) from what it loaded. `DispatchOpen` and
  `ReceiveOpen` are that page load, and the request follows, possibly much later.
  `AddTrackingEvent` takes the page to show the docket as dispatched, which stays
  true once it is.
* **The browser.** JavaScript runs to completion, so what a tab does between two
  awaited answers is one action: `FlightReply` stores the new pair, clears
  `refreshPromise` and repeats all requests that waited. `FlightFails` is possible
  at any time, since a connection can be lost while the server goes on.
* **Time** in `Access` is a clock of few ticks. A token lives `TTL` ticks and a
  request `MaxAge`; the clock does not move on while a request is older, which is
  the 30 s timeout. In `Sessions` a token may expire at any time.
* **Names of sites.** A unit's site is the text in `allocated_branch`. Names are
  compared as text, although `sitelocation` keeps them unique by `lower(name)`
  only: two names that differ in case cannot exist at once.

### The abstract specifications

`BoardLedger` has three variables, `column`, `mover` and `granted`, and three
actions: `Grant` records that sign-offs are complete, `Enter` moves a unit into a
column whose preceding sign-offs have been granted, `AdminMove` moves it
anywhere. It states the comment of `SyncBoardColumn` - "it can only ever catch
board_column up to state that a properly-authorized sign-off already produced,
never grant a new one" - for every way a column is written. The detailed modules
implement it under the identity mapping on the three variables
(`ImplementsLedger`, that is `Ledger!Spec`).

"Once complete" is deliberate: a failed QC or a deleted acceptance may withdraw
sign-offs while a request that has read them is on its way. The stronger readings
are the properties `ClosedOnSignature` and `ReacceptedAfterReset`.

`StockLedger` has three numbers per item: on hand, in use, supplied. A unit is
taken only from what is on hand; an edit corrects what was supplied; a wipe gives
back some of what was in use, and never so much that more is on hand than was
supplied; a purge writes units off. `HardwareUnits` implements it with
`inUse` refined by the count of the item's units (`ImplementsStockLedger`), wipes
torn by a creation included.

## 3. What is checked

`Slots` is the number of requests served at the same time. Runs named `_one`
have one slot: requests follow one another in any order and each may be cut short
after any statement. Runs named `_two`, and those of the other modules, interleave
two requests.

### Acceptance

* **`Acceptance_two`**: `TypeOK`, which also says that only tokens that were
  handed over have signed; `AdvanceBacked`: wherever the requests interleave or
  stop, a unit is in Completed only after some signature or by an administrator;
  `ImplementsLedger`; and what two requests leave of three comments:
  * `ClosedOnSignature`: a record that is signed off, a unit that the server has
    completed and one that a request is about to complete have a signature no link
    under way can erase. They lose it to two overlaps and to nothing else: the only
    signature arrives between the two statements of a link request, which clears it;
    a backward move deletes the record of a unit that a request is closing.
  * `SignatureKept`: a signature stays as long as its record does, unless a link
    request for that signer was past its check before the signature came; once the
    signature is there, no link request gets past the check.
  * `ResetHolds`: a unit that was moved back, has no signature and is in no request
    about to close its stage (`Closing`: at either statement of `finalizeIfComplete`,
    or at the write of a sync from Commissioning) is not completed by the server, and
    no request sets out to, before somebody signs.
* **`Acceptance_one`** (two Branch Manager links, one for Head Office):
  `LinkSignsOnce`, `ReacceptedAfterReset`. Section 4 proves each for any number of
  requests, but for one overlap that breaks it. Under fairness also
  `SignedCatchesUp`: a unit in Commissioning that somebody has signed for does not
  stay there, although `finalizeIfComplete` never tries again once it has set
  `signed_off_at`. A backward move that is cut short between its two statements
  fails visibly and is not counted as owing a signature; the record it leaves
  behind can complete the unit again.

The overlaps that the properties name do happen. A link request erases a signature,
perhaps the only one behind a closed stage; a unit that is moved back while a request
is about to close its stage is completed again without a new signature, which with
two slots breaks `ReacceptedAfterReset`; two submissions of one link that are past the
look-up together sign twice, which breaks `LinkSignsOnce`; and a sync can take a unit
back, because it writes the column after the one it read. The first three are
findings.

**One signature or two.** In the code, any one of the three signatures closes the
stage and completes the unit: the comment of `finalizeIfComplete`
(`acceptance/service.go:607-612`) says so, and the readiness query of Commissioning
asks for no more. The manual asks for the BSP acceptance *and* a client or head
office signature (`users_manual.md:86`, `:174`). The models follow the code:
"signature" in the properties above means any one, `SignedCatchesUp` included.
What the manual says is `CompletedAsManual`, kept in the module; it does not hold,
and a finding reports it.

### Stage sign-offs

* **`SignOffs_one`** (all three stages, fairness): `ImplementsLedger`, and
  `SyncCatchesUp`: a unit in Pre-Deployment or Installation whose sign-offs are in
  place does not stay there.
* **`SignOffs_two`** (Stage 1B and installation): `TypeOK`; `StaleReadsHarmless`:
  the sign-offs decide on a row they read back two statements before, and a
  `qc_fail` may come in between, and still no stage is closed or left that was not
  complete at one time; and the photos, which are counted in one statement and
  relied on in a later one: `InspectedWasPictured` (there was a photo once) and
  `PhotoOvershootBounded` (the limit is exceeded by no more than one photo for each
  further request at the same time).

What does not hold. `SyncCatchesUpConfiguration`, kept in the module, is false:
the readiness query of Configuration names a column its table does not have. With
two slots `AdvanceBacked` fails in Stage 1A: an `encoded` step whose `UPDATE`
matched no row reads back a row inserted meanwhile and moves the card
(`stage1a.go:297-316`). What the manual says of photos - at most three
(`users_manual.md:160`), and one is there when the last two steps are signed
(161) - is false of requests that overlap; the two photo properties say what
remains. Repeating the `encoded` step takes a unit back to Configuration.

### Dockets

* **`Dockets_two`** (one unit, one docket): `TypeOK`; `ImplementsLedger`: a unit
  reaches Installation only through a receipt that followed a dispatch, however
  old the pages that asked for them; `DraftIffUnsent`: the two records of a
  dispatch, `status`, which `AddItem` and `RemoveItem` ask for, and
  `dispatched_at`, which the page and the readiness query ask for, never disagree;
  `SentDocketKept`: once no request is left that found a docket a draft before it was
  dispatched, its contents stay and no such request begins; once no second dispatch of
  a delivered docket is left, it stays delivered, and no page offers another.
* **`Dockets_one`** (two units, one docket, fairness):
  `TrackedMeansHandled`: when the tracking history says dispatched or delivered,
  every unit has been checked out or in, however many attempts were cut short;
  `ReceivedCatchesUp`: units left behind by a receipt that was cut short move on
  when a sync is asked for.

`OnlyAdminMovesBack` does not hold: a receipt moves a unit that an administrator
has put into Commissioning back to Installation. `SentDocketKept` leaves room for what
does happen: a unit is added to a docket that has left, or taken off it, after the
check for a draft, and a dispatch from a page loaded earlier follows the receipt and
sets the docket back to dispatched. With two slots a unit added so may be missing
from the custody log, and `TrackedMeansHandled` fails; section 4 proves that nothing
else breaks it.

### Units, stock and wipes

* **`Units`**: `TypeOK`, which includes that no quantity is negative, as only the
  row lock of the claim ensures; `StockConserved`: quantity, units in
  use and purged units add up to what administrators entered, whatever is refused,
  rolled back or cut short, until a wipe commits that a creation or a purge
  overlapped (`torn`); `ImplementsStockLedger`, which such wipes obey too.

A wipe overlapped by a creation loses one of stock, one overlapped by a purge
gives back what the purge consumed: the count and the truncation are two
statements.

### Defects and receipts

* **`Defects`**: `ReportTruthful`: a unit is "defective" only with a report, an
  arrival follows a shipment, and a replacement a shipment and a created unit;
  `ReplacementExists`: the unit a report names is there, since a foreign key
  without a cascade refuses its purge; `ReplacementLinked`: a unit created as a
  replacement is the one its report names, unless its request was cut short before
  the link or two replacements were requested at once; `OnlyRetiredPurged`: a unit
  restored or declared defective between the two statements of a purge is kept;
  `DefectTypeOK`.

Three things one might expect are false, and the properties leave room for them. A
receipt recorded after or during a declaration overwrites `is_exception`, so the
unit leaves the Exceptions list with its report pending. A replacement does not
clear the flag. A restoration makes a defective unit active, with its report
still open.

### Accounts, roles, the limiter

* **`Access`**: `WindowBounded`: in any window, wherever it begins, no more than
  the limit is let through, though the limiter looks back only when an attempt
  arrives; `RolesLapse`: a role opens its routes and sign-offs for at most the life
  of a token and of the request that got it after it was taken away;
  `LinkUsesBounded`: a reset link, which is
  looked up before the transaction that uses it, sets no more passwords than there
  were requests at the same time; `TypeOK`.

A restart forgets the attempts; `WindowBounded` is about one life of the process.
Deactivation stops logins but takes neither roles nor refresh tokens away, and
`Refresh` does not look at the flag: the session goes on, with all its roles. Two
overlapping `SetUserRoles` can leave the union of the two sets.

### Site network values

* **`Network`**: `AddressesApart`: two units of one site have the same address
  only if one was moved there after its address was saved, or a write fell between
  the look-up and the write of one of them, or the site was renamed after one of
  them was allocated to it; `TypeOK`, with no two sites of one name.

Each of the three does happen: moving a unit checks nothing, and a renamed site
leaves the text in `allocated_branch` as it was.

### Sessions

`Refresh` checks a token in one statement and revokes it in another; two that
overlap both succeed, and the session has forked. What prevents it is the client.

* **`WebSession`** (one tab, two requests of the page, two server slots):
  `SessionsUnforked`: no two refreshes present one token, and a session has one
  live token; `StoredIsCurrent`: the stored token is the newest of its session,
  and a session logged out of does not come back; whatever requests fail when and
  whichever answers are lost. The first is why the session is dropped when a
  refresh gets no answer, although the comment of `authFetch` (`client.ts:140-143`)
  says that only a missing, expired or revoked token ends it. Both excuse a
  session of which a page was reloaded in the middle of a refresh, and the second
  a logout during a refresh: there the refresh does bring the session back
  (`client.ts:115`). `OldSessionsSpared`: the only sessions that outlive the
  password they go back to are those of the requests that were past their check when
  the new one was set; no refresh let in later revives another one, and the next
  password ends these as well. `TypeOK`.
* **`WebSession_ends`** (fairness): `FetchEnds`, every request of a page ends.

The sessions that `OldSessionsSpared` names do survive: a login compares the old
password, or a refresh finds its token live, and inserts a token after `ResetPassword`
has revoked what there was. The comment of that function (`auth/service.go:404-406`)
says that the sessions issued under the old password end; that is `OldSessionsDead`,
kept in the module, which does not hold. A token goes back to an earlier password
(`outdated`) if it was issued before the password was set, by a request past its check
by then, or in exchange for such a token.

With two tabs, which share the storage and not the promise, `SessionsUnforked` and
`StoredIsCurrent` are false.

### Bounds

| Module | Bounds | Why they are enough |
|---|---|---|
| all | two slots | any pair of handlers in any interleaving, which is what check-then-act needs; more slots, units and tokens are what the theorems are for |
| `Acceptance`, `StageSignOffs` | one unit | no statement of these handlers reads or writes a second one |
| | `MoveTargets` | a column before, and one after, those the handlers write |
| | two Branch Manager links, or one of each kind with two slots | an older and a newer link at once; two slots can hold the same link |
| | `MaxPhotos` 1 instead of 3 | the limit is reached by one photo |
| `Dockets` | two units, or one with two slots | with two the loop has a first, a last and a cut in the middle |
| | `MaxDockets` 1 | a second docket makes a unit's earlier one stop counting, which `ReadyToLeave` takes into account; with one unit and two dockets the properties of `Dockets_one` hold as well |
| `HardwareUnits` | three units, two serial numbers, one item, `MaxQty` 2, `MaxPurges` 1 | a unit in use beside one being created and one refused; a wipe meets both |
| `Defects` | three units, `MaxReports` 1, no items | the defective unit and two replacements for it; the stock a replacement takes is `Units`' matter. Receipts are recorded for the units that have a report |
| `Access` | two users, `RoleSets`, one link, one address, `Limit` 1, `Window` 2, `TTL` and `MaxAge` 1, `MaxTime` 2 | a role is taken away, outlives its token and lapses; attempts fall out of the window. The first administrator is not edited |
| `Network` | three units, two sites, two names, one address | two clashing units and one that makes the look-up fail |
| `WebSession` | three tokens, one new password; two and none for `FetchEnds` | a session refreshed twice, or once beside a second login; what ends a request does not depend on which token it presents |

Quantities entered are from `0 .. MaxQty`: `items.qty` has no `CHECK`, but the form
(`web/src/pages/AdminPage.tsx:878`, `:940`) asks for a number that is not
negative. Units, serial numbers, slots, names and requests that the specifications
do not tell apart are symmetry sets of the safety runs; no liveness run uses symmetry. In `WebSession` an access token just issued
does not expire before the repeated request arrives.

Deadlock is checked in every run; a slot can always start some request.

### Fairness

Safety runs assume none. `FairSpec` of `Acceptance`, `StageSignOffs` and `Dockets`
assumes

* weak fairness, per slot, of "the request continues or is cut short": a request
  cannot stay open, the 30 s timeout ends it;
* strong fairness, per unit, of each step of a sync: people who see a card in the
  wrong column drag it forward, which makes the page call `SyncBoardColumn`
  (`BoardPage.tsx:396-414`), they do so again if it fails, and not every attempt
  is cut short. This is an assumption about users that the code invites: the
  comment of `SyncBoardColumn` names it as the remedy. The liveness properties say
  that the remedy works, and one of them that it does not.

`FairSpec` of `WebSession` assumes that the server ends every request (the same
timeout), that the browser reports each answer or its absence, and, strongly,
that a request whose answer has come goes on: strongly because it may need one of
the two slots, which the real server has no lack of.

## 4. What is proved

The theorems hold for any units, slots, tabs, requests, tokens, users, links,
sites, items and bounds that satisfy the named assumptions: `UnitsAssumption` and
`MoveTargetsAssumption` (`Board`), `TokensAssumption` (`Acceptance`),
`StagesAssumption`, `MaxPhotosAssumption`, `SlotsAssumption` (`StageSignOffs`;
finitely many slots), `MaxDocketsAssumption` (`Dockets`), `UnitsAssumption`
(finitely many), `ItemsAssumption`, `SerialsAssumption`, `BoundsAssumption`
(`HardwareUnits`), `NetworkAssumption`, `LimiterAssumption`, `AccessAssumption`,
`RoleSetsAssumption`, `BoundsAssumption` (`Sessions`) and `NoSlotAssumption`
(`WebSession`). No theorem supposes that requests do not overlap at all, but some
exclude the overlaps that break what they state in the code:

* `SubmitsApart` (`Acceptance_proofs`): no two submissions of one link are past the
  look-up at a time;
* `MovesApart`: a backward move that is about to write the column or to delete the
  record meets no request about to close that unit's stage;
* `AddsApart` (`Dockets_proofs`): while a docket is about to be dispatched no other
  request is adding a unit to it;
* `NoLateRecord` (`StageSignOffs_proofs`): no Stage 1A record is saved between the
  two statements of an `encoded` step of its unit;
* `OneTab` (`WebSession_proofs`): the page is open in one tab.

The first three are stated as `Spec /\ []MovesApart => ...`: of every behaviour in
which the condition always holds, whatever else overlaps. `NoLateRecord` is a
condition on steps. A server that handles one request at a time meets all of them
but the last, which is about the browser (`OneSlotSuffices`, `OneRequestAtATime`,
`AloneIsNeverLate`); this is what the runs with one slot check. Section 3 says how
each property fails where its condition does not hold: none of the conditions can be
dropped. The other theorems are unconditional; where the property they state names
the overlaps that may break it, the theorem says that there are no others.

| Module | Theorem | States |
|---|---|---|
| `Acceptance_proofs`, `Dockets_proofs` | `TypeCorrect`, `LedgerImplemented`, `AlwaysBacked` | `TypeOK`; the refinement of `BoardLedger`; `AdvanceBacked` |
| `Acceptance_proofs` | `StagesCloseOnSignature`, `SignaturesAreKept`, `ResetsHold` | `ClosedOnSignature`, `SignatureKept`, `ResetHolds` |
| | `EveryLinkSignsOnce`, `MovedBackIsSignedAgain` | `LinkSignsOnce` under `SubmitsApart`, `ReacceptedAfterReset` under `MovesApart` |
| `Dockets_proofs` | `DraftsUnsent`, `SentDocketsAreKept` | `DraftIffUnsent`, `SentDocketKept` |
| | `HistoryIsTrue` | `TrackedMeansHandled` under `AddsApart` |
| `StageSignOffs_proofs` | `TypeCorrect`, `StaleReadsAreHarmless`, `InspectedPictured`, `PhotosBounded` | `TypeOK`, `StaleReadsHarmless`, `InspectedWasPictured`, `PhotoOvershootBounded` |
| | `LedgerImplemented` | under `NoLateRecord`, the refinement of `BoardLedger` |
| `HardwareUnits_proofs` | `TypeCorrect`, `StockIsConserved`, `ImplementsLedger` | `TypeOK`, `StockConserved`, the refinement of `StockLedger` |
| | `DefectsTypeCorrect`, `ReportsAreTruthful`, `ReplacementsExist`, `ReplacementsAreLinked`, `RetiredIsPurged` | of `Defects`: `DefectTypeOK`, `ReportTruthful`, `ReplacementExists`, `ReplacementLinked`, `OnlyRetiredPurged` |
| `Access_proofs` | `TypeCorrect`, `LoginsBounded`, `RolesDoLapse`, `LinksBounded` | `TypeOK`, `WindowBounded`, `RolesLapse`, `LinkUsesBounded` |
| `Network_proofs` | `TypeCorrect`, `AddressesStayApart` | `TypeOK`, `AddressesApart` |
| `WebSession_proofs` | `TypeCorrect`, `OldSessionsEnd` | `TypeOK`, `OldSessionsSpared` |
| | `OneTabUnforked`, `OneTabCurrent` | under `OneTab`: `SessionsUnforked`, `StoredIsCurrent` |

**Common ground.** `Board_proofs` states what every handler shares: how a slot
moves on (`FinishReq`, `GotoReq`, `BeginReq`), and that the board requests keep
`SyncOK` and `SyncGranted` and are steps of `BoardLedger` (`MoveSteps`,
`SyncSteps`), given that a readiness query says yes only of what has been granted.
`SyncGranted` - a slot at `sync.write` has its grant - is the point: the sync
writes what it read two statements earlier, but grants are never taken back, so
no other request can disturb it. `BackedStep` is the abstract half: a step of
`BoardLedger` leaves every unit backed.

**Acceptance.** `TypeOK` is not inductive: `used` being a subset of `shared` needs
that a request about to sign holds a token that was handed over, and `shared`
being a subset of `minted` that a request about to share holds one that was
generated. `HeldOK` says so, and `TypeInv` is `TypeOK /\ HeldOK`. For the
refinement `GrantInv` adds that a slot at either statement of `finalizeIfComplete`
serves a unit whose sign-offs have been granted, and that a row with a signature
has its grant.

The other five theorems rest on one classification. `Does` lists nine kinds of
step - a signature is written, a link drawn, stored or handed over, a record marked
closed, a column entered, a unit moved back, its record deleted, or nothing but the
request's own place changes - and `StepDoes` proves that every action is of one of
them. `ElsewhereKept`: a step about another unit changes nothing that is under way for
this one. Three theorems then follow step by step, with no condition and no invariant
but `TypeInv`, because their properties are inductive as they stand:

* `SignatureKept`: a link request comes to be pending only if the signer has not
  signed.
* `ClosedOnSignature`: a record is closed, and a unit completed by the server, only
  by a request that has set out to, and a request sets out to only on a signature that
  is there (`ClosesOnSignature`); one that no link is about to erase survives every
  step but the deletion of the record (`FirmStays`). That the property speaks of
  requests about to close a stage, and not of closed stages alone, is what makes it
  inductive: `finalizeIfComplete` closes on what it was given, not on what is there.
* `ResetHolds`, from `ClosesOnSignature` too: nobody sets out without a signature.

Two need an invariant of their own, and the absence of an overlap:

* `OwedInv`, for `ReacceptedAfterReset`: a unit that owes a signature has none, or its
  record is about to be deleted, and no request is about to close its stage.
* `LinkInv`, for `LinkSignsOnce`: a link in a record was generated for that signer and
  unit alone, and if it has been used its signature is there (`LinkOK`), so that a
  link that outlives its record, or is replaced in it, signs nothing; a token about to
  be stored has been given to nobody, one about to sign has not signed (`HeldLinkOK`);
  no two requests draw the same token (`Drawn`).

**Stage sign-offs.** The invariant has three parts. `FormsOK`: a row that has all
its steps, or is signed off, has its grant. `WorkFine`: what a request knows - one
that read back a complete row, or is about to close or advance, works on a unit
with the grant. `PhotosOK` counts the photos and the uploads that have passed the
limit's check together: each upload under way is a slot, and a slot that checks
sees fewer than `MaxPhotos`, which is where the bound `MaxPhotos + n - 1` comes
from. For the refinement `Prepared` says that an `encoded` step that finds a record when
it reads back has signed it, so that the unit has its grant. `NoLateRecord` is what
keeps it: otherwise the row may have been inserted after the `UPDATE`. Every other
step of every handler is a step of `BoardLedger` without it.

**Dockets.** The invariant `Inv` needs, besides types: `JobFine`, what a request
knows of its docket (it exists; a receipt's docket was dispatched; the units its
loop has left have their grant), and `ShippedOK`, the units of a docket that was
dispatched and received have their grant. `JobFine` holds of requests begun from
pages that were true once, because nothing is ever un-dispatched or un-received;
this is why the missing checks on the server do not break the board's promise.

`HandlingInv`, for `TrackedMeansHandled`, follows a dispatch or a receipt through its
loop. `Handling`: the units of its docket that the loop has left behind have been
checked out, or in, and the docket gains none meanwhile, since a request about to add
one works on a docket in the store. `Tracked`: a docket with the event in its history
has left the store and has the custody of all its units. A unit may be taken off at
any time, and two dispatches or receipts of one docket may run side by side.

`SentDocketKept` follows from `Inv` alone, with one lemma for each kind of step
(`AwayBoard`, `AwayItems`, ...) that a docket which has left keeps what it says
(`StaysAway`). It is `DraftIffUnsent` that keeps a new edit from being let in, and
`sent` that keeps the page from offering a second dispatch.

**Units and stock.** `IInv` says what the locks are for. `Apart`: the locks that
slots hold exclude each other. `ClaimBacked`: what a creation claimed is still there
when it commits, because nobody else changes the item's row meanwhile. `CountOK`:
what a wipe has counted
is no more than the units that are missing from stock, and exactly those unless
something overlapped it. `BooksOK` is the sum itself. The refinement needs only
the inequality, which is why it survives a torn wipe and `StockConserved` does
not.

**Defects.** `DefectInv` says of every handler that what it has read remains true or
its unit is gone (`ServingOK`): a report that was shipped stays shipped, because no
statement takes anything out of a report, and deleting the unit takes the report
with it. `ReportsOK` is the order of what a report says; `MadeOK` follows a
replacement from its creation, whose id no other request can take before it
commits, to the link: it is being linked, its request was cut short, or its report
has a link.

**Access.** `LimiterInv`: every attempt let through that is still in the window is
remembered, so a count of what is remembered bounds the window that ends now; an
earlier window was bounded when its last attempt came. `HeldInv`: a role that a
request has read was held when the request came in or later, and so was one that a
token carries, up to the token's birth. `LinkInv`: a request that will use a link
had looked it up by the time the link was first used, and it and the requests
already served are different slots' work, so there are no more of them than slots.

**Network.** `LookedUp`: a save at its write that nothing has overtaken has no
clash. `NamesApart` reduces a site to its name.

**Sessions.** The invariant adds to the types that a request works with a token
that was issued and, at its check, has not been overtaken by a new password
(`Sound`), and to `OldSessionsSpared` that a refresh past its check which goes back to
an earlier password, by its token or because the password was set since, goes on with a
session that is spared (`Spares`). A refresh that is let in needs a live token, and a
live token that goes back to an earlier password belongs to a spared session; so no
other session enters the loop. Setting the password starts anew: every token is dead
and what is past its check is spared (`PasswordSet`). The
server's rows and the client's are treated apart, `SlotKeeps` and `ClientLeft`
being the two halves.

For one tab, `TabInv` follows a session along the chain of its tokens. `EngagedOK`:
only the newest token of a session is exchanged, by one request at a time, and it is
dead before the next is inserted. `ChainOK`: of two tokens of a session the older is
dead. `StoredOK`: the stored token is the newest of its session, or the refresh that
has drawn a newer one is under way. `AwaitedOK` and `AnswersOK` tie what the tab waits
for to what the server is doing for it. Sessions of a page that was left in the
middle of a refresh are excepted throughout. That an answer which never arrives ends
the session is essential to `StoredOK`.

Only model-checked are the four liveness properties, `SignedCatchesUp`,
`SyncCatchesUp`, `ReceivedCatchesUp` and `FetchEnds`: their fairness conditions are
about ENABLED, which is out of the prover's reach. Every other property of every
run is stated by a theorem.

## 5. Not modelled

* Reporting, labels and PDF: they read and lay out.
* The audit trail: every caller discards its errors, and no handler reads it.
* Settings, form options and `UpdateUnitMetaData`: one statement replaces a whole
  document that no other statement reads.
* The manual custody entry, the free-text tracking events, the generation and
  mailing of a defect report: they append, or stamp a column nobody asks for.
* `CheckContactability`'s ping. Its write is modelled; that the stored answer
  may be about an address changed since is not.
* Photo files on disk, which are written before and removed after their row.
* The board page's drag logic: it words the sync request from cached checklists,
  and every drop ends in a reload. The other pages are forms over the requests
  that are modelled.
* Two browser tabs: what goes wrong is stated above, and nothing remains to check.
* Mail, configuration, start-up: I/O. A mail that fails is `AbortRequest` before
  `LinkShare`; `seed-admin`'s account is `First` of `Access`.

`PROJECT.json` has the same list per component.

## 6. Plan

1. A composition in which a unit goes through all stages, with the readiness
   queries answered by the stages' own tables instead of by `granted`.
2. Liveness for `Defects` (a declaration that was cut short is repeated) once the
   code has a remedy to be fair about.

To run: `tlc -config Acceptance_two.cfg Acceptance` and so on, each configuration
with the module its name begins with, but `SignOffs_*` with `StageSignOffs` and
`Units` with `HardwareUnits`; `tlapm` with each module named `*_proofs`. The
longest run, `Access`, takes about two minutes.
