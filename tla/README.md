# PartFlow in TLA+

PartFlow is a desktop point of sale and inventory program for car-parts shops:
an Electron main process that keeps the shop in an encrypted SQLite database, a
React renderer that holds the shop in memory while somebody is signed in, a
phone app that scans stock through the vendor's portal, and a carrier (Bosta)
whose news comes through a small PHP relay. This directory is its verification
project: TLA+ modules translated from the source, TLC configurations that check
them on small instances, and TLAPS proofs of the invariants that matter most.

Run everything from this directory, for instance

    tlc -workers 2 -config MCBooks.cfg MCBooks.tla
    tlapm LedgerStore_proofs.tla

`PROJECT.json` lists the components, the runs, the source lines every definition
stands for, the mutants that show each property can fail, the hazards and the
theorems. This file explains them.

## 1. The system

### Parts, state and operations

| Part | Code | State | Operations |
|---|---|---|---|
| Chunked storage | `src/src/lib/storage.ts` | `_cache` of rows, `_lastArray`, `_lastChunkCount` | `lsGet`, `lsAppend`, `lsRemoveWhere`, `lsSetBatch`, `lsSetBatchAwait`, `lsMigrateToOldestFirst`, hydrate |
| Row store | `src/electron/main.cjs` | SQLite rows `key -> json` | `set`, `set-batch`, `get`, `get-all`, `get-collection` |
| Stock-movement ledger | `src/src/store/AppContext.tsx` 777-873 | `stockMovements`: on disk oldest first, in memory a cache, newest first | append, remove by reference, replace for reference, hydrate |
| Sales | `AppContext.tsx` 1976-2472, 2572-2660, 2932-3060 | invoices, returns, cash entries, product quantities, undo snapshots | sell, receive, edit, cancel, delete, restore, return, settle dues, use credit |
| Purchases | `AppContext.tsx` 1721-1973, 2661-2747, 3063-3118; `_pure.ts` | invoices, returns, cash entries, quantity and average cost | buy, pay, edit, return, delete, restore, settle dues |
| Session | `AppContext.tsx` 874-1140 | who is signed in, whether the state is loaded, what is not flushed | sign in, lock, unlock, sign out, flush, close, reload |
| Phone stock | `features/mobile/*.ts` | one round per mounted layout | fetch, plan, apply, resolve |
| Branches | `store/AutoPartsProContext.tsx` 116-410 | a row of units per branch | transfer, consume, receive, reconcile |
| Shipping | `store/ShippingContext.tsx`, `lib/shipping.ts`, `services/bosta-webhook-hostinger` | delivery orders; rows of webhook events | submit, track, poll, acknowledge, settle cash on delivery |
| Units and pieces | `store/_pure.ts`, `AppContext.tsx`, quotation and point-of-sale pages | `quantity`, `looseQuantity` | sell, edit, return, cancel, delete, restore by the unit and by the piece, convert a quotation, correct |
| Cashier shifts | `AppContext.tsx` 2470-2570, `_pure.ts` | shifts, the `shiftId` of entries and invoices | open, close with a count, stamp every cash entry |
| Stocktakes | `AppContext.tsx` 2750-2800, `StocktakeDetailPage.tsx` | drafts, the page's unsaved counts | start, count, save, confirm, delete |
| Backup and restore | `AppContext.tsx` 3278-3580, `SettingsPage.tsx` | the files, the pending reload | export, back up to a folder, at start-up, on closing and inside the program, import |
| Login, lockouts, MFA | `main.cjs`, `mfa.cjs`, `rate-limit.cjs` | attempts in memory, locks on disk, challenges, recovery codes | sign in, second factor, enrol, recover, reset, lock out |
| Updates | `main.cjs`, `update-policy.cjs` | `_updateState`, preferences, skipped releases | check, download, cancel, skip, install |
| Portal: commerce sync, phone notices, cloud archive | `main.cjs` | revision last synced, notice state, archive passphrase and hash | publish, wake the phone, upload, change the passphrase |
| Licences of branches | `main.cjs`, `AutoPartsProContext.tsx` | activation codes, those with a branch, the list on disk and in the renderer | activate, create, edit, flush, back up, restore |
| Salaries, commissions, storage authorisation, code counters | `AppContext.tsx`, `_pure.ts`, `main.cjs` | lists and tables of their own | sums and checks in one step |
| Catalogue, customers, garage, search, reports, print, pages | the rest of `src/src` | records edited one at a time | forms and read-only views |

### How the parts interact

- **Renderer and main process.** The renderer writes rows with fire-and-forget
  IPC calls and reads with synchronous ones. Both use one ordered channel, so a
  read sees every write sent before it, while a power cut loses the calls that
  are still on the way. Each `set-batch` is one database transaction.
- **Two clocks of saving.** A stock movement is written at once by its own helper;
  every other collection of `AppContext` is written by an effect two seconds
  after the last change. `AutoPartsProContext` (branch rows) waits 1.2 seconds
  and `ShippingContext` saves after each render. The stores can therefore be cut
  at different points in time.
- **React.** A handler sees the values of the last render; functional updates see
  the queue. Two calls before a render read the same list.
- **Phone and portal.** The desktop polls on a timer chain, applies what it fetched
  and then reports it. The report may be lost.
- **Carrier.** The carrier posts changes to the relay, the desktop polls the relay
  and acknowledges, and also asks the carrier itself every so often.

### What is hard

Crashes between batches and between the three clocks of saving; caches that lag
behind writes; late replies; retries of what was already done; sequences of legal
calls over one invoice (return, then cancel; credit spread, then delete); values
that are clamped at zero; news out of order. `hazards` in PROJECT.json lists them
one by one at their line, with the property that covers each or the reason why
none does yet.

### What makes each part correct

- *Ledger and storage*: no crash point leaves a ledger the reader refuses; only a
  document written late stands behind a later date in a marked ledger; the cache is
  never stale; the store behaves as a log that documents append to and erase from,
  and that gives back what a deletion took.
- *Sales, purchases*: the drawer explains what every invoice says was collected or
  spent; the ledger explains the shelf; no unit comes back twice; credit is moved,
  never made, and never crosses to another customer or supplier; a return lowers
  the debt once; stock at average cost plus cost of sales is what was bought.
- *Session*: after any sequence of sign-ins, locks, closings and crashes, shelf
  and ledger agree.
- *Phone*: each scan takes effect at most once, the phone hears the truth about
  it, and it hears something in the end.
- *Branches*: a branch holds what was booked to it, and units that go missing are
  the main branch's first.
- *Shipping*: money is taken over once, only for a delivered parcel; the order
  comes to show where the parcel is.
- *Pieces*: however cartons are opened, the shop holds the pieces that are not with
  customers, and a branch loses the pieces it sold and no more.
- *Shifts*: the cash expected in a drawer is what its own cashier took and gave.
- *Stocktakes*: an applied count leaves in the books what was counted.
- *Backups*: a backup's movements explain its own stock; a restore survives the
  reload that follows it.
- *Login*: a code opens something once; a lock ends with its time and not sooner.
- *Updates*: a skipped release stays away; the shop is shut only for a release that
  is down and verified.
- *Portal*: what the program believes is published is published; the phone is never
  told of what it cannot see; the archive opens with the passphrase on record.
- *Licences*: a branch that was paid for stands, and none stands unpaid.

## 2. The modules

    ChunkLayout  <-  LedgerStore  <-  LedgerStore_proofs
                     LedgerStore  -- implements -->  StockLedger
    CreditPool   <-  SalesLedger, PurchaseLedger  <-  MCBooks
    ShopSession  <-  MobileStockOps  <-  MobileStockOps_proofs
    ShopSession  -- INSTANCE -->  ShopBackup  <-  MCBooks
    SalesLedger  <-  SalesLedger_proofs
    MCBooks      <-  Books_proofs        (purchases, backups, the books together)
    BranchStock, SignIn, SoftwareUpdate, PortalSync, BranchLicence,
    StockCount, CashierShift, PieceStock  <-  MCShopOffice
    SignIn       <-  SignIn_proofs
    MCShopOffice <-  Office_proofs       (the other seven, and all eight together)
    ShipmentTracking  <-  ShipmentTracking_proofs
    FiniteSums   <-  every module of proofs but SignIn_proofs
                     (folds, sums and induction over finite sets)

`<-` is EXTENDS. Every `MC...` module gives specifications the constants of an
instance. Operators whose comment begins "Mutant of" are not part of the model:
each states one plausible bug, and PROJECT.json names the property that fails
when it takes the place of the definition that follows it.

**ChunkLayout** is the format of a chunked collection: rows keyed `meta`, `legacy`,
`order` and `chunk(i)`, the reader (`readChunked`, `lsGet`) and, as pure operators,
the batch of rows each writer sends. `Without` and `Only` are the two filters by
document, folds as in the loop of `lsRemoveWhere`; `OldestFirstOrder` is the sorted
ledger, whose i-th movement has i - 1 older ones, by the document's date and then by
number. `CanMigrate` is false where the sort would compare a date that cannot be
read: nothing is marked then, and the sign-in fails. `a ++ b` overlays the rows of `a` on `b`
(`writeRows`, and a database that applies a batch).

**LedgerStore** is the ledger in motion. `images` holds the database now and after
each batch on its way, so `Deliver` commits one batch and `Crash` drops the rest;
`cache`, `lastArray` and `lastChunkCount` are the module variables of storage.ts,
`list`, `hydrated` and `fetch` the React list and a hydrate that is under way.
`Login` is `finalizeDesktopAuthentication` with the migration of old ledgers, and
serves for unlocking too; `LoginRefused` is the same when the ledger cannot be
sorted. Its awaits are one step, because nothing else touches the ledger before they
are over, and a cache that cannot be reloaded fails the sign-in and changes nothing
modelled here. A document carries the date the user typed. `Record` (a new
invoice, return or adjustment), `Restore` (a deletion undone) and the second half of
`Replace` (an edit) all append at the end, whatever the date; `Erase` and `Replace`
act on a document that is on file, and every movement of a document has one kind.
`snapshots` is what the audit log keeps of a deleted document until it is restored.
The documents themselves are not in the module: after a crash they are taken to be
those whose movements are on disk, and the snapshots to be saved; how documents and
movements part in a crash is ShopSession's question.

`books` and `backdated` are history variables: what the documents on file wrote, in
the order of writing, and which movements were written behind one with a later date.
So `MarkerHonest` does not say that a marked ledger is in date order. It is not: a
return of today for a sale of last year is fine, but an old invoice entered, edited
or restored today stands after newer ones. `scripts/verify-ledger-integrity.cjs:98`
says so ("Storage order is INSERTION order ... a date inversion by design"); the
comment of `lsSliceReversed` (`storage.ts:507`, "Records are appended in chronological
order") says otherwise, but no screen calls that function. The property says that
such a document is the only way to an inversion: the migration sorts by date, and
removals, edits of other documents, crashes and sign-ins add none.

**StockLedger** is the abstract promise: a log that documents append to and erase
from, written asynchronously but in order, cut by a crash to what had landed; a
deletion can be undone once, with the very same movements. The
refinement reads each database image with `lsGet`; an image that the reader refuses
would read as an empty log, which the abstract log never becomes by itself, so the
refinement also says that no crash point leaves an unreadable ledger. `Sort` says
what a migration may do and not how: the same movements, ascending by date and number.

**SalesLedger** and **PurchaseLedger** have one action for each handler. One product
is enough, because the handlers treat lines product by product; what several
products would add is the same sum again. Cash entries and movements are kept as
sums by document, those of returns apart, because deleting an invoice does not
touch them. **CreditPool** is the arithmetic both share: how a pool of credit is
applied to targets in date order and taken from its sources. Average cost is an
exact fraction; the code keeps a floating-point number that it does not round,
so the model shows the intended value and not the last digit.

**PieceStock** is a product sold by the carton and by the piece: closed units and
loose pieces (`applyPieceAddition`, `applyPieceDeduction`), invoices with a line of
each, and the rows of two branches. Rows are counted in pieces, so that what a
quotation charges, a fraction of a unit, is a number. Cancelling and
deleting net what was returned (`alreadyReturned`) off the lines of a product one
after another, cartons and pieces alike; `Restorable` does the same.

**ShopSession** is the renderer's life seen through one product's quantity, on
screen (`stock`) and on disk (`saved`), against the sum of its movements.
**MobileStockOps** composes it with the phone: `rounds` has one round per mount of
the hook, because `runningRef` lives with the mount, and `PortalReads` and
`PortalResolves` are the portal as the desktop uses it. `unheard` remembers the
scans whose report was lost.

**ShopBackup** composes the same session, as an instance, with the three kinds of
backup and with `importBackup`. The list of movements in memory is a variable of
its own here: it is empty until a screen asks for it, while a closing or reloading
window writes it over the ledger on disk. `reloading` is the 900 ms between a
restore and the reload of the page. A file sealed with a passphrase is not opened:
the export writes envelope version 3, and `importBackup` asks for 1 or 2
(`AppContext.tsx:3427`), although `src/electron/backup-crypto.cjs` says of 2 and 3
that whatever branches on them must treat them alike.

**BranchStock** has the product's quantity and the branch rows, kept by two
contexts, with `Render` as the commit in which the reconciler runs and the
transfer lock clears, and one flush per context. `booked` is a history variable:
receipts less sales plus recorded transfers. The order in which the reconciler
visits the branches is left open.

**BranchLicence** has the two owners of the list of branches: main creates a branch
for an activation code and refuses a list with a branch it does not know, and the
renderer writes its whole list back 1.2 seconds after an edit. `created` is the
answer that is still on its way to the renderer.

**StockCount** has the shelf beside the books. The page keeps counts of its own until
they are saved, a handler reads the stocktakes of the last render, and the shop
trades and loses units meanwhile. `lost`, `lostBefore` and `difference` are history
variables.

**CashierShift** keeps the entries one by one, because deleting an invoice takes its
entries away and restoring it brings them back. `till` is a history variable: what
the shift's cashier really took and gave.

**SignIn** has one window that waits for every answer, so a handler of the main
process is one step. Locks and consumed codes are on disk, attempts and challenges
in memory, and `Relaunch` forgets the latter. Time is counted in periods of the
authenticator; `last_used_counter` is one of them.

**SoftwareUpdate** has one record, `_updateState`, that checks, transfers and clicks
write in whatever order they come. `transfer` is electron-updater as `main.cjs` uses
it: one at a time, a second call joins the first.

**PortalSync** splits each upload into sending, storing and answering, any of which
may be the last that happens. The hash of an archive is taken over a plaintext that
holds the moment of its capture, so that no upload is ever spared; the model
follows the code, and the comment at `main.cjs:6338` the intention.

**ShipmentTracking** is one order, the parcel, the relay's table and the two ways
news comes. Every await is split in an asking and an answering action. `desk` is a
history variable.

## 3. The runs

| Run | Specification | Shows | Distinct states |
|---|---|---|---|
| `ledger` | `SteadySpec` | no inversion but by a late document, cache coherent, list right, refinement of StockLedger | 397,235 |
| `ledger_close` | `ClosingSpec` | **fails**: closing signed in writes the in-memory list over the ledger | about 400 |
| `books` | `BooksSpec` | money, credit, stock, debt and cost of sales and purchases; backups reconcile | 1,875,985 |
| `sales_settle` | `SettlingSpec` | **fails**: settling re-adds what a return took off | about 1,600 |
| `purchase_edit` | `PurchaseEditingSpec` | **fails**: editing after a return unbalances the ledger | about 300 |
| `shop_signout` | `SigningOutSpec` | **fails**: signing out within two seconds of a sale | about 50 |
| `shop_restore` | `RestoringSpec` | **fails**: the reload after a restore empties the restored ledger | about 360 |
| `mobile` | `FairRetrySpec` | shelf, ledger and phone agree although reports are lost; every scan is answered | 60,123 |
| `mobile_retry` | `RetrySpec` | **fails**: a lost report is applied again | about 11,000 |
| `office` | `OfficeSpec` | branches, sign-in, updates, portal, licences, counts, shifts, pieces | 1,352,669 |
| `stocktake_apply` | `UnsavedSpec` | **fails**: confirming a count applies the quantities of the last render | about 260 |
| `shipment` | `Spec` | money once and only when delivered, tracking catches up | 609,641 |

The states of a failing run are those seen until the counterexample. The seven
failing runs are findings: the code does something that a comment, a test or the
README of the repository says it does not. `findings` quotes both.

`books` and `office` are sums, not products: their initial states pick one part,
only that part moves, and the others stay as they began. The parts share no
variable, so a product would show nothing more; the sum asks each part's questions
in one run. The properties of a part that stands still hold of its initial state.

### Bounds, and why they are enough

- `ledger`: chunks of two records, numbers for four movements, two documents, at
  most two batches in flight, restores onto fewer than two chunks (`MaxChunks`). A
  document can span two chunks, a chunk hold two documents, a removal empty a chunk
  and leave the next one under-full, an edit send two batches and be cut between
  them. The shop starts with nothing, with an old ledger of two or three movements
  dated 1 and 3 that must be sorted, or with one that has a date it cannot read. New
  and edited documents are dated 2: before some old movements and after others, so
  that recording, editing and restoring can all come late or in time.
- `books`, sales: two customers, three invoices, one of up to two units, price 1.
  Three invoices let one credit be spread over two, or two credits pay one; two
  units let an invoice be returned in part. `sales_settle` needs one customer.
- `books`, purchases: two suppliers, two invoices of up to two units at price 1 or 2,
  beside one unit on the shelf, so averages are proper fractions.
- `books`, backups: three units, sold one or two at a time; the last file of every
  kind, so that a restore may go back behind a later sale.
- `mobile`: three scans (`FairScans`: an addition, a removal and a count; quantities
  in thousandths, so that rounding matters), batches of two so that a later scan waits
  for the next round; `mobile_retry` adds one of an unknown part. One mount of the hook is enough, because nobody signs out during a round
  there; `mobile_retry` has two.
- `office`, branches: the main branch and two equal ones, two units at first and at
  most three.
- `office`, sign-in: an owner and a clerk, locks after two mistakes, of one period
  and then two; sheets of one recovery code, three secrets or sheets, two periods
  after the first. A code can be current, one period late and too late; a lock can
  run out and come again, longer.
- `office`, updates: a normal and a critical release, so that either can overtake a
  check or a transfer of the other.
- `office`, portal: three saves, two alerts, two passphrases: a save before, during
  and after an upload, and an alert that changes between two notices.
- `office`, licences: three codes, a founding branch beside the main one, and a
  stranger from another shop's file.
- `office`, counts: two stocktakes, three units, two losses.
- `office`, shifts: an owner and a clerk, two shifts, one sale, two cash entries
  beside what a restored invoice brings back.
- `office`, pieces: two pieces to a unit, one unit at each of two branches, two
  invoices of up to a unit and three pieces, one piece of correction either way.
  Three pieces open a unit and leave a loose one.
- `shipment`: three moves of the parcel, through a failed attempt, a return, a
  delivery or a code the shop does not know; one crash; an invoice of one.

The constants named `Max...` are bounds of the model alone (but `MaxAttempts` of
SignIn, which the code has), as are `Forgetful` and `slips`, which decide who
mistypes what. `CHECK_DEADLOCK FALSE` stands where a bounded shop really comes to
an end: the last invoice issued and deleted, the last release installed, the last
period passed, the last unit sold. The other runs check deadlock. Customers,
suppliers and the branches other than the main one are interchangeable, which the
runs use; no symmetry is used where a liveness property is checked.

### The ordinary day, and what it leaves out

Some calls the program allows break a property by themselves. To check that
everything *else* keeps the property, the ordinary next-state relation leaves such
a call out under a guard with a name, and the call stays in PROJECT.json as a
finding (with a run of its own) or as a hazard.

| Guard | Leaves out | Kept as |
|---|---|---|
| `fetch = Nil` in `LedgerStore!SteadyNext` | a document saved while a screen's hydrate is on its way: the late reply puts old rows in the cache | hazard |
| `CloseSignedIn`, `Reload` not in `SteadyNext` | closing or reloading signed in | finding, hazard |
| `SettlesPlainly` | settling over a returned or a carrier-collected invoice | finding, hazard |
| `EditKeepsReturns` | editing an invoice below the units returned | hazard |
| `RestoreFits` | restoring a deleted invoice whose units were resold | hazard |
| `sentBack[n] = 0` in `EditFresh` | editing a purchase that has a return | finding |
| `Unwinds` | undoing a purchase whose units were sold: the value is clamped at zero | hazard |
| `avgCost = price` in `RestoreAnyPurchase` | restoring a purchase at another price than the average | hazard |
| `~dirty` in `CalmNext`, `BackupNext`, `RetryNext` | signing out, unlocking or losing power inside the two seconds | finding, hazards |
| `Whole` | a closing, a reload or an automatic backup that writes a list of movements no screen has hydrated | finding, hazards |
| `OlderThanSales` | restoring to the end a file made after the first sale | finding |
| `NoRound`, `session # "unlocking"` | a phone round that outlives a session, two rounds at once, a round under an unlock | finding, hazard |
| `PiecesFromMain` | pieces of another branch sold at the counter, which are charged as whole units | hazard |
| `LeavesReturned`, `StillThere` | the same as `EditKeepsReturns` and `RestoreFits`, by the piece | hazard |
| `NetsLikeWithLike` | cancelling or deleting after pieces came back and not all the cartons: pieces are netted off the carton line | hazard |
| `CorrectionFits` | a correction below zero, which is clamped | none: the screens ask for what is there |
| `SavedFirst` | confirming a count that the page has not saved | finding |
| `OneOpen`, `NothingTraded` | two counts of one product at a time; counting a shelf whose books have moved since the start | hazard |
| `OwnShift` | a cashier without a shift who moves the cash of a shift's invoice | hazard |
| `NoneUnderWay` | skipping a release while one comes down or is down | hazard |
| `SameRelease` | a newer release found during a download | hazard |
| `CancelReaches` | cancelling a download that was joined, not started | none: it cancels nothing |
| `NoArchiveUnderWay` | changing the passphrase during an upload | hazard |
| `NoEditPending`, `NoAnswerPending` | editing the list of branches around the creation of one | hazard |
| `KeepsBranches` | restoring a file from before a paid branch | hazard |
| `MoneySaved` | a power cut between an order's settlement and its receipt | hazard |
| `order.tracked` in `CarrierMoves` | a parcel that moves before `createDelivery` has answered | hazard |
| `pending => busy` in `Click` | other actions between a transfer and its render | none: clicks are the only input that fast |

Each guard was found by running the model without it and reading the
counterexample against the code.

The carrier never takes back a delivery: `ShipmentAssumption` lets no move leave
code 45, and the instance of `shipment` ends at delivered or returned.
`SettledMeansDelivered` therefore says that the desktop never runs ahead of the
carrier, not that the carrier is right.

Hazards the list of PROJECT.json has no room for, at their lines:
`main.cjs:5371`, a `set-batch` that skips a refused key and commits the others
(`ImportBackup` has the refusal, and the properties hold of it); `main.cjs:2643`,
scans the main process drops as malformed, which stay pending on the phone;
`main.cjs:4080`, a window destroyed after six seconds of flushing, which is a
`Crash` here; `ShippingContext.tsx:577`, the lost answer of `createDelivery`, after
which an order has a parcel it does not know; `AppContext.tsx:2480`, two openings of
a shift before a render.

### Fairness

- `MobileStockOps!Fairness`: weak fairness on `Ask` and `Answer`, since the hook's
  timer chain sets the next timer whenever a round has ended and the renderer
  handles a reply that has come; strong fairness on the portal's two steps, which
  says that calls that are made again and again do not fail every time. Nothing
  is assumed of people: scans, sales, sign-ins and locks have no fairness. The
  property gives up a scan when the desktop leaves the signed-in state.
- `ShipmentTracking!Fairness`: weak fairness on the two timers and on handling
  replies, strong fairness on a tracking call and on an acknowledgement for the
  same reason. The carrier, its posts, crashes and people have none.

## 4. The proofs

TLAPS checks eight modules. Between them they prove every safety property that a
passing run checks, and the refinement of StockLedger, for all values of the
constants: any numbers of customers, invoices, branches, users and scans, any
prices and stocks, any chunk size, and every bound.

### What is assumed

Nothing but the named assumptions on constants, which TLC evaluates in every run
whose module extends theirs. Most say that a bound is a number. Those that say more:

| Assumption | Says | Because |
|---|---|---|
| `LedgerAssumption` | an old ledger numbers each of its movements once; a date that can be read is a natural number; a missing row and the tombstone are no ledgers | every record has an id of its own; the tombstone is not JSON of a list |
| `ChunkSizeAssumption`, `NilAssumption` | a chunk holds at least one record; the order marker differs from a missing row | constants of `storage.ts` |
| `SalesAssumption`, `PurchaseAssumption` | prices and the opening cost are positive | an invoice over nothing owes nothing from the start |
| `BranchAssumption` | finitely many branches, the main one among them; the opening stock is within `MaxStock` | the list of branches |
| `LicenceAssumption` | founding branches, those made for codes and strangers' branches are different; `NoBranch` is none of them | a branch is given a random id when it is made |
| `ShiftAssumption` | no invoice is called "manual", the reference of entries made by hand | ids of invoices are generated |
| `SignInAssumption` | a lock lasts at least one period; the owner is a user | `main.cjs` |
| `ShipmentAssumption` | the carrier leaves a delivered parcel delivered | not the code's doing: what is assumed of the carrier |
| `MobileAssumption` | a scan adds, removes or counts a natural number of thousandths; a batch holds at least one | `mobileStockOps.ts` |

### How they go

Hardly any property is inductive as it stands. Each part has an invariant that is: the
property, the types, and what the handlers rely on without saying so. Each action
has a lemma of its own, a `Step...` lemma puts them together, and the theorem of
the property follows from that of the invariant. Where TLC can evaluate an invariant
it was tried on a run before it was proved.

**LedgerStore_proofs** has two. `IInv` (of `WindowSpec`: closing and reloading signed
in as well) is behind `TypeCorrect` and `CacheNeverStale`. `CacheCoherent` alone is
not inductive: a migration writes over the rows it has just read, a hydrate reply
overwrites the cache with rows read earlier, and a crash puts the disk back. `IInv`
adds `Readiness`: a session is ready only over a ledger that carries its order
marker, only a shop that has not migrated yet may lack it, and a reply under way is
what the database will hold.

`LedgerInv` (of `SteadySpec`) is behind the rest. Of every image, on disk or in
flight, `RowsRight` says that the ledger it holds can be read; that before it is
marked no number stands twice, or the sort would lose movements; and once marked,
that it has no inversion of dates but by movements in `backdated` (`InOrder`) and is
whole: the manifest counts the chunks that are there, and all are ledgers (`Holds`).
`ListRight` and `BooksRight` relate the list and the books to the last image, and
`SnapshotsRight` says that what deletions left is itself `InOrder`. This is what
carries the dates through: what the migration sorts has no inversion (`SortedInOrder`),
what a removal keeps or takes out has none it did not have (`WithoutInOrder`), and a
join adds none but those in `Late` (`InOrderCat`). Each writer then has a lemma about one set of rows (`AppendRight`,
`RemoveRight`, `MigrateRight`): what `lsGet` reads after the batch is what it read
before, with the new movements at the end, without the document's, or sorted. These
rest on an algebra of ledgers (`Cat` and `Log`: joining, reversing, taking a document
out, and how one passes through another) and of chunks (`Pre`, `Slice`: the first j
chunks and the next one are the first j + 1). From it follow

- `MarkersHonest`, `ListsAgree`: no chunk size, no dates and no sequence of documents,
  edits, restores, crashes and sign-ins puts a movement behind a later date but where
  a late document wrote it, or makes a screen show part of a ledger;
- `BooksKept`: as long as no window closes or reloads signed in, the ledger read is
  that of the documents on file (`ledger_close` shows what closing does to it);
- `StoreImplementsLedger`: `SteadySpec => ImplementsLedger`, one lemma per action.
  Recording, editing, deleting and restoring have abstract actions of the same names; a sign-in over
  an unmarked ledger is `Sort`; a commit is `Persist`, and so is a window that closes
  signed out and waits; a crash is `Crash`; the rest is stuttering.

**SalesLedger_proofs.** The heart of `SalesInv` is `Fine`: what an invoice says of
itself agrees with the returns, refunds, movements, cash and credit filed under its
number; the same of a deleted invoice's snapshot, and nothing is filed under a number
never issued. All actions but a sale and a settlement touch one number, so it is enough
that what they write there is fine and that the shelf moves as the movements do.
Settling spreads a pool over several invoices: what it takes from the sources is what it
gives to the targets (`TotalFromTheOldest`, `TotalFromTheNewest`). Hence
`MoneyAlwaysAccounted`, `CreditAlwaysConserved`, `AlwaysOwedOnce`,
`StockAlwaysExplained` and `NeverAUnitTwice`.

**Books_proofs** does the same for purchases (`WellFiled`, `OneNumber`), and keeps their
cost apart: `CostInv` says, without dividing, that the stock at its average cost and
the sales at cost are together worth what was bought. Every handler multiplies
fractions, which the provers do badly, so the arithmetic is a few lemmas about
integers. For backups,
`StockIsExplained` and `DiskIsExplained` are the two halves of the session's
invariant and `UnlockIsClean` covers the automatic backup in the middle of an unlock; a
restore puts a reconciled file back, so the invariant returns to itself.
`BooksTypeCorrect` is of the sum that the run checks: each book's steps are stutters
of the others (`EachBookAlone`).

**MobileStockOps_proofs.** `ShopInv` is the session: `DiskExplained` says that the disk
is explained too whenever no flush is due, which is what a sign-in needs. `QueueInv`:
the portal's queue has each scan once. `ScreenInv`: only the mount on screen has a
round under way. `TruthInv`: what a round holds is pending still, its results say what
it did, and a scan that was applied and is pending was either lost or is in a round that
is about to report it.

**SignIn_proofs.** That a code is good once needs that a secret is one user's, or of one
enrolment under way and never used (`SecretFine`, `AskedFine`); that what was spent
of a secret is no later than the period its user last used; and that the codes left
on a sheet are unspent and of one user (`SheetFine`). For `LockoutStands`, who was told
to wait was told the lock on disk (`ToldTheLock`).

**Office_proofs**, part by part:

- Branches: `BranchInv`. A sale and a transfer are checked against the rows of the
  last render, so those are the rows there are unless a render is due (`ScreenFresh`),
  which is what the transfer lock keeps true between two clicks; the last flush, which
  a power cut brings back, is covered too; the rows add up to the quantity unless a
  render is due; and what a render would take away, the main branch can bear.
  `ReconciledCovered` says what the reconciler does to the others.
- Pieces: `PieceInv`. What came back of an invoice was on it, and the rows hold the
  closed units between them once they have settled. `applyPieceDeduction` divides;
  the lemmas say what is left of units and pieces.
- Shifts: `ShiftInv`. Every entry is of a shift that was opened, or of none, like its
  invoice; a deleted invoice's entries are in its snapshot and nowhere else; the till
  is the opening float and what the entries brought.
- Counts: `CountInv`. There is at most one draft, the books never hold less than the
  shelf, and what was counted, saved or still on the page, differs from the books of now
  by what had been lost when it was counted and what was traded since.
- Updates: `UpdateInv`. No place a release can be installed from holds a skipped one,
  what is offered is newer than what runs, and the artifact that comes down is that of
  the release on record.
- Portal: `PortalInv`. What an upload holds was read from rows that may have been saved
  since: `MirrorInv` bounds its revision, lets equal revisions only be equal contents,
  and says what the portal holds at each stage; `SealInv` says that an upload under way
  is sealed with the passphrase of now.
- Licences: `LicenceInv`. The renderer's list is the stored one but for the branch whose
  answer is on its way, and while one is, no edit waits for its flush.
- `OfficeTypeCorrect`: the eight parts together keep their types.

**ShipmentTracking_proofs.** `NewsInv`: all news, in the relay, acknowledged or under
way, is of what the carrier posted, and once it has posted a delivery it stays there.
`OrderInv`: no order, in memory or on disk, says more. `MoneyInv`: the drawer holds what
the desk took and what the order settled, and no more than the invoice.

**FiniteSums** has the facts about folds the others cite. Since an operator cannot be a
parameter of a lemma that is used, induction is over a set `Good` that stands for the
predicate, and a fold is tied to a function `g` on subsets by its recursion
(`FoldsPlaces`, `PlacesFold`), which says all that a proof needs of it.

### Only model-checked

- Liveness: `EveryScanAnswered` and `TrackingCatchesUp` rest on fairness and ENABLED,
  which TLAPS does not treat.
- The seven failing runs, which are counterexamples.
- That the guards of the ordinary day (section 3) are no stronger than they must be.

## 5. What is not modelled, and the plan

Built so far, in this order: (1) ChunkLayout, LedgerStore, StockLedger and their
proofs; (2) CreditPool, SalesLedger; (3) ShopSession and its proofs,
MobileStockOps; (4) PurchaseLedger; (5) BranchStock; (6) ShipmentTracking;
(7) SignIn, SoftwareUpdate, PortalSync, BranchLicence, StockCount, CashierShift;
(8) PieceStock; (9) ShopBackup; (10) FiniteSums and the proofs of every part.

Next, each with what it would cover:

11. A composition of ShipmentTracking with SalesLedger: a cancelled invoice whose
    order is still to be settled.
12. An account book that SalesLedger and PurchaseLedger implement (money and units
    in, out and on hand), and an exactly-once log for the phone.

Every safety property that a passing run checks is a theorem, so what is left to
prove waits for the two modules above: their refinements, step by step, from
`SalesInv`, `PurchaseIInv` and `MobileInv`.

Left out for good: presentation, printing, file formats, search and reports (no
behaviour over time); salaries and commissions (sums over what the invoices hold);
the table of which role may write which row (data); cryptography; services outside
the repository beyond what the desktop sees of them. They are most of the
repository's lines: the pages under `src/src/pages`, the widgets and the scripts
hold no state machine of their own. Data the models leave out: discounts, damaged
goods, payment methods, price tiers, expiry dates, and edits that change the
customer or the supplier of an invoice. PROJECT.json says so component by component.
