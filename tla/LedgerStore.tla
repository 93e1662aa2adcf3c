---------------------------- MODULE LedgerStore ----------------------------
(***************************************************************************)
(* The stock-movement ledger of one desktop shop: the renderer's ledger    *)
(* helpers (src/src/store/AppContext.tsx), the storage cache they work     *)
(* from (src/src/lib/storage.ts) and the rows the Electron main process    *)
(* keeps in SQLite (src/electron/main.cjs).                                *)
(*                                                                         *)
(* The renderer sends each batch of rows with a fire-and-forget IPC call;  *)
(* main applies the batches in the order they were sent, each in one       *)
(* transaction.  The batches in flight are modelled by the images of the   *)
(* database they will produce: images[1] is on disk now, the last image is *)
(* the disk once every batch has landed.  A synchronous read travels the   *)
(* same channel, so it sees that last image.                               *)
(***************************************************************************)
EXTENDS ChunkLayout, FiniteSets

CONSTANTS
  References,    \* documents that move stock
  Dates,         \* dates a document may be given
  StartLedgers,  \* ledgers (newest first) a shop may already have
  MaxItems,      \* bound: movements one document records at once
  MaxMovements,  \* bound: movements ever recorded
  MaxChunks,     \* bound: chunks of a ledger a document comes back to
  MaxImages      \* bound: the disk and the batches in flight

ASSUME BoundsAssumption ==
  /\ MaxItems \in Nat /\ MaxMovements \in Nat /\ MaxChunks \in Nat
  /\ MaxImages \in Nat /\ MaxImages >= 2
  /\ \A l \in StartLedgers : Len(l) \in 0 .. MaxMovements

(* A movement carries the date of its document.                            *)
Movement == [id : Nat, ref : References, date : Int]

(* Every movement has a number of its own (uid); neither a missing row nor *)
(* the tombstone is a ledger.                                              *)
ASSUME LedgerAssumption ==
  /\ Dates \subseteq Nat
  /\ \A l \in StartLedgers :
       /\ l \in Seq(Movement)
       /\ \A i \in 1 .. Len(l) : l[i].id < Len(l)
       /\ \A i, j \in 1 .. Len(l) : i # j => l[i].id # l[j].id
  /\ Nil \notin Seq(Movement) /\ Tombstone \notin Seq(Movement)

VARIABLES
  images,          \* the database now and after each batch in flight
  session,         \* "off", "signedOut" or "ready"
  cache,           \* _cache: rows the renderer believes are stored
  lastArray,       \* _lastArray: array last persisted or handed out
  lastChunkCount,  \* _lastChunkCount
  list,            \* React state stockMovements: newest first, a cache
  hydrated,        \* stockMovementsHydrated
  fetch,           \* reply of storage:get-collection on its way, or Nil
  nextId,          \* number of the next movement
  snapshots,       \* audit log: movements of a deleted document, or <<>>
  books,           \* history: movements of the documents on file, as written
  backdated        \* history: movements written behind one dated later

storeVars == <<images, cache, lastArray, lastChunkCount>>
viewVars  == <<list, hydrated, fetch>>
docVars   == <<nextId, snapshots, books, backdated>>
vars == <<images, session, cache, lastArray, lastChunkCount, list, hydrated,
          fetch, nextId, snapshots, books, backdated>>

Recorded(ref, n, date) ==
  [i \in 1 .. n |-> [id |-> nextId + i - 1, ref |-> ref, date |-> date]]

(* The invoice is found: a document on file has moved stock.               *)
OnFile(ref) == Only(books, ref) # <<>>

(* Items dated before a movement they are written behind.                  *)
Late(items, kept) ==
  {items[i].id : i \in {j \in DOMAIN items :
                          \E k \in DOMAIN kept : items[j].date < kept[k].date}}

Disk    == Head(images)
Settled == Last(images)

(* readRow: the cache first, then a synchronous read. *)
View == cache ++ Settled

(* Mutant of ViewAfter: the second of two writes works from rows read      *)
(* before the first.                                                       *)
ViewBefore(batch) == View

(* readRow again, once a batch has been put in the cache.                  *)
ViewAfter(batch) == batch ++ View

(* One call of setBatch that the main process accepts. *)
Sent(batch) == Append(images, batch ++ Settled)

---------------------------------------------------------------------------
(* The ledger a sign-in would open these rows with.                        *)
AtSignIn(rows) ==
  IF Row(rows, OrderKey) = OldestFirst THEN LsGet(rows) ELSE OldestFirstOrder(LsGet(rows))

(* What a shop's database may hold when this version is first started:     *)
(* nothing, the single legacy row, or unsorted chunks, newest first.       *)
StoredAs(l) ==
  {OneRow(LegacyKey, l),
   ChunkRows(l, 0) ++ OneRow(MetaKey, Manifest(ChunksFor(Len(l)), Len(l)))
                   ++ OneRow(LegacyKey, Tombstone)}

Init ==
  /\ \E l \in StartLedgers :
       /\ images \in {<<rows>> : rows \in IF l = <<>> THEN {<<>>} ELSE StoredAs(l)}
       /\ nextId = Len(l)
  /\ books = AtSignIn(Disk) /\ backdated = {}
  /\ snapshots = [ref \in References |-> <<>>]
  /\ session = "off"
  /\ cache = <<>> /\ lastArray = Nil /\ lastChunkCount = 0
  /\ list = <<>> /\ hydrated = FALSE /\ fetch = Nil

---------------------------------------------------------------------------
(* Sessions                                                                *)

(* Mutant of ForgetRenderer: a reply outlives the renderer it was for.     *)
ForgetRendererKeepingReply ==
  /\ cache' = <<>> /\ lastArray' = Nil /\ lastChunkCount' = 0
  /\ list' = <<>> /\ hydrated' = FALSE /\ UNCHANGED fetch

ForgetRenderer ==
  /\ cache' = <<>> /\ lastArray' = Nil /\ lastChunkCount' = 0
  /\ list' = <<>> /\ hydrated' = FALSE /\ fetch' = Nil

(* A renderer starts with an empty cache: nothing is readable before a     *)
(* session exists.                                                         *)
Launch ==
  /\ session = "off"
  /\ session' = "signedOut"
  /\ ForgetRenderer
  /\ UNCHANGED <<images, docVars>>

(* The chunk count a load leaves behind.                                   *)
Counted(rows) ==
  IF MetaKey \in DOMAIN rows THEN rows[MetaKey].chunks ELSE lastChunkCount

(* finalizeDesktopAuthentication: replace the cache by every row except    *)
(* the ledger's chunks; a ledger not yet marked oldest-first is fetched    *)
(* whole, sorted and marked; the list starts empty.  Unlocking a locked    *)
(* screen runs the same code from a session that is already ready.  The    *)
(* awaits are one step: no other code touches the ledger before they are   *)
(* over.  A cache that cannot be reloaded fails the sign-in and leaves all *)
(* of this as it was, which is no step here.                               *)
Login ==
  LET reloaded == [k \in {key \in DOMAIN Settled : key[1] # "chunk"} |-> Settled[k]]
      counted  == Counted(Settled)
      batch    == MigrateBatch(Settled, counted)
  IN  /\ session \in {"signedOut", "ready"}
      /\ Row(Settled, OrderKey) # OldestFirst => CanMigrate(Settled)
      /\ IF Row(Settled, OrderKey) = OldestFirst
         THEN /\ cache' = reloaded
              /\ lastChunkCount' = counted
              /\ UNCHANGED <<images, lastArray>>
         ELSE /\ cache' = batch ++ Settled
              /\ images' = Sent(batch)
              /\ lastChunkCount' = batch[MetaKey].chunks
              /\ lastArray' = Nil
      /\ session' = "ready"
      /\ list' = <<>> /\ hydrated' = FALSE
      /\ UNCHANGED <<fetch, docVars>>

(* The same, when the ledger cannot be sorted: it is fetched, nothing is   *)
(* marked or written, and the sign-in fails.                               *)
LoginRefused ==
  /\ session \in {"signedOut", "ready"}
  /\ Row(Settled, OrderKey) # OldestFirst /\ ~CanMigrate(Settled)
  /\ cache' = Settled /\ lastChunkCount' = Counted(Settled)
  /\ session' = "signedOut"
  /\ UNCHANGED <<images, lastArray, viewVars, docVars>>

(* logout clears the React state; the storage cache stays until the next   *)
(* sign-in replaces it.                                                    *)
Logout ==
  /\ session = "ready"
  /\ session' = "signedOut"
  /\ list' = <<>>
  /\ UNCHANGED <<storeVars, hydrated, fetch, docVars>>

---------------------------------------------------------------------------
(* The ledger helpers.  A session is ready only once the ledger carries    *)
(* its order marker, so ensureLedgerReady has nothing left to do in them.  *)

(* One more batch fits under the bound on batches in flight. *)
MaySend(batches) == Len(images) + batches <= MaxImages

(* Mutant of Shown: the new movements are shown oldest first.              *)
ShownUnreversed(items, shown) == IF shown = <<>> THEN shown ELSE items \o shown

(* The list is a cache, newest first, extended only if it is not empty.    *)
Shown(items, shown) == IF shown = <<>> THEN shown ELSE Reverse(items) \o shown

(* appendStockMovements: movements go to the end of the ledger, whatever   *)
(* their dates.                                                            *)
AppendMovements(items) ==
  LET batch == AppendBatch(View, items)
  IN  IF CanAppend(View)
      THEN /\ cache' = batch ++ cache
           /\ images' = Sent(batch)
           /\ lastChunkCount' = batch[MetaKey].chunks
           /\ lastArray' = Nil
           /\ list' = Shown(items, list)
      ELSE /\ list' = items \o list
           /\ UNCHANGED storeVars

(* On the books, the items are written behind the movements kept.          *)
WrittenBehind(kept, items) ==
  /\ books' = kept \o items
  /\ backdated' = backdated \cup Late(items, kept)

(* What recording a document does, under the date the user gave it.        *)
Record(ref, n, date) ==
  LET items == Recorded(ref, n, date)
  IN  /\ session = "ready"
      /\ MaySend(1) /\ nextId + n <= MaxMovements
      /\ AppendMovements(items)
      /\ nextId' = nextId + n
      /\ WrittenBehind(books, items)
      /\ UNCHANGED <<session, hydrated, fetch, snapshots>>

(* deleteSalesInvoice: removeStockMovementsByReference takes the movements *)
(* of a document on file out of the ledger, and the audit log keeps them.  *)
Erase(ref) ==
  LET batch == RemoveBatch(View, ref)
      found == CanRemove(View) /\ RemovedFrom(View, ref) # <<>>
      taken == IF CanRemove(View) THEN RemovedFrom(View, ref) ELSE Only(list, ref)
  IN  /\ session = "ready"
      /\ MaySend(1) /\ OnFile(ref)
      /\ IF found
         THEN /\ cache' = batch ++ cache
              /\ images' = Sent(batch)
              /\ lastArray' = Nil
         ELSE UNCHANGED <<cache, images, lastArray>>
      /\ list' = Without(list, ref)
      /\ snapshots' = [snapshots EXCEPT ![ref] = taken]
      /\ books' = Without(books, ref)
      /\ UNCHANGED <<session, lastChunkCount, hydrated, fetch, nextId, backdated>>

(* restoreDeletedInvoice: the movements of a deleted document go back to   *)
(* the end of the ledger with their old numbers and dates; its snapshot is *)
(* used up, and a document on file again blocks it.                        *)
Restore(ref) ==
  /\ session = "ready"
  /\ MaySend(1) /\ Settled[MetaKey].chunks < MaxChunks
  /\ ~OnFile(ref) /\ snapshots[ref] # <<>>
  /\ AppendMovements(snapshots[ref])
  /\ snapshots' = [snapshots EXCEPT ![ref] = <<>>]
  /\ WrittenBehind(books, snapshots[ref])
  /\ UNCHANGED <<session, hydrated, fetch, nextId>>

(* replaceStockMovementsForReference: what editing a document on file      *)
(* does, one removal and one append under its new date, each its own       *)
(* batch.  The code gives the removal the kind of the document as well,    *)
(* which every movement of a document here shares.                         *)
Replace(ref, n, date) ==
  LET items     == Recorded(ref, n, date)
      found     == RemovedFrom(View, ref) # <<>>
      removal   == IF found THEN RemoveBatch(View, ref) ELSE <<>>
      addition  == AppendBatch(ViewAfter(removal), items)
      remaining == Without(list, ref)
  IN  /\ session = "ready"
      /\ MaySend(2) /\ nextId + n <= MaxMovements /\ OnFile(ref)
      /\ IF CanRemove(View)
         THEN /\ cache' = addition ++ removal ++ cache
              /\ images' = Append(IF found THEN Sent(removal) ELSE images,
                                  addition ++ removal ++ Settled)
              /\ lastChunkCount' = addition[MetaKey].chunks
              /\ lastArray' = Nil
              /\ list' = Shown(items, remaining)
         ELSE /\ list' = remaining \o items
              /\ UNCHANGED storeVars
      /\ nextId' = nextId + n
      /\ WrittenBehind(Without(books, ref), items)
      /\ UNCHANGED <<session, hydrated, fetch, snapshots>>

---------------------------------------------------------------------------
(* Mutant of HydrateRequest: the read does not queue behind the writes.    *)
HydrateRequestUnqueued ==
  /\ session = "ready" /\ ~hydrated /\ fetch = Nil
  /\ fetch' = Disk
  /\ UNCHANGED <<storeVars, session, list, hydrated, docVars>>

(* hydrateStockMovements: a screen asks for the whole ledger ...           *)
HydrateRequest ==
  /\ session = "ready" /\ ~hydrated /\ fetch = Nil
  /\ fetch' = Settled
  /\ UNCHANGED <<storeVars, session, list, hydrated, docVars>>

(* ... and the reply overwrites the cached rows, whenever it arrives.      *)
HydrateReply ==
  LET newCache == fetch ++ cache
      rows     == newCache ++ Settled
      counted  == Counted(newCache)
      chunked  == IF HasLegacy(rows) THEN Nil ELSE ReadChunked(rows)
  IN  /\ session # "off" /\ fetch # Nil
      /\ cache' = newCache
      /\ lastArray' = IF chunked = Nil THEN lastArray ELSE chunked
      /\ lastChunkCount' = IF chunked = Nil THEN counted ELSE ChunksFor(Len(chunked))
      /\ list' = Reverse(LsGet(rows))
      /\ hydrated' = TRUE
      /\ fetch' = Nil
      /\ UNCHANGED <<images, session, docVars>>

---------------------------------------------------------------------------
(* Flushes, delivery and failures                                          *)

(* Main commits the oldest batch in flight. *)
Deliver ==
  /\ Len(images) > 1
  /\ images' = Tail(images)
  /\ UNCHANGED <<session, cache, lastArray, lastChunkCount, viewVars, docVars>>

(* Power cut or killed process: batches in flight are lost, and with them  *)
(* the documents they belong to (how the two can part is ShopSession's).   *)
Crash ==
  /\ session # "off"
  /\ images' = <<Disk>>
  /\ session' = "off"
  /\ ForgetRenderer
  /\ books' = AtSignIn(Disk)
  /\ UNCHANGED <<nextId, snapshots, backdated>>

(* Closing the window signed out flushes nothing and waits for the channel.*)
CloseSignedOut ==
  /\ session = "signedOut"
  /\ images' = <<Settled>>
  /\ session' = "off"
  /\ ForgetRenderer
  /\ UNCHANGED docVars

(* Closing it signed in runs flushPendingWritesNow, which writes every key *)
(* of liveStateRef, the list included, and waits for it.                   *)
CloseSignedIn ==
  /\ session = "ready"
  /\ images' = <<SetBatchAwait(cache, list) ++ Settled>>
  /\ session' = "off"
  /\ ForgetRenderer
  /\ UNCHANGED docVars

(* A page reload runs the beforeunload handler: the same keys through      *)
(* lsSetBatch, unless the two-second debounced flush (which leaves the     *)
(* ledger out on purpose) has run since the last change.                   *)
Reload ==
  LET batch == SetBatch(cache, list, lastArray, lastChunkCount)
  IN  /\ session = "ready"
      /\ MaySend(1)
      /\ \E unflushed \in BOOLEAN :
           images' = IF unflushed THEN Sent(batch) ELSE images
      /\ session' = "signedOut"
      /\ ForgetRenderer
      /\ UNCHANGED docVars

---------------------------------------------------------------------------
(* Next-state relations.  The steady one is the shop at work: documents,   *)
(* sign-ins, screens, delivery, crashes.  The others add one hard thing.   *)

Document ==
  \E ref \in References :
    \/ \E n \in 1 .. MaxItems, date \in Dates : Record(ref, n, date)
    \/ Erase(ref)
    \/ Restore(ref)

Edit ==
  \E ref \in References, n \in 1 .. MaxItems, date \in Dates : Replace(ref, n, date)

Housekeeping ==
  \/ Launch \/ Login \/ LoginRefused \/ Logout
  \/ HydrateRequest \/ HydrateReply
  \/ Deliver \/ Crash \/ CloseSignedOut

(* No document is saved between a screen's request for the ledger and the  *)
(* reply, no window closes or reloads signed in, no write is refused.      *)
SteadyNext ==
  \/ fetch = Nil /\ Document
  \/ fetch = Nil /\ Edit
  \/ Housekeeping

ClosingNext == SteadyNext \/ CloseSignedIn
WindowNext  == SteadyNext \/ CloseSignedIn \/ Reload

SteadySpec  == Init /\ [][SteadyNext]_vars
ClosingSpec == Init /\ [][ClosingNext]_vars
WindowSpec  == Init /\ [][WindowNext]_vars

---------------------------------------------------------------------------
(* Properties                                                              *)

(* Types, the bound on batches in flight, and that a program that is not   *)
(* running has no writes and no reply on their way.                        *)
TypeOK ==
  /\ images # <<>> /\ Len(images) <= MaxImages
  /\ session \in {"off", "signedOut", "ready"}
  /\ nextId \in 0 .. MaxMovements
  /\ hydrated \in BOOLEAN
  /\ session = "off" => Len(images) = 1 /\ fetch = Nil

(* The renderer never works from a stale row: whatever it has cached is    *)
(* what the database will hold once every batch in flight has landed       *)
(* (readRow, loadStorageCache, lsAppend's optimistic cache update).        *)
CacheCoherent ==
  \A k \in DOMAIN cache : k \in DOMAIN Settled /\ cache[k] = Settled[k]

(* Movements stand against their dates only where they were written late.  *)
InOrder(l, late) ==
  \A j, k \in 1 .. Len(l) : j < k /\ l[k].date < l[j].date => l[k].id \in late

(* The oldest-first marker promises no order of dates: a ledger is in the  *)
(* order of writing.  What holds of every marked image, the disk after any *)
(* crash included, is that a movement stands behind one dated later only   *)
(* if a document dated back, edited or restored put it there; the          *)
(* migration, the removals and the crashes add no other such pair.         *)
MarkerHonest ==
  \A i \in DOMAIN images :
    Row(images[i], OrderKey) = OldestFirst => InOrder(LsGet(images[i]), backdated)

(* A ledger screen that lists anything lists the whole ledger, newest      *)
(* first.                                                                  *)
ListAgrees ==
  list # <<>> => list = Reverse(LsGet(View))

(* The movements of the documents on file are all in the ledger the        *)
(* program reads, and no others.                                           *)
LedgerMatchesBooks == session = "ready" => LsGet(View) = books

(* The chunked store implements the abstract ledger.                       *)
Ledger == INSTANCE StockLedger WITH
            history <- [i \in 1 .. Len(images) |-> LsGet(images[i])],
            undo    <- snapshots

ImplementsLedger == Ledger!Spec
============================================================================
