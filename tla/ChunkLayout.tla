---------------------------- MODULE ChunkLayout ----------------------------
(***************************************************************************)
(* How src/src/lib/storage.ts lays one "chunked" collection out over       *)
(* key/value rows: chunks of at most ChunkSize records, a manifest row     *)
(* ("#meta"), an order marker row ("#order") and the legacy single-blob    *)
(* row, which a tombstone supersedes.                                      *)
(*                                                                         *)
(* A set of rows is a function from row keys to row values; a missing row  *)
(* is a key outside its domain.  The operators below are the pure part of  *)
(* the storage functions: what they read from a set of rows, and the batch *)
(* of rows they send to be written in one transaction.                     *)
(***************************************************************************)
EXTENDS Integers, Sequences, SequencesExt, TLC

CONSTANTS
  ChunkSize,    \* records per chunk (500 in the code)
  Tombstone,    \* value of the legacy row once the chunks supersede it
  OldestFirst,  \* value of the order marker once the ledger is sorted
  Nil           \* "no such row", "no such array", "unreadable"

ASSUME ChunkSizeAssumption == ChunkSize \in Nat \ {0}
ASSUME NilAssumption == Nil # OldestFirst

(* Rows written over rows already there. *)
new ++ old ==
  [k \in DOMAIN new \cup DOMAIN old |-> IF k \in DOMAIN new THEN new[k] ELSE old[k]]

OneRow(key, value) == [k \in {key} |-> value]

LegacyKey == <<"legacy", 0>>
MetaKey   == <<"meta", 0>>
OrderKey  == <<"order", 0>>
ChunkKey(i) == <<"chunk", i>>

(* Math.ceil(n / CHUNK_SIZE) *)
ChunksFor(n) == (n + ChunkSize - 1) \div ChunkSize

(* array.slice(i * CHUNK_SIZE, (i + 1) * CHUNK_SIZE), also past the end *)
Slice(s, i) ==
  SubSeq(s, i * ChunkSize + 1,
         IF (i + 1) * ChunkSize < Len(s) THEN (i + 1) * ChunkSize ELSE Len(s))

Manifest(chunks, total) == [chunks |-> chunks, total |-> total]

(* Rows that write the records of s into chunks first, first+1, ... *)
ChunkRows(s, first) ==
  [k \in {ChunkKey(first + i) : i \in 0 .. ChunksFor(Len(s)) - 1} |->
     Slice(s, k[2] - first)]

(* "[]" written over the chunks from..upTo-1 *)
BlankRows(from, upTo) == [k \in {ChunkKey(i) : i \in from .. upTo - 1} |-> <<>>]

Row(rows, k) == IF k \in DOMAIN rows THEN rows[k] ELSE Nil

(* True when the legacy row holds data that wins over the chunks. *)
HasLegacy(rows) == Row(rows, LegacyKey) \notin {Nil, Tombstone}

---------------------------------------------------------------------------
(* Readers                                                                 *)

(* readChunked: the concatenation of the chunks the manifest names, or Nil *)
(* when the manifest or a chunk is missing or the total does not agree.    *)
ReadChunked(rows) ==
  IF MetaKey \notin DOMAIN rows THEN Nil
  ELSE LET meta  == rows[MetaKey]
           parts == [i \in 1 .. meta.chunks |-> Row(rows, ChunkKey(i - 1))]
       IN  IF \E i \in 1 .. meta.chunks : parts[i] = Nil THEN Nil
           ELSE LET out == FlattenSeq(parts)
                IN  IF Len(out) = meta.total THEN out ELSE Nil

(* lsGet(key, []): the legacy blob, else the chunks, else the fallback.    *)
LsGet(rows) ==
  LET chunked == ReadChunked(rows)
  IN  IF HasLegacy(rows) THEN rows[LegacyKey]
      ELSE IF chunked = Nil THEN <<>> ELSE chunked

---------------------------------------------------------------------------
(* The movements of one document                                           *)

(* filter(m => m.ref !== ref)                                              *)
Without(s, ref) ==
  FoldLeft(LAMBDA kept, m : IF m.ref = ref THEN kept ELSE Append(kept, m), <<>>, s)

(* filter(m => m.ref === ref)                                              *)
Only(s, ref) ==
  FoldLeft(LAMBDA found, m : IF m.ref = ref THEN Append(found, m) ELSE found, <<>>, s)

---------------------------------------------------------------------------
(* Writers: each is the batch of rows one call sends                       *)

(* lsAppend refuses when the collection is not in chunked form or its last *)
(* chunk cannot be read.                                                   *)
CanAppend(rows) ==
  /\ ~HasLegacy(rows)
  /\ MetaKey \in DOMAIN rows
  /\ rows[MetaKey].chunks > 0 => ChunkKey(rows[MetaKey].chunks - 1) \in DOMAIN rows

(* The manifest after items made tail the chunks from first on.            *)
ManifestAfter(meta, first, tail, items) ==
  Manifest(first + ChunksFor(Len(tail)), meta.total + Len(items))

(* lsAppend: extend the last chunk if it has room, else start a new one.   *)
AppendBatch(rows, items) ==
  LET meta  == rows[MetaKey]
      last  == meta.chunks - 1
      room  == meta.chunks > 0 /\ Len(rows[ChunkKey(last)]) < ChunkSize
      first == IF room THEN last ELSE meta.chunks
      tail  == IF room THEN rows[ChunkKey(last)] \o items ELSE items
  IN  ChunkRows(tail, first) ++ OneRow(MetaKey, ManifestAfter(meta, first, tail, items))

(* lsRemoveWhere refuses unless every chunk the manifest names is there.   *)
CanRemove(rows) ==
  /\ ~HasLegacy(rows)
  /\ MetaKey \in DOMAIN rows
  /\ \A i \in 0 .. rows[MetaKey].chunks - 1 : ChunkKey(i) \in DOMAIN rows

RemovedFrom(rows, ref) ==
  FlattenSeq([i \in 1 .. rows[MetaKey].chunks |-> Only(rows[ChunkKey(i - 1)], ref)])

(* lsRemoveWhere, with the predicate its callers give it: only the chunks  *)
(* that held a movement of the document are rewritten, left under-full;    *)
(* the chunk count stays, the total shrinks.                               *)
RemoveBatch(rows, ref) ==
  LET meta    == rows[MetaKey]
      touched == {ChunkKey(i) : i \in
                    {j \in 0 .. meta.chunks - 1 : Only(rows[ChunkKey(j)], ref) # <<>>}}
  IN  [k \in touched |-> Without(rows[k], ref)]
        ++ OneRow(MetaKey,
                  Manifest(meta.chunks, meta.total - Len(RemovedFrom(rows, ref))))

(* The date of a movement whose date Date.parse cannot read.               *)
Undated == -1

(* compareOldestFirstByDateAndId: by the document's own date, typed by the *)
(* user; the number only decides between movements of one date.            *)
Older(m, n) == m.date < n.date \/ (m.date = n.date /\ m.id < n.id)

(* Mutant of OldestFirstOrder: trusts the ledger to be newest first.       *)
OldestFirstByReversing(s) == Reverse(s)

(* The ledger as the migration sorts it: the i-th movement has i - 1 older *)
(* ones.                                                                   *)
OldestFirstOrder(s) ==
  [i \in 1 .. Len(s) |->
     CHOOSE m \in ToSet(s) : Cardinality({n \in ToSet(s) : Older(n, m)}) = i - 1]

(* What the migration finds to sort, or Nil when nothing can be read.      *)
Existing(rows) == IF HasLegacy(rows) THEN rows[LegacyKey] ELSE ReadChunked(rows)

(* The comparison throws on a date it cannot read, and lone movements are  *)
(* compared with nothing; lsMigrateToOldestFirst then returns null and     *)
(* leaves every row as it was.                                             *)
CanMigrate(rows) ==
  LET existing == Existing(rows)
  IN  existing # Nil /\ Len(existing) > 1 =>
        \A i \in 1 .. Len(existing) : existing[i].date # Undated

(* lsMigrateToOldestFirst: whatever is readable is sorted, re-chunked,     *)
(* marked, and leftover chunks of a longer layout are blanked; nothing     *)
(* readable establishes the empty chunked form.                            *)
MigrateBatch(rows, lastChunkCount) ==
  LET existing == Existing(rows)
      sorted   == IF existing = Nil THEN <<>> ELSE OldestFirstOrder(existing)
      chunks   == ChunksFor(Len(sorted))
  IN  ChunkRows(sorted, 0)
        ++ (IF existing = Nil THEN <<>> ELSE BlankRows(chunks, lastChunkCount))
        ++ OneRow(MetaKey, Manifest(chunks, Len(sorted)))
        ++ OneRow(LegacyKey, Tombstone)
        ++ OneRow(OrderKey, OldestFirst)

(* unchangedRange: chunk i of next is the very same records as the chunk   *)
(* at that position of the previously persisted array.                     *)
UnchangedRange(previous, next, i) == Slice(previous, i) = Slice(next, i)

(* chunkRowsFor (inside lsSetBatch): chunks unchanged since lastArray are  *)
(* skipped when cached, the manifest and tombstone are written only when   *)
(* the cache does not already hold them, leftover chunks are blanked.      *)
SetBatch(cache, value, lastArray, lastChunkCount) ==
  LET chunks  == ChunksFor(Len(value))
      skipped == {ChunkKey(i) : i \in
                    {j \in 0 .. chunks - 1 :
                       /\ lastArray # Nil
                       /\ ChunkKey(j) \in DOMAIN cache
                       /\ UnchangedRange(lastArray, value, j)}}
      wanted  == ChunkRows(value, 0)
                   ++ BlankRows(chunks, lastChunkCount)
                   ++ OneRow(MetaKey, Manifest(chunks, Len(value)))
                   ++ OneRow(LegacyKey, Tombstone)
      same(k) == Row(cache, k) = wanted[k]
      isChunk(k) == k \in {ChunkKey(i) : i \in 0 .. chunks - 1}
      emitted == {k \in DOMAIN wanted :
                    IF isChunk(k) THEN k \notin skipped ELSE ~same(k)}
  IN  [k \in emitted |-> wanted[k]]

(* lsSetBatchAwait: every chunk, the manifest and the tombstone, then      *)
(* blanks for higher chunks while they are cached and not already blank.   *)
SetBatchAwait(cache, value) ==
  LET chunks == ChunksFor(Len(value))
      blankable(i) == Row(cache, ChunkKey(i)) \notin {Nil, <<>>}
  IN  ChunkRows(value, 0)
        ++ OneRow(MetaKey, Manifest(chunks, Len(value)))
        ++ OneRow(LegacyKey, Tombstone)
        ++ [k \in {key \in DOMAIN cache :
                     /\ key[1] = "chunk" /\ key[2] >= chunks
                     /\ \A i \in chunks .. key[2] : blankable(i)} |-> <<>>]
============================================================================
