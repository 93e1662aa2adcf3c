---------------------------- MODULE StockLedger ----------------------------
(***************************************************************************)
(* What the stock-movement ledger promises the shop, with no chunks, rows, *)
(* cache or channel: an ordered list of movements that is written          *)
(* asynchronously but in order.  history[1] is what a power cut would      *)
(* leave; the last element is what the running program has accepted.       *)
(***************************************************************************)
EXTENDS Integers, Sequences, SequencesExt, FiniteSetsExt

CONSTANTS
  References,    \* the documents (invoices, returns, adjustments) that move stock
  Dates,         \* the dates documents are given
  MaxItems       \* most movements one document records at once

VARIABLES
  history,       \* ledgers the disk holds now and will hold next
  nextId,        \* number of the next movement ever recorded
  undo           \* movements each deleted document can still bring back

vars == <<history, nextId, undo>>

Movement == [id : Nat, ref : References, date : Int]

Accepted == Last(history)
Durable  == Head(history)

Recorded(first, ref, n, date) ==
  [i \in 1 .. n |-> [id |-> first + i - 1, ref |-> ref, date |-> date]]
Without(ledger, ref) ==
  FoldLeft(LAMBDA kept, m : IF m.ref = ref THEN kept ELSE Append(kept, m), <<>>, ledger)
Only(ledger, ref) ==
  FoldLeft(LAMBDA found, m : IF m.ref = ref THEN Append(found, m) ELSE found, <<>>, ledger)
Older(m, n) == m.date < n.date \/ (m.date = n.date /\ m.id < n.id)

Init ==
  /\ nextId \in Nat
  /\ history \in Seq(Seq(Movement))
  /\ Len(history) = 1
  /\ undo = [ref \in References |-> <<>>]

(* A document adds its movements at the end, whatever its date. *)
Record(ref, n, date) ==
  /\ nextId' = nextId + n
  /\ history' = Append(history, Accepted \o Recorded(nextId, ref, n, date))
  /\ UNCHANGED undo

(* Deleting a document takes exactly its own movements out and keeps them. *)
Erase(ref) ==
  /\ UNCHANGED nextId
  /\ undo' = [undo EXCEPT ![ref] = Only(Accepted, ref)]
  /\ Only(Accepted, ref) # <<>>
  /\ history' = Append(history, Without(Accepted, ref))

(* Undoing that brings those very movements back, at the end, once. *)
Restore(ref) ==
  /\ undo[ref] # <<>>
  /\ UNCHANGED nextId
  /\ undo' = [undo EXCEPT ![ref] = <<>>]
  /\ Only(Accepted, ref) = <<>>
  /\ history' = Append(history, Accepted \o undo[ref])

(* Editing a document swaps its movements: two writes, one after the other.*)
Replace(ref, n, date) ==
  /\ nextId' = nextId + n
  /\ Only(Accepted, ref) # <<>>
  /\ LET kept == Without(Accepted, ref)
     IN  history' = history \o <<kept, kept \o Recorded(nextId, ref, n, date)>>
  /\ UNCHANGED undo

(* A ledger kept in another order is put in date order, once.              *)
Sort ==
  /\ UNCHANGED <<nextId, undo>>
  /\ Len(history') = Len(history) + 1 /\ Front(history') = history
  /\ ToSet(Accepted') = ToSet(Accepted)
  /\ \A i \in 1 .. Len(Accepted') - 1 : Older(Accepted'[i], Accepted'[i + 1])

(* Accepted writes reach the disk, oldest first. *)
Persist ==
  /\ UNCHANGED <<nextId, undo>>
  /\ \E n \in 1 .. Len(history) - 1 : history' = SubSeq(history, n + 1, Len(history))

(* A crash loses the writes that had not reached the disk, newest last. *)
Crash ==
  /\ UNCHANGED <<nextId, undo>>
  /\ history' = <<Durable>>

Next ==
  \/ \E ref \in References, n \in 1 .. MaxItems, date \in Dates :
       Record(ref, n, date) \/ Replace(ref, n, date)
  \/ \E ref \in References : Erase(ref) \/ Restore(ref)
  \/ Sort \/ Persist \/ Crash

Spec == Init /\ [][Next]_vars
============================================================================
