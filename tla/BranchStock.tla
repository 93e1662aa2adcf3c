---------------------------- MODULE BranchStock ----------------------------
(***************************************************************************)
(* Where the units of one product are: src/src/store/                      *)
(* AutoPartsProContext.tsx keeps a row per branch beside the product's     *)
(* own quantity, which AppContext owns, and pulls the rows back to it      *)
(* after every change.                                                     *)
(*                                                                         *)
(* A missing row reads as zero everywhere, so rows is total.  A handler    *)
(* queues its updates and Render runs them through React: until then a     *)
(* second click still sees the rows of the last render.  The two stores    *)
(* save themselves on timers of their own.                                 *)
(***************************************************************************)
EXTENDS Integers, FiniteSets, Functions

CONSTANTS
  Branches,
  Main,         \* the branch with isMain
  Opening,      \* units in the shop at the start, all in Main
  MaxStock      \* bound: units in the shop, and units ever booked to a branch

ASSUME BranchAssumption ==
  /\ Main \in Branches /\ IsFiniteSet(Branches)
  /\ MaxStock \in Nat /\ Opening \in 0 .. MaxStock

VARIABLES
  shelf,        \* the product's quantity
  rows,         \* branchStocks, with the updates queued so far
  seen,         \* branchStocks of the last render, what transferStock reads
  busy,         \* transferInFlightRef
  pending,      \* an update is queued
  saved,        \* last flush of AppContext
  branchSaved,  \* last flush of AutoPartsProContext
  booked,       \* history: bought and transferred in, less sold and
                \* transferred out, per branch other than Main
  disturbed     \* history: a change no branch was named for, or a crash
                \* between the two flushes, has taken units off a branch

vars == <<shelf, rows, seen, busy, pending, saved, branchSaved, booked, disturbed>>

Amounts == [Branches -> Nat]
Others  == Branches \ {Main}

Allocated(r) == SumFunctionOnSet(r, Branches)

Pos(x) == IF x > 0 THEN x ELSE 0

(* Mutant of Reconciled: a shortage is taken from the main branch alone.   *)
ReconciledOnMain(before, qty) ==
  {[before EXCEPT ![Main] = @ + qty - Allocated(before)]}

(* reconcileBranchStocks: a surplus goes to the main branch; a shortage is *)
(* taken from it, then from one other branch after another.  The order of  *)
(* the other rows is left open.                                            *)
Reconciled(before, qty) ==
  IF Allocated(before) <= qty
  THEN {[before EXCEPT ![Main] = @ + qty - Allocated(before)]}
  ELSE {after \in [Branches -> 0 .. MaxStock] :
          /\ Allocated(after) = qty
          /\ \A b \in Branches : after[b] <= before[b]
          /\ after[Main] > 0 => \A b \in Others : after[b] = before[b]
          /\ Cardinality({b \in Others : after[b] \notin {0, before[b]}}) <= 1}

AllInMain  == [b \in Branches |-> IF b = Main THEN Opening ELSE 0]
NoneBooked == [b \in Others |-> 0]

Init ==
  /\ shelf = Opening /\ rows = AllInMain /\ seen = AllInMain
  /\ busy = FALSE /\ pending = FALSE /\ disturbed = FALSE
  /\ booked = NoneBooked /\ saved = Opening
  /\ branchSaved = [rows |-> AllInMain, booked |-> NoneBooked]

---------------------------------------------------------------------------

(* Units booked to a branch, or off it. *)
Book(books, b, qty) == [c \in Others |-> books[c] + (IF c = b THEN qty ELSE 0)]

MayBook(b, qty) == b \in Others => booked[b] + qty <= MaxStock

(* The rows are over the quantity by more than the main branch holds.      *)
Short(held, qty) == Allocated(held) - qty > held[Main]

(* Commit and effects: the lock clears, the rows follow the quantity.      *)
Render ==
  /\ pending
  /\ rows' \in Reconciled(rows, shelf) /\ seen' = rows'
  /\ busy' = FALSE /\ pending' = FALSE
  /\ UNCHANGED <<shelf, saved, branchSaved, booked, disturbed>>

(* A point-of-sale invoice of a branch: addSalesInvoice and                *)
(* consumeBranchStock; the screen sells no more than the branch holds.     *)
Sell(b, qty) ==
  /\ ~pending /\ qty <= seen[b]
  /\ shelf' = Pos(shelf - qty)
  /\ rows' = [rows EXCEPT ![b] = Pos(@ - qty)]
  /\ booked' = Book(booked, b, -qty)
  /\ pending' = TRUE
  /\ UNCHANGED <<seen, busy, saved, branchSaved, disturbed>>

(* Mutant of Received: a receipt is left to the reconciler.                *)
ReceivedByMain(b, qty) == rows

(* receivePurchaseStock *)
Received(b, qty) == [rows EXCEPT ![b] = @ + qty]

(* A purchase invoice received at a branch: addPurchaseInvoice and         *)
(* receivePurchaseStock.                                                   *)
Receive(b, qty) ==
  /\ ~pending /\ shelf + qty <= MaxStock /\ MayBook(b, qty)
  /\ shelf' = shelf + qty
  /\ rows' = Received(b, qty)
  /\ booked' = Book(booked, b, qty)
  /\ pending' = TRUE
  /\ UNCHANGED <<seen, busy, saved, branchSaved, disturbed>>

(* A change no branch is named for: a return, a cancellation, a            *)
(* correction, a stocktake, a scan of the phone, an office invoice.        *)
OffBranch(qty) ==
  /\ ~pending /\ qty \in 0 .. MaxStock /\ qty # shelf
  /\ shelf' = qty
  /\ disturbed' = (disturbed \/ Short(rows, qty))
  /\ pending' = TRUE
  /\ UNCHANGED <<rows, seen, busy, saved, branchSaved, booked>>

(* Mutant of MayTransfer: without the lock.                                *)
MayTransferAgain(from, to, qty) == from # to /\ qty <= seen[from]

MayTransfer(from, to, qty) == ~busy /\ from # to /\ qty <= seen[from]

(* transferStock: checked against the rows of the last render, applied to  *)
(* the queued ones.                                                        *)
TransferStock(from, to, qty) ==
  /\ MayTransfer(from, to, qty)
  /\ MayBook(to, qty)
  /\ rows' = [rows EXCEPT ![from] = Pos(@ - qty), ![to] = @ + qty]
  /\ booked' = Book(Book(booked, from, -qty), to, qty)
  /\ busy' = TRUE /\ pending' = TRUE
  /\ UNCHANGED <<shelf, seen, saved, branchSaved, disturbed>>

(* The transfer dialog: clicked after a render, or again before the next.  *)
Click(from, to, qty) == (pending => busy) /\ TransferStock(from, to, qty)

(* The debounced flush of AppContext.                                      *)
FlushProducts ==
  /\ ~pending
  /\ saved' = shelf
  /\ UNCHANGED <<shelf, rows, seen, busy, pending, branchSaved, booked, disturbed>>

(* The debounced flush of AutoPartsProContext, rows and transfers at once. *)
FlushBranches ==
  /\ ~pending
  /\ branchSaved' = [rows |-> rows, booked |-> booked]
  /\ UNCHANGED <<shelf, rows, seen, busy, pending, saved, booked, disturbed>>

(* Power loss, the next launch and sign-in: reloadProData.                 *)
Crash ==
  /\ shelf' = saved
  /\ rows' = branchSaved.rows /\ seen' = branchSaved.rows
  /\ booked' = branchSaved.booked
  /\ disturbed' = (disturbed \/ Short(branchSaved.rows, saved))
  /\ busy' = FALSE /\ pending' = TRUE
  /\ UNCHANGED <<saved, branchSaved>>

Next ==
  \/ Render \/ FlushProducts \/ FlushBranches \/ Crash
  \/ \E b \in Branches, qty \in 1 .. MaxStock : Sell(b, qty) \/ Receive(b, qty)
  \/ \E qty \in 0 .. MaxStock : OffBranch(qty)
  \/ \E from, to \in Branches, qty \in 1 .. MaxStock : Click(from, to, qty)

Spec == Init /\ [][Next]_vars

---------------------------------------------------------------------------
(* Properties                                                              *)

(* No row is ever negative or beyond what the shop may hold.               *)
TypeOK ==
  /\ shelf \in 0 .. MaxStock /\ rows \in Amounts /\ seen \in Amounts
  /\ busy \in BOOLEAN /\ pending \in BOOLEAN /\ disturbed \in BOOLEAN
  /\ booked \in [Others -> Int]

(* A branch other than the main one never shows more than it bought, less  *)
(* what it sold, plus its transfers on record: no double click and no      *)
(* power cut between the two flushes makes units out of nothing            *)
(* (transferInFlightRef, consumeBranchStock, receivePurchaseStock).        *)
NeverMoreThanBooked == \A b \in Others : rows[b] <= booked[b]

(* ... and it never shows less, unless units went missing for which no     *)
(* branch was named and the main branch could not make them up.            *)
BranchExplained == disturbed \/ \A b \in Others : rows[b] = booked[b]
============================================================================
