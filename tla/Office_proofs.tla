---------------------------- MODULE Office_proofs ----------------------------
(***************************************************************************)
(* Proofs about the parts of the shop that share no state, for any values  *)
(* of their constants: the stock of the branches, pieces and units, the    *)
(* cash of a shift, counting, updating, publishing and licensed branches.  *)
(* Signing in has its proofs in SignIn_proofs.                             *)
(*                                                                         *)
(* No property here is inductive.  Each part has the invariant that makes  *)
(* it so: what a handler read, what a record on its way carries or what a  *)
(* snapshot keeps is still what the step that uses it needs.  At the end   *)
(* the parts together keep the types of MCShopOffice: a step of one is a   *)
(* stutter of every other.                                                 *)
(***************************************************************************)
EXTENDS MCShopOffice, SignIn_proofs, FiniteSums

---------------------------------------------------------------------------
(* The stock of the branches.  A sale and a transfer are checked against   *)
(* the rows of the last render, and a power cut brings back the rows and   *)
(* the transfers of the last flush: so the rows on screen are the rows     *)
(* there are unless a render is due, and what was flushed was right.       *)

(* Rows of every branch; those of the others are numbers of units.         *)
RowsOK(r) == /\ r = [b \in Branches |-> r[b]]
             /\ \A b \in Others : r[b] \in Nat

(* Rows that show no more than was booked.                                 *)
Covered(r, books) ==
  /\ RowsOK(r) /\ books \in [Others -> Int]
  /\ \A b \in Others : r[b] <= books[b]

(* What a handler reads is what there is, unless a render is due.          *)
ScreenFresh == pending \/ seen = rows

NeverMoreInv ==
  /\ Covered(rows, booked)
  /\ Covered(branchSaved.rows, branchSaved.booked)
  /\ ScreenFresh

---------------------------------------------------------------------------

(* What Math.max(0, ...) takes off: never below zero, nothing else changed.*)
LEMMA PosOfLess ==
  ASSUME NEW x \in Nat, NEW qty \in Nat, qty <= x
  PROVE  Pos(x - qty) = x - qty /\ x - qty \in Nat
BY DEF Pos

(* Booking units to a branch, or off it, changes that branch alone.        *)
LEMMA BookOne ==
  ASSUME NEW books \in [Others -> Int], NEW b, NEW qty \in Int
  PROVE  /\ Book(books, b, qty) \in [Others -> Int]
         /\ \A c \in Others :
              Book(books, b, qty)[c] = IF c = b THEN books[c] + qty ELSE books[c]
BY DEF Book

(* The reconciler gives a surplus to the main branch and takes a shortage  *)
(* from any: the rows of the others never grow (reconcileBranchStocks).    *)
LEMMA ReconciledCovered ==
  ASSUME NEW r, NEW books, Covered(r, books), NEW qty, NEW after \in Reconciled(r, qty)
  PROVE  Covered(after, books)
<1>1. CASE Allocated(r) <= qty
  <2>1. after = [r EXCEPT ![Main] = @ + qty - Allocated(r)]
    BY <1>1 DEF Reconciled
  <2>2. RowsOK(after) /\ \A b \in Others : after[b] = r[b]
    BY <2>1 DEF Covered, RowsOK, Others
  <2> QED
    BY <2>2 DEF Covered
<1>2. CASE ~(Allocated(r) <= qty)
  <2>1. /\ after \in [Branches -> 0 .. MaxStock]
        /\ \A b \in Branches : after[b] <= r[b]
    BY <1>2 DEF Reconciled
  <2>2. RowsOK(after)
    BY <2>1, BranchAssumption DEF RowsOK, Others
  <2>3. \A b \in Others : after[b] \in Int /\ r[b] \in Int /\ books[b] \in Int
    BY <2>2 DEF Covered, RowsOK
  <2>4. \A b \in Others : after[b] <= books[b]
    BY <2>1, <2>3 DEF Covered, Others
  <2> QED
    BY <2>2, <2>4 DEF Covered
<1> QED
  BY <1>1, <1>2

(* Units taken off a branch that holds them, and off its books.            *)
LEMMA TakeCovered ==
  ASSUME NEW r, NEW books, Covered(r, books),
         NEW b \in Branches, NEW qty \in Nat, b \in Others => qty <= r[b]
  PROVE  Covered([r EXCEPT ![b] = Pos(@ - qty)], Book(books, b, -qty))
<1> DEFINE after == [r EXCEPT ![b] = Pos(@ - qty)]
           kept  == Book(books, b, -qty)
<1>1. /\ kept \in [Others -> Int]
      /\ \A c \in Others : kept[c] = IF c = b THEN books[c] - qty ELSE books[c]
  BY BookOne DEF Covered
<1>2. after = [c \in Branches |-> after[c]]
  BY DEF Covered, RowsOK
<1>3. \A c \in Others : after[c] = IF c = b THEN r[c] - qty ELSE r[c]
  BY PosOfLess DEF Covered, RowsOK, Others
<1>4. \A c \in Others : after[c] \in Nat /\ after[c] <= kept[c]
  BY <1>1, <1>3 DEF Covered, RowsOK
<1> QED
  BY <1>1, <1>2, <1>4 DEF Covered, RowsOK

(* Units put on a branch and on its books.                                 *)
LEMMA PutCovered ==
  ASSUME NEW r, NEW books, Covered(r, books), NEW b \in Branches, NEW qty \in Nat
  PROVE  Covered([r EXCEPT ![b] = @ + qty], Book(books, b, qty))
<1> DEFINE after == [r EXCEPT ![b] = @ + qty]
           kept  == Book(books, b, qty)
<1>1. /\ kept \in [Others -> Int]
      /\ \A c \in Others : kept[c] = IF c = b THEN books[c] + qty ELSE books[c]
  BY BookOne DEF Covered
<1>2. after = [c \in Branches |-> after[c]]
  BY DEF Covered, RowsOK
<1>3. \A c \in Others : after[c] = IF c = b THEN r[c] + qty ELSE r[c]
  BY DEF Covered, RowsOK, Others
<1>4. \A c \in Others : after[c] \in Nat /\ after[c] <= kept[c]
  BY <1>1, <1>3 DEF Covered, RowsOK
<1> QED
  BY <1>1, <1>2, <1>4 DEF Covered, RowsOK

---------------------------------------------------------------------------

(* A shop starts with everything in the main branch, flushed.              *)
LEMMA InitIInv == Init => NeverMoreInv
<1> SUFFICES ASSUME Init PROVE NeverMoreInv
  OBVIOUS
<1>1. Covered(AllInMain, NoneBooked)
  BY DEF Covered, RowsOK, AllInMain, NoneBooked, Others
<1>2. seen = rows
  BY DEF Init
<1>3. ScreenFresh
  BY <1>2 DEF ScreenFresh
<1> QED
  BY <1>1, <1>3 DEF Init, NeverMoreInv

(* Handlers check the rows on screen, which a render has just brought up   *)
(* to date (consumeBranchStock, receivePurchaseStock, transferStock).      *)
LEMMA HandlerIInv ==
  ASSUME NeverMoreInv, NEW b \in Branches, NEW c \in Branches, NEW qty \in 1 .. MaxStock,
         Sell(b, qty) \/ Receive(b, qty) \/ Click(b, c, qty)
  PROVE  NeverMoreInv'
<1>1. qty \in Nat
  BY BranchAssumption
<1>2. branchSaved' = branchSaved
  BY DEF Sell, Receive, Click, TransferStock
<1>3. pending'
  BY DEF Sell, Receive, Click, TransferStock
<1>4. ScreenFresh'
  BY <1>3 DEF ScreenFresh
<1>5. CASE Sell(b, qty)
  <2>1. seen = rows /\ qty <= seen[b]
    BY <1>5 DEF Sell, NeverMoreInv, ScreenFresh
  <2>2. Covered(rows', booked')
    BY <1>1, <1>5, <2>1, TakeCovered DEF Sell, NeverMoreInv
  <2> QED
    BY <1>2, <1>4, <2>2 DEF NeverMoreInv
<1>6. CASE Receive(b, qty)
  <2>1. Covered(rows', booked')
    BY <1>1, <1>6, PutCovered DEF Receive, Received, NeverMoreInv
  <2> QED
    BY <1>2, <1>4, <2>1 DEF NeverMoreInv
<1>7. CASE Click(b, c, qty)
  <2>1. ~pending /\ b # c /\ qty <= seen[b]
    BY <1>7 DEF Click, TransferStock, MayTransfer
  <2>2. qty <= rows[b]
    BY <2>1 DEF NeverMoreInv, ScreenFresh
  <2> DEFINE taken == [rows EXCEPT ![b] = Pos(@ - qty)]
             off   == Book(booked, b, -qty)
  <2>3. Covered(taken, off)
    BY <1>1, <2>2, TakeCovered DEF NeverMoreInv
  <2>4. Covered([taken EXCEPT ![c] = @ + qty], Book(off, c, qty))
    <3> HIDE DEF taken, off
    <3> QED
      BY <1>1, <2>3, PutCovered
  <2>5. rows' = [taken EXCEPT ![c] = @ + qty] /\ booked' = Book(off, c, qty)
    BY <1>7, <2>1 DEF Click, TransferStock, NeverMoreInv, Covered, RowsOK
  <2> HIDE DEF taken, off
  <2> QED
    BY <1>2, <1>4, <2>4, <2>5 DEF NeverMoreInv
<1> QED
  BY <1>5, <1>6, <1>7

(* A render, the flushes, a power cut and a change no branch is named for. *)
LEMMA ShopIInv ==
  ASSUME NeverMoreInv, Render \/ FlushProducts \/ FlushBranches \/ Crash
                 \/ (\E qty \in 0 .. MaxStock : OffBranch(qty))
  PROVE  NeverMoreInv'
<1>1. CASE Render
  <2>1. seen' = rows' /\ branchSaved' = branchSaved
    BY <1>1 DEF Render
  <2>2. Covered(rows', booked')
    BY <1>1, ReconciledCovered DEF Render, NeverMoreInv
  <2>3. ScreenFresh'
    BY <2>1 DEF ScreenFresh
  <2> QED
    BY <2>1, <2>2, <2>3 DEF NeverMoreInv
<1>2. CASE FlushProducts
  BY <1>2 DEF FlushProducts, NeverMoreInv, ScreenFresh
<1>3. CASE FlushBranches
  <2>1. branchSaved'.rows = rows' /\ branchSaved'.booked = booked'
    BY <1>3 DEF FlushBranches
  <2>2. rows' = rows /\ booked' = booked
    BY <1>3 DEF FlushBranches
  <2>3. ScreenFresh'
    BY <1>3 DEF FlushBranches, NeverMoreInv, ScreenFresh
  <2> QED
    BY <2>1, <2>2, <2>3 DEF NeverMoreInv
<1>4. CASE Crash
  <2>1. /\ rows' = branchSaved.rows /\ booked' = branchSaved.booked
        /\ branchSaved' = branchSaved /\ seen' = rows'
    BY <1>4 DEF Crash
  <2>2. ScreenFresh'
    BY <2>1 DEF ScreenFresh
  <2> QED
    BY <2>1, <2>2 DEF NeverMoreInv
<1>5. CASE \E qty \in 0 .. MaxStock : OffBranch(qty)
  <2>1. /\ rows' = rows /\ booked' = booked /\ seen' = seen
        /\ branchSaved' = branchSaved
    BY <1>5 DEF OffBranch
  <2>2. pending'
    BY <1>5 DEF OffBranch
  <2>3. ScreenFresh'
    BY <2>2 DEF ScreenFresh
  <2> QED
    BY <2>1, <2>3 DEF NeverMoreInv
<1> QED
  BY <1>1, <1>2, <1>3, <1>4, <1>5

(* Every step of the shop keeps the invariant.                             *)
LEMMA StepIInv == NeverMoreInv /\ [Next]_vars => NeverMoreInv'
<1> SUFFICES ASSUME NeverMoreInv, [Next]_vars PROVE NeverMoreInv'
  OBVIOUS
<1>1. CASE \E b \in Branches, qty \in 1 .. MaxStock : Sell(b, qty) \/ Receive(b, qty)
  BY <1>1, HandlerIInv
<1>2. CASE \E from, to \in Branches, qty \in 1 .. MaxStock : Click(from, to, qty)
  BY <1>2, HandlerIInv
<1>3. CASE UNCHANGED vars
  BY <1>3 DEF vars, NeverMoreInv, ScreenFresh
<1> QED
  BY <1>1, <1>2, <1>3, ShopIInv DEF Next

(* Whatever is sold, received, transferred, clicked twice, corrected,      *)
(* flushed apart or cut off by a power loss, no branch but the main one    *)
(* ever shows more than what was booked to it, for every set of branches   *)
(* and every stock (transferStock, consumeBranchStock,                     *)
(* receivePurchaseStock, reconcileBranchStocks).                           *)
THEOREM NoUnitsFromNowhere == Spec => []NeverMoreThanBooked
<1>1. Init => NeverMoreInv
  BY InitIInv
<1>2. NeverMoreInv /\ [Next]_vars => NeverMoreInv'
  BY StepIInv
<1>3. NeverMoreInv => NeverMoreThanBooked
  BY DEF NeverMoreInv, Covered, NeverMoreThanBooked
<1> QED
  BY <1>1, <1>2, <1>3, PTL DEF Spec

---------------------------------------------------------------------------
(* What a branch other than the main one shows is what was booked to it,   *)
(* unless units went missing that the main branch could not make up.       *)

(* The rows add up to the quantity unless a render is due; and what a      *)
(* render would take away, the main branch can bear.                       *)
Settled  == pending \/ Allocated(rows) = shelf
NotShort == disturbed \/ ~Short(rows, shelf)

SavedExplained ==
  disturbed \/ \A b \in Others : branchSaved.rows[b] = branchSaved.booked[b]

BranchInv ==
  /\ NeverMoreInv /\ TypeOK
  /\ saved \in 0 .. MaxStock /\ branchSaved.rows \in Amounts
  /\ branchSaved.booked \in [Others -> Int]
  /\ Settled /\ NotShort /\ BranchExplained /\ SavedExplained

(* The types of the constants of the branches.                             *)
LEMMA BranchSizes ==
  /\ Main \in Branches /\ IsFiniteSet(Branches) /\ MaxStock \in Nat
  /\ Opening \in 0 .. MaxStock /\ Opening \in Nat /\ Others \subseteq Branches /\ Main \notin Others
BY BranchAssumption DEF Others

(* What the branches hold together is a number that is not negative.       *)
LEMMA AllocatedNat == \A r \in Amounts : Allocated(r) \in Nat
<1> SUFFICES ASSUME NEW r \in Amounts PROVE Allocated(r) \in Nat
  OBVIOUS
<1>1. \A b \in Branches : r[b] \in Nat
  BY DEF Amounts
<1> QED BY <1>1, BranchSizes, SumNat DEF Allocated

(* One row changes, and the total with it.                                 *)
LEMMA OneRow ==
  ASSUME NEW r \in Amounts, NEW b \in Branches, NEW n \in Nat
  PROVE  /\ [r EXCEPT ![b] = n] \in Amounts
         /\ Allocated([r EXCEPT ![b] = n]) = Allocated(r) + n - r[b]
<1> DEFINE after == [r EXCEPT ![b] = n]
<1>1. after \in Amounts /\ after[b] = n /\ \A c \in Branches \ {b} : r[c] = after[c]
  BY DEF Amounts
<1>2. (\A c \in Branches : r[c] \in Int) /\ (\A c \in Branches : after[c] \in Int)
  BY <1>1 DEF Amounts
<1> HIDE DEF after
<1>3. SumFunctionOnSet(after, Branches) = SumFunctionOnSet(r, Branches) + after[b] - r[b]
  BY <1>1, <1>2, BranchSizes, SumChange
<1> QED BY <1>1, <1>3 DEF Allocated, after

(* No branch holds more than all of them together.                         *)
LEMMA RowInTotal ==
  ASSUME NEW r \in Amounts, NEW b \in Branches
  PROVE  r[b] <= Allocated(r)
<1>1. \A c \in Branches : r[c] \in Nat
  BY DEF Amounts
<1> QED BY <1>1, BranchSizes, SumMember DEF Allocated

(* The total is the main branch's row and the others'.                     *)
LEMMA MainAndOthers ==
  ASSUME NEW r \in Amounts
  PROVE  /\ Allocated(r) = r[Main] + SumFunctionOnSet(r, Others)
         /\ SumFunctionOnSet(r, Others) \in Nat
<1>1. \A c \in Branches : r[c] \in Int
  BY DEF Amounts
<1>2. SumFunctionOnSet(r, Branches) = r[Main] + SumFunctionOnSet(r, Branches \ {Main})
  BY <1>1, BranchSizes, SumRemove
<1>3. IsFiniteSet(Others) /\ \A c \in Others : r[c] \in Nat
  BY BranchSizes, FS_Subset DEF Amounts
<1>4. SumFunctionOnSet(r, Others) \in Nat
  BY <1>3, SumNat
<1> QED BY <1>2, <1>4 DEF Allocated, Others

(* Rows that are no higher anywhere and no lower in all are the same rows. *)
LEMMA SameTotalSameRows ==
  ASSUME NEW r \in Amounts, NEW after \in Amounts,
         \A b \in Others : after[b] <= r[b],
         SumFunctionOnSet(after, Others) >= SumFunctionOnSet(r, Others)
  PROVE  \A b \in Others : after[b] = r[b]
<1> SUFFICES ASSUME NEW b \in Others, after[b] # r[b] PROVE FALSE
  OBVIOUS
<1> DEFINE gone == [c \in Others |-> r[c] - after[c]]
<1>1. IsFiniteSet(Others)
  BY BranchSizes, FS_Subset
<1>2. \A c \in Others : r[c] \in Nat /\ after[c] \in Nat
  BY BranchSizes DEF Amounts
<1>3. \A c \in Others : gone[c] = r[c] - after[c] /\ gone[c] \in Nat
  BY <1>2
<1>4. gone[b] > 0
  BY <1>2, <1>3
<1> HIDE DEF gone
<1>5. gone[b] <= SumFunctionOnSet(gone, Others)
  BY <1>1, <1>3, SumMember
<1>6. \A c \in Others : r[c] = after[c] + gone[c]
  BY <1>2, <1>3
<1>7. (\A c \in Others : after[c] \in Int) /\ (\A c \in Others : gone[c] \in Int)
  BY <1>2, <1>3
<1>8. SumFunctionOnSet(r, Others) = SumFunctionOnSet(after, Others) + SumFunctionOnSet(gone, Others)
  BY <1>1, <1>6, <1>7, SumPlus
<1>9. /\ SumFunctionOnSet(after, Others) \in Nat /\ SumFunctionOnSet(r, Others) \in Nat
      /\ SumFunctionOnSet(gone, Others) \in Nat
  BY <1>1, <1>2, <1>3, SumNat
<1>10. gone[b] \in Nat
  BY <1>3
<1> QED BY <1>4, <1>5, <1>8, <1>9, <1>10

(* The reconciler brings the rows to the quantity; and a shortage that the *)
(* main branch can bear takes nothing from another branch.                 *)
LEMMA ReconciledFits ==
  ASSUME NEW r \in Amounts, NEW qty \in 0 .. MaxStock, NEW after \in Reconciled(r, qty)
  PROVE  /\ after \in Amounts /\ Allocated(after) = qty
         /\ ~Short(r, qty) => \A b \in Others : after[b] = r[b]
<1>1. Allocated(r) \in Nat /\ qty \in Nat /\ r[Main] \in Nat
  BY AllocatedNat, BranchSizes DEF Amounts
<1>2. CASE Allocated(r) <= qty
  <2> DEFINE n == r[Main] + qty - Allocated(r)
  <2>1. n \in Nat
    BY <1>1, <1>2
  <2>2. after = [r EXCEPT ![Main] = n]
    BY <1>2 DEF Reconciled
  <2>3. Allocated(after) = Allocated(r) + n - r[Main] /\ after \in Amounts
    <3> HIDE DEF n
    <3> QED BY <2>1, <2>2, OneRow, BranchSizes
  <2>4. Allocated(after) = qty
    BY <1>1, <2>3
  <2>5. \A b \in Others : after[b] = r[b]
    BY <2>2, BranchSizes DEF Amounts, Others
  <2> QED BY <2>3, <2>4, <2>5
<1>3. CASE ~(Allocated(r) <= qty)
  <2>1. /\ after \in [Branches -> 0 .. MaxStock] /\ Allocated(after) = qty
        /\ \A b \in Branches : after[b] <= r[b]
        /\ after[Main] > 0 => \A b \in Others : after[b] = r[b]
    BY <1>3 DEF Reconciled
  <2>2. after \in Amounts
    <3>1. \A b \in Branches : after[b] \in Nat
      BY <2>1, BranchSizes
    <3> QED BY <2>1, <3>1 DEF Amounts
  <2>3. ASSUME ~Short(r, qty), ~(after[Main] > 0) PROVE \A b \in Others : after[b] = r[b]
    <3>1. after[Main] = 0
      BY <2>2, <2>3, BranchSizes DEF Amounts
    <3>2. /\ Allocated(r) = r[Main] + SumFunctionOnSet(r, Others)
          /\ Allocated(after) = after[Main] + SumFunctionOnSet(after, Others)
          /\ SumFunctionOnSet(r, Others) \in Nat /\ SumFunctionOnSet(after, Others) \in Nat
      BY <2>2, MainAndOthers
    <3>3. ~(Allocated(r) - qty > r[Main])
      BY <2>3 DEF Short
    <3>4. SumFunctionOnSet(after, Others) >= SumFunctionOnSet(r, Others)
      BY <1>1, <2>1, <3>1, <3>2, <3>3
    <3>5. \A b \in Others : after[b] <= r[b]
      BY <2>1, BranchSizes
    <3> QED BY <2>2, <3>4, <3>5, SameTotalSameRows
  <2> QED BY <2>1, <2>2, <2>3
<1> QED BY <1>2, <1>3

(* Rows that add up to the quantity are not short of it.                   *)
LEMMA FullNotShort ==
  ASSUME NEW r \in Amounts, NEW qty, Allocated(r) = qty
  PROVE  ~Short(r, qty)
<1>1. Allocated(r) \in Nat /\ r[Main] \in Nat
  BY AllocatedNat, BranchSizes DEF Amounts
<1> QED BY <1>1 DEF Short

(* The initial states of the branches satisfy the invariant.               *)
LEMMA BranchInitInv == ASSUME Init PROVE BranchInv
<1>1. NeverMoreInv
  BY InitIInv
<1>2. /\ shelf = Opening /\ rows = AllInMain /\ seen = AllInMain /\ booked = NoneBooked
      /\ saved = Opening /\ branchSaved = [rows |-> AllInMain, booked |-> NoneBooked]
  BY DEF Init
<1>3. busy \in BOOLEAN /\ pending \in BOOLEAN /\ disturbed \in BOOLEAN
  BY Zenon DEF Init
<1>4. AllInMain \in Amounts /\ NoneBooked \in [Others -> Int]
  BY BranchSizes DEF AllInMain, NoneBooked, Amounts
<1>5. Allocated(AllInMain) = Opening
  <2>1. \A b \in Others : AllInMain[b] = 0
    BY BranchSizes DEF AllInMain
  <2>2. IsFiniteSet(Others)
    BY BranchSizes, FS_Subset
  <2>3. SumFunctionOnSet(AllInMain, Others) = 0
    BY <2>1, <2>2, SumZero
  <2>4. AllInMain[Main] = Opening
    BY BranchSizes DEF AllInMain
  <2> QED BY <1>4, <2>3, <2>4, MainAndOthers, BranchSizes
<1>6. TypeOK
  BY <1>2, <1>3, <1>4, BranchSizes DEF TypeOK
<1>7. Settled /\ NotShort
  <2>1. Allocated(rows) = shelf
    BY <1>2, <1>5
  <2>2. ~Short(rows, shelf)
    BY <1>2, <1>4, <2>1, FullNotShort
  <2> QED BY <2>1, <2>2 DEF Settled, NotShort
<1>8. \A b \in Others : AllInMain[b] = NoneBooked[b]
  BY BranchSizes DEF AllInMain, NoneBooked
<1>9. BranchExplained /\ SavedExplained
  BY <1>2, <1>8 DEF BranchExplained, SavedExplained
<1> QED BY <1>1, <1>2, <1>4, <1>6, <1>7, <1>9, BranchSizes DEF BranchInv

(* The types of the branches' state.                                       *)
LEMMA BranchFields ==
  ASSUME BranchInv
  PROVE  /\ shelf \in 0 .. MaxStock /\ shelf \in Nat /\ rows \in Amounts /\ seen \in Amounts
         /\ booked \in [Others -> Int] /\ saved \in 0 .. MaxStock
         /\ branchSaved.rows \in Amounts /\ branchSaved.booked \in [Others -> Int]
         /\ \A b \in Branches : rows[b] \in Nat
BY BranchSizes DEF BranchInv, TypeOK, Amounts

(* A sale and a receipt change one row, one book and the quantity alike.   *)
LEMMA SellKeeps ==
  ASSUME BranchInv, NEW b \in Branches, NEW qty \in 1 .. MaxStock, Sell(b, qty)
  PROVE  BranchInv'
<1> DEFINE left == rows[b] - qty
<1>1. /\ ~pending /\ qty <= seen[b] /\ shelf' = Pos(shelf - qty)
      /\ rows' = [rows EXCEPT ![b] = Pos(@ - qty)] /\ booked' = Book(booked, b, -qty)
      /\ pending' = TRUE /\ UNCHANGED <<seen, busy, saved, branchSaved, disturbed>>
  BY DEF Sell
<1>2. seen = rows /\ Allocated(rows) = shelf
  BY <1>1 DEF BranchInv, NeverMoreInv, ScreenFresh, Settled
<1>3. /\ qty \in Nat /\ qty <= rows[b] /\ rows[b] \in Nat /\ rows[b] <= shelf
      /\ shelf \in 0 .. MaxStock /\ MaxStock \in Nat
  BY <1>1, <1>2, BranchFields, BranchSizes, RowInTotal
<1>4. left \in Nat /\ Pos(rows[b] - qty) = left /\ shelf' = shelf - qty /\ shelf' \in 0 .. MaxStock
  BY <1>1, <1>3 DEF Pos
<1>5. rows' = [rows EXCEPT ![b] = left]
  BY <1>1, <1>4
<1>6. rows' \in Amounts /\ Allocated(rows') = Allocated(rows) + left - rows[b]
  <2> HIDE DEF left
  <2> QED BY <1>4, <1>5, BranchFields, OneRow
<1>7. Allocated(rows') = shelf'
  BY <1>2, <1>3, <1>4, <1>6
<1>8. ~Short(rows', shelf')
  BY <1>6, <1>7, FullNotShort
<1>9. /\ booked' \in [Others -> Int]
      /\ \A c \in Others : booked'[c] = IF c = b THEN booked[c] - qty ELSE booked[c]
  BY <1>1, <1>3, BookOne, BranchFields
<1>10. \A c \in Others : rows'[c] = IF c = b THEN rows[c] - qty ELSE rows[c]
  BY <1>5, BranchFields, BranchSizes DEF Amounts
<1>11. BranchExplained'
  BY <1>1, <1>9, <1>10 DEF BranchInv, BranchExplained
<1>12. NeverMoreInv'
  BY HandlerIInv DEF BranchInv
<1>13. TypeOK'
  BY <1>1, <1>4, <1>6, <1>9 DEF BranchInv, TypeOK
<1> QED BY <1>1, <1>8, <1>11, <1>12, <1>13 DEF BranchInv, Settled, NotShort, SavedExplained

(* Receiving goods at a branch keeps the invariant.                        *)
LEMMA ReceiveKeeps ==
  ASSUME BranchInv, NEW b \in Branches, NEW qty \in 1 .. MaxStock, Receive(b, qty)
  PROVE  BranchInv'
<1> DEFINE more == rows[b] + qty
<1>1. /\ ~pending /\ shelf + qty <= MaxStock /\ shelf' = shelf + qty
      /\ rows' = [rows EXCEPT ![b] = more] /\ booked' = Book(booked, b, qty)
      /\ pending' = TRUE /\ UNCHANGED <<seen, busy, saved, branchSaved, disturbed>>
  BY DEF Receive, Received
<1>2. Allocated(rows) = shelf
  BY <1>1 DEF BranchInv, Settled
<1>3. qty \in Nat /\ rows[b] \in Nat /\ shelf \in Nat /\ MaxStock \in Nat
  BY BranchFields, BranchSizes
<1>4. more \in Nat /\ shelf' \in 0 .. MaxStock
  BY <1>1, <1>3
<1>5. rows' \in Amounts /\ Allocated(rows') = Allocated(rows) + more - rows[b]
  <2> HIDE DEF more
  <2> QED BY <1>1, <1>4, BranchFields, OneRow
<1>6. Allocated(rows') = shelf'
  BY <1>1, <1>2, <1>3, <1>5
<1>7. ~Short(rows', shelf')
  BY <1>5, <1>6, FullNotShort
<1>8. /\ booked' \in [Others -> Int]
      /\ \A c \in Others : booked'[c] = IF c = b THEN booked[c] + qty ELSE booked[c]
  BY <1>1, <1>3, BookOne, BranchFields
<1>9. \A c \in Others : rows'[c] = IF c = b THEN rows[c] + qty ELSE rows[c]
  BY <1>1, BranchFields, BranchSizes DEF Amounts
<1>10. BranchExplained'
  BY <1>1, <1>8, <1>9 DEF BranchInv, BranchExplained
<1>11. NeverMoreInv'
  BY HandlerIInv DEF BranchInv
<1>12. TypeOK'
  BY <1>1, <1>4, <1>5, <1>8 DEF BranchInv, TypeOK
<1> QED BY <1>1, <1>7, <1>10, <1>11, <1>12 DEF BranchInv, Settled, NotShort, SavedExplained

(* The lock lets one transfer through, so what leaves arrives.             *)
LEMMA ClickKeeps ==
  ASSUME BranchInv, NEW from \in Branches, NEW to \in Branches, NEW qty \in 1 .. MaxStock,
         Click(from, to, qty)
  PROVE  BranchInv'
<1> DEFINE left == rows[from] - qty
           more == rows[to] + qty
           mid == [rows EXCEPT ![from] = left]
<1>1. /\ ~pending /\ from # to /\ qty <= seen[from]
      /\ rows' = [rows EXCEPT ![from] = Pos(@ - qty), ![to] = @ + qty]
      /\ booked' = Book(Book(booked, from, -qty), to, qty)
      /\ busy' = TRUE /\ pending' = TRUE
      /\ UNCHANGED <<shelf, seen, saved, branchSaved, disturbed>>
  BY DEF Click, TransferStock, MayTransfer
<1>2. seen = rows /\ Allocated(rows) = shelf
  BY <1>1 DEF BranchInv, NeverMoreInv, ScreenFresh, Settled
<1>3. qty \in Nat /\ rows[from] \in Nat /\ rows[to] \in Nat /\ qty <= rows[from] /\ rows \in Amounts
  BY <1>1, <1>2, BranchFields, BranchSizes
<1>4. left \in Nat /\ more \in Nat /\ Pos(rows[from] - qty) = left
  BY <1>3 DEF Pos
<1>5. rows' = [mid EXCEPT ![to] = more]
  BY <1>1, <1>3, <1>4 DEF Amounts
<1>6. mid \in Amounts /\ Allocated(mid) = Allocated(rows) + left - rows[from]
  <2> HIDE DEF left
  <2> QED BY <1>3, <1>4, OneRow
<1>7. mid[to] = rows[to]
  BY <1>1, <1>3 DEF Amounts
<1>8. rows' \in Amounts /\ Allocated(rows') = Allocated(mid) + more - mid[to]
  <2> HIDE DEF mid, more
  <2> QED BY <1>4, <1>5, <1>6, OneRow
<1>9. Allocated(rows') = shelf'
  <2>1. Allocated(rows) \in Nat
    BY <1>3, AllocatedNat
  <2>2. shelf' = shelf
    BY <1>1
  <2> HIDE DEF mid
  <2> QED BY <1>2, <1>3, <1>6, <1>7, <1>8, <2>1, <2>2
<1>10. ~Short(rows', shelf')
  BY <1>8, <1>9, FullNotShort
<1> DEFINE off == Book(booked, from, -qty)
<1>11. /\ off \in [Others -> Int]
       /\ \A c \in Others : off[c] = IF c = from THEN booked[c] - qty ELSE booked[c]
  BY <1>3, BookOne, BranchFields
<1>12. booked' = Book(off, to, qty)
  BY <1>1
<1> HIDE DEF off
<1>13. /\ booked' \in [Others -> Int]
       /\ \A c \in Others : booked'[c] = IF c = to THEN off[c] + qty ELSE off[c]
  BY <1>3, <1>11, <1>12, BookOne
<1>14. \A c \in Others : rows'[c] = IF c = to THEN rows[c] + qty
                                    ELSE IF c = from THEN rows[c] - qty ELSE rows[c]
  BY <1>1, <1>3, <1>5, BranchSizes DEF Amounts
<1>15. BranchExplained'
  <2>1. ASSUME NEW c \in Others, rows[c] = booked[c] PROVE rows'[c] = booked'[c]
    <3>1. rows[c] \in Int /\ booked[c] \in Int /\ qty \in Int
      BY <1>3, BranchFields, BranchSizes
    <3>2. booked'[c] = IF c = to THEN off[c] + qty ELSE off[c]
      BY <1>13
    <3>3. off[c] = IF c = from THEN booked[c] - qty ELSE booked[c]
      BY <1>11
    <3>4. rows'[c] = IF c = to THEN rows[c] + qty ELSE IF c = from THEN rows[c] - qty ELSE rows[c]
      BY <1>14
    <3> QED BY <1>1, <2>1, <3>1, <3>2, <3>3, <3>4
  <2>2. disturbed' = disturbed
    BY <1>1
  <2> QED BY <2>1, <2>2 DEF BranchInv, BranchExplained
<1>16. NeverMoreInv'
  BY HandlerIInv DEF BranchInv
<1>17. TypeOK'
  BY <1>1, <1>8, <1>13 DEF BranchInv, TypeOK
<1> QED BY <1>1, <1>10, <1>15, <1>16, <1>17 DEF BranchInv, Settled, NotShort, SavedExplained

(* The effect that fits the branch rows to the shelf keeps the invariant.  *)
LEMMA RenderKeeps == ASSUME BranchInv, Render PROVE BranchInv'
<1>1. /\ rows' \in Reconciled(rows, shelf) /\ seen' = rows' /\ busy' = FALSE /\ pending' = FALSE
      /\ UNCHANGED <<shelf, saved, branchSaved, booked, disturbed>>
  BY DEF Render
<1>2. /\ rows' \in Amounts /\ Allocated(rows') = shelf
      /\ ~Short(rows, shelf) => \A b \in Others : rows'[b] = rows[b]
  BY <1>1, BranchFields, ReconciledFits
<1>3. ~Short(rows', shelf)
  BY <1>2, FullNotShort
<1>4. BranchExplained'
  BY <1>1, <1>2 DEF BranchInv, NotShort, BranchExplained
<1>5. NeverMoreInv'
  BY ShopIInv DEF BranchInv
<1>6. TypeOK'
  BY <1>1, <1>2 DEF BranchInv, TypeOK
<1> QED BY <1>1, <1>2, <1>3, <1>4, <1>5, <1>6 DEF BranchInv, Settled, NotShort, SavedExplained

(* A crash, which brings back what was saved, keeps the invariant.         *)
LEMMA CrashKeeps == ASSUME BranchInv, Crash PROVE BranchInv'
<1>1. /\ shelf' = saved /\ rows' = branchSaved.rows /\ seen' = branchSaved.rows
      /\ booked' = branchSaved.booked
      /\ disturbed' = (disturbed \/ Short(branchSaved.rows, saved))
      /\ busy' = FALSE /\ pending' = TRUE /\ UNCHANGED <<saved, branchSaved>>
  BY DEF Crash
<1>2. disturbed' \in BOOLEAN /\ (disturbed => disturbed')
  BY <1>1, Zenon
<1>3. Settled' /\ NotShort'
  <2>1. disturbed' \/ ~Short(branchSaved.rows, saved)
    BY <1>1, Zenon
  <2>2. disturbed' \/ ~Short(rows', shelf')
    BY <1>1, <2>1
  <2> QED BY <1>1, <2>2 DEF Settled, NotShort, Short
<1>4. BranchExplained' /\ SavedExplained'
  <2>1. disturbed' \/ \A b \in Others : branchSaved.rows[b] = branchSaved.booked[b]
    BY <1>2 DEF BranchInv, SavedExplained
  <2> QED BY <1>1, <2>1 DEF BranchExplained, SavedExplained
<1>5. NeverMoreInv'
  BY ShopIInv DEF BranchInv
<1>6. TypeOK'
  BY <1>1, <1>2, BranchFields DEF TypeOK
<1> QED BY <1>1, <1>3, <1>4, <1>5, <1>6 DEF BranchInv

(* A change of the product's stock that names no branch keeps the          *)
(* invariant.                                                              *)
LEMMA OffBranchKeeps ==
  ASSUME BranchInv, NEW qty \in 0 .. MaxStock, OffBranch(qty) PROVE BranchInv'
<1>1. /\ shelf' = qty /\ disturbed' = (disturbed \/ Short(rows, qty)) /\ pending' = TRUE
      /\ UNCHANGED <<rows, seen, busy, saved, branchSaved, booked>>
  BY DEF OffBranch
<1>2. disturbed' \in BOOLEAN /\ (disturbed => disturbed')
  BY <1>1, Zenon
<1>3. Settled' /\ NotShort'
  <2>1. disturbed' \/ ~Short(rows, qty)
    BY <1>1, Zenon
  <2>2. disturbed' \/ ~Short(rows', shelf')
    BY <1>1, <2>1
  <2> QED BY <1>1, <2>2 DEF Settled, NotShort, Short
<1>4. BranchExplained' /\ SavedExplained'
  BY <1>1, <1>2 DEF BranchInv, BranchExplained, SavedExplained
<1>5. NeverMoreInv'
  BY ShopIInv DEF BranchInv
<1>6. TypeOK'
  BY <1>1, <1>2 DEF BranchInv, TypeOK
<1> QED BY <1>1, <1>3, <1>4, <1>5, <1>6 DEF BranchInv

(* Saving the products, saving the branches and a stutter keep the         *)
(* invariant.                                                              *)
LEMMA FlushKeeps ==
  ASSUME BranchInv, FlushProducts \/ FlushBranches \/ UNCHANGED vars PROVE BranchInv'
<1>1. /\ UNCHANGED <<shelf, rows, seen, busy, pending, booked, disturbed>>
      /\ saved' = shelf \/ saved' = saved
      /\ branchSaved' = branchSaved \/ branchSaved' = [rows |-> rows, booked |-> booked]
  BY DEF FlushProducts, FlushBranches, vars
<1>2. NeverMoreInv'
  BY StepIInv DEF BranchInv, Next
<1>3. TypeOK' /\ Settled' /\ NotShort' /\ BranchExplained'
  BY <1>1 DEF BranchInv, TypeOK, Settled, NotShort, BranchExplained, Short, Allocated
<1>4. saved' \in 0 .. MaxStock
  BY <1>1, BranchFields
<1>5. \/ branchSaved'.rows = branchSaved.rows /\ branchSaved'.booked = branchSaved.booked
      \/ branchSaved'.rows = rows /\ branchSaved'.booked = booked
  BY <1>1
<1>6. branchSaved'.rows \in Amounts /\ branchSaved'.booked \in [Others -> Int]
  BY <1>5, BranchFields
<1>7. SavedExplained'
  BY <1>1, <1>5 DEF BranchInv, BranchExplained, SavedExplained
<1> QED BY <1>2, <1>3, <1>4, <1>6, <1>7 DEF BranchInv

(* Every step of the branches keeps the invariant.                         *)
LEMMA BranchStep == ASSUME BranchInv, [Next]_vars PROVE BranchInv'
<1>1. CASE \E b \in Branches, qty \in 1 .. MaxStock : Sell(b, qty) \/ Receive(b, qty)
  BY <1>1, SellKeeps, ReceiveKeeps
<1>2. CASE \E qty \in 0 .. MaxStock : OffBranch(qty)
  BY <1>2, OffBranchKeeps
<1>3. CASE \E from, to \in Branches, qty \in 1 .. MaxStock : Click(from, to, qty)
  BY <1>3, ClickKeeps
<1> QED BY <1>1, <1>2, <1>3, RenderKeeps, CrashKeeps, FlushKeeps DEF Next

(* Rows, books and the quantity tell one story through sales, receipts,    *)
(* transfers, flushes apart and power cuts (AutoPartsProContext.tsx).      *)
THEOREM BranchesAlwaysInv == Spec => []BranchInv
<1>1. Init => BranchInv
  BY BranchInitInv
<1>2. BranchInv /\ [Next]_vars => BranchInv'
  BY BranchStep
<1> QED BY <1>1, <1>2, PTL DEF Spec

(* A branch shows no less than was booked to it, for every set of branches *)
(* and every stock, unless units went missing that the main branch could   *)
(* not make up.                                                            *)
THEOREM BranchesAlwaysExplained == Spec => []BranchExplained
<1>1. BranchInv => BranchExplained
  BY DEF BranchInv
<1> QED BY <1>1, BranchesAlwaysInv, PTL

---------------------------------------------------------------------------
(* Units and pieces: the invariant                                         *)

Box == [units : Nat, loose : 0 .. PiecesPerUnit - 1]

(* What came back of an invoice was on it, and none is deleted once        *)
(* something did.                                                          *)
SlipFine(s) ==
  /\ slip[s].back.whole <= slip[s].lines.whole /\ slip[s].back.pieces <= slip[s].lines.pieces
  /\ slip[s].deleted => slip[s].back = Nothing
  /\ slip[s].status = "none" => slip[s].back = Nothing /\ ~slip[s].deleted

(* Once they have settled, the rows hold the closed units between them.    *)
RowsSettled ==
  ~unsettled => branchRow.main + branchRow.side = box.units * PiecesPerUnit

PieceInv ==
  /\ PieceTypeOK /\ PiecesExplained /\ SideKeepsItsPieces /\ RowsSettled
  /\ \A s \in Slips : SlipFine(s)

---------------------------------------------------------------------------
(* Opening units                                                           *)

(* The greater of zero and a number, by cases.                             *)
LEMMA MaxZero == \A x \in Int : Max({0, x}) = (IF x > 0 THEN x ELSE 0)
<1> SUFFICES ASSUME NEW x \in Int PROVE Max({0, x}) = (IF x > 0 THEN x ELSE 0)
  OBVIOUS
<1> DEFINE m == IF x > 0 THEN x ELSE 0
<1>1. m \in {0, x} /\ \A y \in {0, x} : m >= y
  OBVIOUS
<1>2. \A n \in {0, x} : (\A y \in {0, x} : n >= y) => n = m
  OBVIOUS
<1> HIDE DEF m
<1>3. (CHOOSE n \in {0, x} : \A y \in {0, x} : n >= y) = m
  BY <1>1, <1>2
<1> QED BY <1>3 DEF Max, m

(* The types of the constants of the pieces.                               *)
LEMMA PieceSizes ==
  /\ PiecesPerUnit \in Nat \ {0} /\ MaxWhole \in Nat /\ MaxPieces \in Nat
  /\ MainUnits \in Nat /\ SideUnits \in Nat /\ MaxCorrection \in Nat /\ IsFiniteSet(Slips)
BY PieceAssumption

(* A number of pieces is so many full units and the rest.                  *)
LEMMA UnitsAndRest ==
  ASSUME NEW n \in Nat
  PROVE  \E full \in Nat, rest \in 0 .. PiecesPerUnit - 1 :
           /\ n \div PiecesPerUnit = full /\ n % PiecesPerUnit = rest
           /\ full * PiecesPerUnit + rest = n
<1> DEFINE k == PiecesPerUnit
<1>1. k \in Nat /\ k > 0
  BY PieceSizes
<1> HIDE DEF k
<1>2. n % k \in 0 .. k - 1
  BY <1>1
<1>3. n \div k \in Nat
  BY <1>1
<1>4. n = k * (n \div k) + (n % k)
  BY <1>1
<1>5. \E full \in Nat, rest \in 0 .. k - 1 : n \div k = full /\ n % k = rest
  BY <1>2, <1>3
<1>6. PICK full \in Nat, rest \in 0 .. k - 1 : n \div k = full /\ n % k = rest
  BY <1>5
<1>7. n = k * full + rest
  BY <1>4, <1>6
<1>8. full * k + rest = n
  BY <1>1, <1>7
<1> QED BY <1>6, <1>8 DEF k

(* Arithmetic of units that are worth a fixed number of pieces.            *)
LEMMA TimesUnit ==
  /\ \A x \in Nat : x * PiecesPerUnit \in Nat
  /\ \A x \in Int : x * PiecesPerUnit \in Int
  /\ \A x, y \in Int : (x + y) * PiecesPerUnit = x * PiecesPerUnit + y * PiecesPerUnit
  /\ \A x, y \in Int : (x - y) * PiecesPerUnit = x * PiecesPerUnit - y * PiecesPerUnit
  /\ \A x, y \in Int : x <= y <=> x * PiecesPerUnit <= y * PiecesPerUnit
BY PieceSizes

(* Adding loose pieces adds exactly so many to what is on hand.            *)
LEMMA AddPiecesExact ==
  ASSUME NEW units \in Nat, NEW loose \in Nat, NEW n \in Nat
  PROVE  LET after == AddPieces([units |-> units, loose |-> loose], n)
         IN  after \in Box /\ OnHand(after) = units * PiecesPerUnit + loose + n
<1> DEFINE after == AddPieces([units |-> units, loose |-> loose], n)
<1>1. PICK full \in Nat, rest \in 0 .. PiecesPerUnit - 1 :
        /\ (loose + n) \div PiecesPerUnit = full /\ (loose + n) % PiecesPerUnit = rest
        /\ full * PiecesPerUnit + rest = loose + n
  <2>1. loose + n \in Nat
    OBVIOUS
  <2> QED BY <2>1, UnitsAndRest
<1>2. after = [units |-> units + full, loose |-> rest]
  BY <1>1 DEF AddPieces
<1>3. after \in Box
  BY <1>1, <1>2 DEF Box
<1>4. (units + full) * PiecesPerUnit = units * PiecesPerUnit + full * PiecesPerUnit
  BY <1>1, TimesUnit
<1>5. OnHand(after) = (units + full) * PiecesPerUnit + rest
  BY <1>2 DEF OnHand
<1>6. units * PiecesPerUnit \in Int /\ full * PiecesPerUnit \in Int /\ rest \in Int
  BY <1>1, TimesUnit, PieceSizes
<1>7. OnHand(after) = units * PiecesPerUnit + loose + n
  BY <1>1, <1>4, <1>5, <1>6
<1> QED BY <1>3, <1>7

(* As many units are opened as it takes, and no more pieces go than asked. *)
LEMMA TakePiecesExact ==
  ASSUME NEW stock \in Box, NEW n \in Nat, n <= OnHand(stock)
  PROVE  TakePieces(stock, n) \in Box /\ OnHand(TakePieces(stock, n)) = OnHand(stock) - n
<1> DEFINE k == PiecesPerUnit
           needed == n - stock.loose
           after == TakePieces(stock, n)
<1>1. /\ stock.units \in Nat /\ stock.loose \in Nat /\ stock.loose <= k - 1
      /\ k \in Nat \ {0} /\ stock.units * k \in Nat
      /\ n <= stock.units * k + stock.loose
  BY PieceSizes, TimesUnit DEF Box, OnHand
<1>2. CASE needed <= 0
  <2>1. after = [stock EXCEPT !.loose = @ - n]
    BY <1>2 DEF TakePieces
  <2>2. after = [units |-> stock.units, loose |-> stock.loose - n]
    BY <2>1 DEF Box
  <2>3. stock.loose - n \in 0 .. k - 1
    BY <1>1, <1>2
  <2>4. after \in Box
    BY <1>1, <2>2, <2>3 DEF Box
  <2>5. OnHand(after) = stock.units * k + (stock.loose - n)
    BY <2>2 DEF OnHand
  <2>6. OnHand(after) = OnHand(stock) - n
    BY <1>1, <2>5 DEF OnHand
  <2> QED BY <2>4, <2>6
<1>3. CASE ~(needed <= 0)
  <2>1. needed \in Nat \ {0} /\ needed <= stock.units * k /\ needed + k - 1 \in Nat
    BY <1>1, <1>3
  <2>2. PICK opened \in Nat, rest \in 0 .. k - 1 :
          /\ (needed + k - 1) \div k = opened /\ opened * k + rest = needed + k - 1
    <3> HIDE DEF needed
    <3> QED BY <2>1, UnitsAndRest
  <2>3. after = [units |-> Max({0, stock.units - opened}), loose |-> opened * k - needed]
    BY <1>3, <2>2 DEF TakePieces
  <2> HIDE DEF needed
  <2>4. opened * k \in Nat /\ opened * k - needed \in 0 .. k - 1
    <3>1. opened * k \in Nat
      BY <2>2, TimesUnit
    <3> QED BY <1>1, <2>1, <2>2, <3>1
  <2>5. opened <= stock.units
    <3>1. opened * k < stock.units * k + k
      BY <1>1, <2>1, <2>2, <2>4
    <3>2. (stock.units + 1) * k = stock.units * k + k
      BY <1>1
    <3>3. opened < stock.units + 1
      <4>1. opened \in Int /\ stock.units + 1 \in Int
        BY <1>1, <2>2
      <4>2. stock.units + 1 <= opened => (stock.units + 1) * k <= opened * k
        BY <4>1, TimesUnit
      <4>3. opened * k \in Int /\ stock.units * k + k \in Int
        BY <1>1, <2>4
      <4> QED BY <3>1, <3>2, <4>1, <4>2, <4>3
    <3> QED BY <1>1, <2>2, <3>3
  <2>6. Max({0, stock.units - opened}) = stock.units - opened /\ stock.units - opened \in Nat
    <3>1. stock.units - opened \in Nat
      BY <1>1, <2>2, <2>5
    <3> QED BY <3>1, MaxZero
  <2>7. after = [units |-> stock.units - opened, loose |-> opened * k - needed]
    BY <2>3, <2>6
  <2>8. after \in Box
    BY <2>4, <2>6, <2>7 DEF Box
  <2>9. OnHand(after) = (stock.units - opened) * k + (opened * k - needed)
    BY <2>7 DEF OnHand
  <2>10. (stock.units - opened) * k = stock.units * k - opened * k
    BY <1>1, <2>2, TimesUnit
  <2>11. OnHand(after) = stock.units * k - needed
    BY <1>1, <2>1, <2>4, <2>9, <2>10
  <2>12. OnHand(stock) = stock.units * k + stock.loose
    BY DEF OnHand
  <2>13. OnHand(after) = OnHand(stock) - n
    BY <1>1, <2>11, <2>12 DEF needed
  <2> QED BY <2>8, <2>13
<1> QED BY <1>2, <1>3

(* The types of the fields of a line.                                      *)
LEMMA LineFields ==
  ASSUME NEW l \in Lines
  PROVE  /\ l.whole \in Nat /\ l.pieces \in Nat
         /\ l.whole * PiecesPerUnit \in Nat /\ InPieces(l) \in Nat
         /\ InPieces(l) = l.whole * PiecesPerUnit + l.pieces
<1>1. l.whole \in Nat /\ l.pieces \in Nat
  BY PieceSizes DEF Lines
<1>2. l.whole * PiecesPerUnit \in Nat
  BY <1>1, TimesUnit
<1> QED BY <1>1, <1>2 DEF InPieces

(* The types of the fields of the box, and that fewer pieces than a unit   *)
(* are loose.                                                              *)
LEMMA BoxFields ==
  ASSUME NEW stock \in Box
  PROVE  /\ stock.units \in Nat /\ stock.loose \in Nat /\ stock.loose <= PiecesPerUnit - 1
         /\ stock.units * PiecesPerUnit \in Nat /\ OnHand(stock) \in Nat
         /\ OnHand(stock) = stock.units * PiecesPerUnit + stock.loose
<1>1. stock.units \in Nat /\ stock.loose \in Nat /\ stock.loose <= PiecesPerUnit - 1
  BY PieceSizes DEF Box
<1>2. stock.units * PiecesPerUnit \in Nat
  BY <1>1, TimesUnit
<1> QED BY <1>1, <1>2 DEF OnHand

(* Putting a line back adds exactly its pieces to what is on hand.         *)
LEMMA PutBackExact ==
  ASSUME NEW stock \in Box, NEW l \in Lines
  PROVE  PutBack(stock, l) \in Box /\ OnHand(PutBack(stock, l)) = OnHand(stock) + InPieces(l)
<1> DEFINE more == stock.units + l.whole
<1>1. stock.units \in Nat /\ stock.loose \in Nat /\ l.whole \in Nat /\ l.pieces \in Nat /\ more \in Nat
  BY BoxFields, LineFields
<1>2. [stock EXCEPT !.units = @ + l.whole] = [units |-> more, loose |-> stock.loose]
  BY DEF Box
<1>3. PutBack(stock, l) = AddPieces([units |-> more, loose |-> stock.loose], l.pieces)
  BY <1>2 DEF PutBack
<1> HIDE DEF more
<1>4. /\ PutBack(stock, l) \in Box
      /\ OnHand(PutBack(stock, l)) = more * PiecesPerUnit + stock.loose + l.pieces
  BY <1>1, <1>3, AddPiecesExact
<1>5. more * PiecesPerUnit = stock.units * PiecesPerUnit + l.whole * PiecesPerUnit
  BY <1>1, PieceSizes DEF more
<1> QED BY <1>1, <1>4, <1>5, BoxFields, LineFields

(* Deducting a line the box can fill takes exactly its pieces from what is *)
(* on hand.                                                                *)
LEMMA DeductExact ==
  ASSUME NEW stock \in Box, NEW l \in Lines, InPieces(l) <= OnHand(stock)
  PROVE  Deduct(stock, l) \in Box /\ OnHand(Deduct(stock, l)) = OnHand(stock) - InPieces(l)
<1> DEFINE k == PiecesPerUnit
           left == [units |-> stock.units - l.whole, loose |-> stock.loose]
<1>1. /\ stock.units \in Nat /\ stock.loose \in Nat /\ stock.loose <= k - 1
      /\ l.whole \in Nat /\ l.pieces \in Nat /\ k \in Nat \ {0}
      /\ stock.units * k \in Nat /\ l.whole * k \in Nat
      /\ OnHand(stock) = stock.units * k + stock.loose /\ InPieces(l) = l.whole * k + l.pieces
  BY BoxFields, LineFields, PieceSizes
<1>2. l.whole <= stock.units
  <2>1. l.whole * k < stock.units * k + k
    BY <1>1
  <2>2. (stock.units + 1) * k = stock.units * k + k
    BY <1>1
  <2>3. stock.units + 1 <= l.whole => (stock.units + 1) * k <= l.whole * k
    BY <1>1, TimesUnit
  <2> QED BY <1>1, <2>1, <2>2, <2>3
<1>3. stock.units - l.whole \in Nat /\ Max({0, stock.units - l.whole}) = stock.units - l.whole
  <2>1. stock.units - l.whole \in Nat
    BY <1>1, <1>2
  <2> QED BY <2>1, MaxZero
<1>4. [stock EXCEPT !.units = Max({0, @ - l.whole})] = left
  BY <1>3 DEF Box
<1>5. left \in Box
  BY <1>3 DEF Box
<1>6. OnHand(left) = (stock.units - l.whole) * k + stock.loose
  BY DEF OnHand
<1>7. (stock.units - l.whole) * k = stock.units * k - l.whole * k
  BY <1>1, TimesUnit
<1>8. OnHand(left) = OnHand(stock) - l.whole * k /\ l.pieces <= OnHand(left)
  BY <1>1, <1>6, <1>7
<1>9. Deduct(stock, l) = TakePieces(left, l.pieces)
  BY <1>4 DEF Deduct
<1> HIDE DEF left
<1>10. Deduct(stock, l) \in Box /\ OnHand(Deduct(stock, l)) = OnHand(left) - l.pieces
  BY <1>1, <1>5, <1>8, <1>9, TakePiecesExact
<1> QED BY <1>1, <1>8, <1>10

---------------------------------------------------------------------------
(* One invoice changes                                                     *)

SlipRecord == [status : {"none", "open", "cancelled"}, deleted : BOOLEAN,
               lines : Lines, back : Lines]

(* The pieces one invoice has out.                                         *)
NetOf(r) == IF r.status = "open" /\ ~r.deleted THEN InPieces(r.lines) - InPieces(r.back) ELSE 0

OutOf(book) == [s \in Slips |-> NetOf(book[s])]

(* The empty line is a line of no pieces.                                  *)
LEMMA NothingIsALine == Nothing \in Lines /\ InPieces(Nothing) = 0
<1>1. 0 \in 0 .. MaxWhole /\ 0 \in 0 .. MaxPieces /\ 0 * PiecesPerUnit = 0
  BY PieceSizes
<1> QED BY <1>1 DEF Nothing, Lines, InPieces

(* What a slip took out, net of what came back, is an integer.             *)
LEMMA NetIsInt == \A r \in SlipRecord : NetOf(r) \in Int
<1> SUFFICES ASSUME NEW r \in SlipRecord PROVE NetOf(r) \in Int
  OBVIOUS
<1>1. r.lines \in Lines /\ r.back \in Lines
  BY DEF SlipRecord
<1>2. InPieces(r.lines) \in Nat /\ InPieces(r.back) \in Nat
  BY <1>1, LineFields
<1> QED BY <1>2 DEF NetOf

(* Changing one slip changes the sum over all of them by that slip's       *)
(* change.                                                                 *)
LEMMA OneSlip ==
  \A before \in [Slips -> SlipRecord], s \in Slips, r \in SlipRecord :
    SumFunctionOnSet(OutOf([before EXCEPT ![s] = r]), Slips)
      = SumFunctionOnSet(OutOf(before), Slips) + NetOf(r) - NetOf(before[s])
<1> SUFFICES ASSUME NEW before \in [Slips -> SlipRecord], NEW s \in Slips, NEW r \in SlipRecord
    PROVE SumFunctionOnSet(OutOf([before EXCEPT ![s] = r]), Slips)
            = SumFunctionOnSet(OutOf(before), Slips) + NetOf(r) - NetOf(before[s])
  OBVIOUS
<1> DEFINE f == OutOf(before)
           g == OutOf([before EXCEPT ![s] = r])
<1>1. f \in [Slips -> Int] /\ g \in [Slips -> Int]
  <2>1. \A t \in Slips : before[t] \in SlipRecord /\ [before EXCEPT ![s] = r][t] \in SlipRecord
    OBVIOUS
  <2> QED BY <2>1, NetIsInt DEF OutOf
<1>2. \A t \in Slips \ {s} : g[t] = f[t]
  BY DEF OutOf
<1>3. g[s] = NetOf(r) /\ f[s] = NetOf(before[s])
  BY DEF OutOf
<1>4. IsFiniteSet(Slips)
  BY PieceSizes
<1> HIDE DEF f, g
<1>5. (\A t \in Slips : f[t] \in Int) /\ (\A t \in Slips : g[t] \in Int)
  BY <1>1
<1>6. SumFunctionOnSet(g, Slips) = SumFunctionOnSet(f, Slips) + g[s] - f[s]
  BY <1>2, <1>4, <1>5, SumChange
<1> QED BY <1>3, <1>6 DEF f, g

(* What is still out is the sum of what each slip took out.                *)
LEMMA StillOutIsOutOf == StillOut = OutOf(slip)
BY DEF StillOut, OutOf, NetOf, Open

(* What the slips took out together is an integer.                         *)
LEMMA StillOutIsInt ==
  \A book \in [Slips -> SlipRecord] : SumFunctionOnSet(OutOf(book), Slips) \in Int
<1> SUFFICES ASSUME NEW book \in [Slips -> SlipRecord]
    PROVE SumFunctionOnSet(OutOf(book), Slips) \in Int
  OBVIOUS
<1>1. \A t \in Slips : OutOf(book)[t] \in Int
  <2>1. \A t \in Slips : book[t] \in SlipRecord
    OBVIOUS
  <2> QED BY <2>1, NetIsInt DEF OutOf
<1> QED BY <1>1, PieceSizes, SumInt

(* What a step did to one invoice is what it did to the box.               *)
SlipStep(s, r) ==
  /\ r \in SlipRecord /\ slip' = [slip EXCEPT ![s] = r]
  /\ box' \in Box /\ OnHand(box') = OnHand(box) + NetOf(slip[s]) - NetOf(r)
  /\ corrected' = corrected

(* A step that moves the box by what it moves one slip keeps the pieces    *)
(* explained.                                                              *)
LEMMA SlipStepExplained ==
  ASSUME PieceTypeOK, PiecesExplained, NEW s \in Slips, NEW r, SlipStep(s, r)
  PROVE  PiecesExplained'
<1> DEFINE was == SumFunctionOnSet(OutOf(slip), Slips)
           is == SumFunctionOnSet(OutOf(slip'), Slips)
           begun == (MainUnits + SideUnits) * PiecesPerUnit
<1>1. slip \in [Slips -> SlipRecord] /\ r \in SlipRecord
  BY DEF PieceTypeOK, SlipStep, SlipRecord
<1>2. is = was + NetOf(r) - NetOf(slip[s])
  BY <1>1, OneSlip DEF SlipStep
<1>3. was \in Int /\ NetOf(r) \in Int /\ NetOf(slip[s]) \in Int
  <2>1. slip[s] \in SlipRecord
    BY <1>1
  <2> QED BY <1>1, <2>1, NetIsInt, StillOutIsInt
<1>4. OnHand(box) = begun + corrected - was
  BY StillOutIsOutOf DEF PiecesExplained
<1>5. begun \in Int /\ corrected \in Int
  BY PieceSizes, TimesUnit DEF PieceTypeOK
<1>6. OnHand(box') = OnHand(box) + NetOf(slip[s]) - NetOf(r) /\ corrected' = corrected
  BY DEF SlipStep
<1> HIDE DEF was, is, begun
<1>7. OnHand(box') = begun + corrected' - is
  BY <1>2, <1>3, <1>4, <1>5, <1>6
<1>8. StillOut' = OutOf(slip')
  BY DEF StillOut, OutOf, NetOf, Open
<1>9. OnHand(box)' = OnHand(box')
  BY DEF OnHand
<1> QED BY <1>7, <1>8, <1>9 DEF PiecesExplained, begun, is

---------------------------------------------------------------------------
(* The operations                                                          *)

(* The initial states of the pieces satisfy the invariant.                 *)
LEMMA PieceInitInv == ASSUME PieceInit PROVE PieceInv
<1>1. PieceTypeOK
  <2>1. box \in Box
    BY PieceSizes DEF PieceInit, Box
  <2>2. slip \in [Slips -> SlipRecord]
    BY NothingIsALine DEF PieceInit, SlipRecord
  <2>3. branchRow \in [Counters -> Nat]
    <3>1. MainUnits * PiecesPerUnit \in Nat /\ SideUnits * PiecesPerUnit \in Nat
      BY PieceSizes, TimesUnit
    <3> DEFINE m == MainUnits * PiecesPerUnit
               n == SideUnits * PiecesPerUnit
    <3>2. branchRow = [main |-> m, side |-> n]
      BY DEF PieceInit
    <3>3. m \in Nat /\ n \in Nat
      BY <3>1
    <3> HIDE DEF m, n
    <3>4. branchRow = [b \in Counters |-> IF b = "main" THEN m ELSE n]
      BY <3>2 DEF Counters
    <3> QED BY <3>3, <3>4
  <2>4. unsettled \in BOOLEAN /\ corrected \in Int /\ sideSold \in Nat /\ sideShort \in BOOLEAN
    <3>1. corrected = 0 /\ sideSold = 0 /\ 0 \in Int /\ 0 \in Nat
      BY DEF PieceInit
    <3>2. unsettled \in BOOLEAN /\ sideShort \in BOOLEAN
      BY Zenon DEF PieceInit
    <3> QED BY <3>1, <3>2
  <2> QED BY <2>1, <2>2, <2>3, <2>4 DEF PieceTypeOK, Box, SlipRecord
<1>2. PiecesExplained
  <2>1. \A s \in Slips : StillOut[s] = 0
    BY DEF PieceInit, StillOut, Open
  <2> DEFINE f == StillOut
  <2>2. \A s \in Slips : f[s] = 0
    BY <2>1
  <2> HIDE DEF f
  <2>3. SumFunctionOnSet(f, Slips) = 0
    BY <2>2, PieceSizes, SumZero
  <2>4. OnHand(box) = (MainUnits + SideUnits) * PiecesPerUnit
    <3>1. OnHand(box) = (MainUnits + SideUnits) * PiecesPerUnit + 0
      BY DEF PieceInit, OnHand
    <3>2. (MainUnits + SideUnits) * PiecesPerUnit \in Int
      BY PieceSizes, TimesUnit
    <3> QED BY <3>1, <3>2
  <2>5. (MainUnits + SideUnits) * PiecesPerUnit \in Int
    BY PieceSizes, TimesUnit
  <2> QED BY <2>3, <2>4, <2>5 DEF PieceInit, PiecesExplained, f
<1>3. SideKeepsItsPieces /\ RowsSettled
  <2>1. (MainUnits + SideUnits) * PiecesPerUnit
          = MainUnits * PiecesPerUnit + SideUnits * PiecesPerUnit
    BY PieceSizes, TimesUnit
  <2>2. SideUnits * PiecesPerUnit \in Int
    BY PieceSizes, TimesUnit
  <2> QED BY <2>1, <2>2 DEF PieceInit, SideKeepsItsPieces, RowsSettled
<1>4. \A s \in Slips : SlipFine(s)
  BY NothingIsALine DEF PieceInit, SlipFine, Nothing
<1> QED BY <1>1, <1>2, <1>3, <1>4 DEF PieceInv

(* The types of a slip's fields, from the invariant.                       *)
LEMMA SlipFields ==
  ASSUME PieceInv, NEW s \in Slips
  PROVE  /\ slip \in [Slips -> SlipRecord] /\ slip[s] \in SlipRecord
         /\ slip[s].lines \in Lines /\ slip[s].back \in Lines
         /\ slip[s].status \in {"none", "open", "cancelled"} /\ slip[s].deleted \in BOOLEAN
         /\ box \in Box /\ SlipFine(s)
<1>1. slip \in [Slips -> SlipRecord] /\ box \in Box /\ SlipFine(s)
  BY DEF PieceInv, PieceTypeOK, SlipRecord, Box
<1>2. slip[s] \in SlipRecord
  BY <1>1
<1> QED BY <1>1, <1>2 DEF SlipRecord

(* What a step that touches one invoice, and no row, has to show.          *)
LEMMA SlipStepKeeps ==
  ASSUME PieceInv, NEW s \in Slips, NEW r, SlipStep(s, r), SlipFine(s)',
         unsettled' = TRUE, UNCHANGED <<branchRow, sideSold, sideShort>>
  PROVE  PieceInv'
<1>1. PieceTypeOK'
  <2>1. slip \in [Slips -> SlipRecord] /\ r \in SlipRecord
    BY SlipFields DEF SlipStep
  <2>2. slip' \in [Slips -> SlipRecord]
    BY <2>1 DEF SlipStep
  <2>3. box' \in Box /\ corrected' = corrected
    BY DEF SlipStep
  <2> QED BY <2>2, <2>3 DEF PieceInv, PieceTypeOK, SlipRecord, Box
<1>2. PiecesExplained'
  BY SlipStepExplained DEF PieceInv
<1>3. SideKeepsItsPieces' /\ RowsSettled'
  BY DEF PieceInv, SideKeepsItsPieces, RowsSettled
<1>4. ASSUME NEW t \in Slips PROVE SlipFine(t)'
  <2>1. CASE t = s
    BY <2>1
  <2>2. CASE t # s
    <3>1. slip'[t] = slip[t]
      BY <2>2, SlipFields DEF SlipStep
    <3> QED BY <3>1, SlipFields DEF SlipFine
  <2> QED BY <2>1, <2>2
<1> QED BY <1>1, <1>2, <1>3, <1>4 DEF PieceInv

(* An invoice is made: what it takes off the box, it has out.              *)
LEMMA IssueStep ==
  ASSUME PieceInv, NEW s \in Slips, NEW l \in Lines, Issue(s, l),
         InPieces(l) <= OnHand(box), corrected' = corrected
  PROVE  SlipStep(s, [slip[s] EXCEPT !.status = "open", !.lines = l]) /\ SlipFine(s)'
<1> DEFINE r == [slip[s] EXCEPT !.status = "open", !.lines = l]
<1>1. /\ slip[s].status = "none" /\ slip[s].back = Nothing /\ ~slip[s].deleted
      /\ slip[s] \in SlipRecord /\ slip \in [Slips -> SlipRecord] /\ box \in Box
  BY SlipFields DEF Issue, SlipFine
<1>2. r \in SlipRecord
  BY <1>1 DEF SlipRecord
<1>3. slip' = [slip EXCEPT ![s] = r]
  BY <1>1 DEF Issue, SlipRecord
<1>4. r.status = "open" /\ r.deleted = slip[s].deleted /\ r.lines = l /\ r.back = Nothing
  BY <1>1 DEF SlipRecord
<1>5. NetOf(slip[s]) = 0 /\ NetOf(r) = InPieces(l)
  <2>1. InPieces(l) \in Nat
    BY LineFields
  <2> QED BY <1>1, <1>4, <2>1, NothingIsALine DEF NetOf
<1>6. box' \in Box /\ OnHand(box') = OnHand(box) - InPieces(l)
  BY <1>1, DeductExact DEF Issue
<1>7. slip'[s] = r
  BY <1>1, <1>3
<1> HIDE DEF r
<1>8. OnHand(box') = OnHand(box) + NetOf(slip[s]) - NetOf(r)
  <2>1. OnHand(box) \in Nat /\ InPieces(l) \in Nat
    BY <1>1, BoxFields, LineFields
  <2> QED BY <1>5, <1>6, <2>1
<1>9. SlipFine(s)'
  <2>1. l.whole \in Nat /\ l.pieces \in Nat
    BY LineFields
  <2> QED BY <1>1, <1>4, <1>7, <2>1 DEF SlipFine, Nothing
<1>10. SlipStep(s, r)
  BY <1>2, <1>3, <1>6, <1>8 DEF SlipStep
<1> QED BY <1>9, <1>10 DEF r

(* A sale from the main store keeps the invariant.                         *)
LEMMA SellInOfficeKeeps ==
  ASSUME PieceInv, NEW s \in Slips, NEW l \in Lines, SellInOffice(s, l)
  PROVE  PieceInv'
<1>1. /\ Issue(s, l) /\ InPieces(l) <= OnHand(box) /\ corrected' = corrected
      /\ UNCHANGED <<branchRow, sideSold, sideShort>>
  BY DEF SellInOffice
<1>2. SlipStep(s, [slip[s] EXCEPT !.status = "open", !.lines = l]) /\ SlipFine(s)'
  BY <1>1, IssueStep
<1>3. unsettled' = TRUE
  BY <1>1 DEF Issue
<1> QED BY <1>1, <1>2, <1>3, SlipStepKeeps

(* Editing a slip keeps the invariant.                                     *)
LEMMA EditSlipKeeps ==
  ASSUME PieceInv, NEW s \in Slips, NEW l \in Lines, EditSlip(s, l)
  PROVE  PieceInv'
<1> DEFINE before == slip[s].lines
           r == [slip[s] EXCEPT !.lines = l]
<1>1. /\ slip[s] \in SlipRecord /\ slip \in [Slips -> SlipRecord] /\ box \in Box
      /\ before \in Lines /\ slip[s].back \in Lines
      /\ SlipFine(s) /\ slip[s].status = "open" /\ ~slip[s].deleted
  BY SlipFields DEF EditSlip, Open
<1>2. r \in SlipRecord /\ slip' = [slip EXCEPT ![s] = r] /\ slip'[s] = r
  BY <1>1 DEF EditSlip, SlipRecord
<1>3. r.status = slip[s].status /\ r.deleted = slip[s].deleted /\ r.lines = l /\ r.back = slip[s].back
  BY <1>1 DEF SlipRecord
<1>4. PutBack(box, before) \in Box /\ OnHand(PutBack(box, before)) = OnHand(box) + InPieces(before)
  BY <1>1, PutBackExact
<1>5. InPieces(l) <= OnHand(box) + InPieces(before) /\ box' = Deduct(PutBack(box, before), l)
  BY DEF EditSlip
<1>6. box' \in Box /\ OnHand(box') = OnHand(box) + InPieces(before) - InPieces(l)
  <2> DEFINE put == PutBack(box, before)
  <2>1. put \in Box /\ OnHand(put) = OnHand(box) + InPieces(before) /\ InPieces(l) <= OnHand(put)
    BY <1>4, <1>5
  <2>2. box' = Deduct(put, l)
    BY <1>5
  <2> HIDE DEF put
  <2>3. Deduct(put, l) \in Box /\ OnHand(Deduct(put, l)) = OnHand(put) - InPieces(l)
    BY <2>1, DeductExact
  <2>4. OnHand(box') = OnHand(put) - InPieces(l)
    BY <2>2, <2>3
  <2>5. box' \in Box
    BY <2>2, <2>3
  <2> HIDE DEF before
  <2>6. OnHand(box') = OnHand(box) + InPieces(before) - InPieces(l)
    <3>1. OnHand(box) \in Int /\ InPieces(before) \in Int /\ InPieces(l) \in Int
      BY <1>1, BoxFields, LineFields
    <3> QED BY <2>1, <2>4, <3>1
  <2> QED BY <2>5, <2>6
<1>7. NetOf(slip[s]) = InPieces(before) - InPieces(slip[s].back)
      /\ NetOf(r) = InPieces(l) - InPieces(slip[s].back)
  BY <1>1, <1>3 DEF NetOf
<1>8. SlipFine(s)'
  BY <1>1, <1>2, <1>3 DEF SlipFine, EditSlip, LeavesReturned, Lines
<1> HIDE DEF before, r
<1>9. SlipStep(s, r)
  <2>1. OnHand(box) \in Nat /\ InPieces(l) \in Nat /\ InPieces(before) \in Nat /\ InPieces(slip[s].back) \in Nat
    BY <1>1, BoxFields, LineFields
  <2>2. OnHand(box') = OnHand(box) + NetOf(slip[s]) - NetOf(r)
    BY <1>6, <1>7, <2>1
  <2> QED BY <1>2, <1>6, <2>2 DEF SlipStep, EditSlip
<1> QED BY <1>8, <1>9, SlipStepKeeps DEF EditSlip

(* A return against a slip keeps the invariant.                            *)
LEMMA ReturnGoodsKeeps ==
  ASSUME PieceInv, NEW s \in Slips, NEW l \in Lines, ReturnGoods(s, l)
  PROVE  PieceInv'
<1> DEFINE back == slip[s].back
           more == [whole |-> back.whole + l.whole, pieces |-> back.pieces + l.pieces]
           r == [slip[s] EXCEPT !.back = more]
<1>1. /\ slip[s] \in SlipRecord /\ slip \in [Slips -> SlipRecord] /\ box \in Box
      /\ slip[s].lines \in Lines /\ back \in Lines
      /\ SlipFine(s) /\ slip[s].status = "open" /\ ~slip[s].deleted
  BY SlipFields DEF ReturnGoods, Open
<1>2. /\ l.whole \in Nat /\ l.pieces \in Nat /\ back.whole \in Nat /\ back.pieces \in Nat
      /\ slip[s].lines.whole \in 0 .. MaxWhole /\ slip[s].lines.pieces \in 0 .. MaxPieces
      /\ MaxWhole \in Nat /\ MaxPieces \in Nat
  BY <1>1, LineFields, PieceSizes DEF Lines
<1>3. back.whole + l.whole <= slip[s].lines.whole /\ back.pieces + l.pieces <= slip[s].lines.pieces
  BY <1>2 DEF ReturnGoods
<1>4. more \in Lines
  BY <1>2, <1>3 DEF Lines
<1>5. r \in SlipRecord /\ slip' = [slip EXCEPT ![s] = r] /\ slip'[s] = r
  BY <1>1, <1>4 DEF ReturnGoods, SlipRecord
<1>6. r.status = slip[s].status /\ r.deleted = slip[s].deleted /\ r.lines = slip[s].lines /\ r.back = more
  BY <1>1 DEF SlipRecord
<1>7. box' \in Box /\ OnHand(box') = OnHand(box) + InPieces(l)
  BY <1>1, PutBackExact DEF ReturnGoods
<1>8. InPieces(more) = InPieces(back) + InPieces(l)
  <2> HIDE DEF back
  <2>1. (back.whole + l.whole) * PiecesPerUnit
          = back.whole * PiecesPerUnit + l.whole * PiecesPerUnit
    <3>1. back.whole \in Int /\ l.whole \in Int
      BY <1>2
    <3> QED BY <3>1, TimesUnit
  <2>2. back.whole * PiecesPerUnit \in Nat /\ l.whole * PiecesPerUnit \in Nat
    BY <1>2, TimesUnit
  <2> QED BY <1>2, <2>1, <2>2 DEF InPieces
<1>9. NetOf(slip[s]) = InPieces(slip[s].lines) - InPieces(back)
      /\ NetOf(r) = InPieces(slip[s].lines) - InPieces(more)
  BY <1>1, <1>6 DEF NetOf
<1>10. SlipFine(s)'
  BY <1>1, <1>3, <1>5, <1>6 DEF SlipFine
<1> HIDE DEF back, more, r
<1>11. SlipStep(s, r)
  <2>1. /\ OnHand(box) \in Nat /\ InPieces(l) \in Nat /\ InPieces(slip[s].lines) \in Nat
        /\ InPieces(back) \in Nat
    BY <1>1, BoxFields, LineFields
  <2>2. OnHand(box') = OnHand(box) + NetOf(slip[s]) - NetOf(r)
    BY <1>7, <1>8, <1>9, <2>1
  <2> QED BY <1>5, <1>7, <2>2 DEF SlipStep, ReturnGoods
<1> QED BY <1>10, <1>11, SlipStepKeeps DEF ReturnGoods

(* The netting of a cancellation leaves what is still out, line by line.   *)
LEMMA RestorableExact ==
  ASSUME NEW l \in Lines, NEW back \in Lines,
         back.whole <= l.whole, back.pieces <= l.pieces,
         back.pieces > 0 => back.whole = l.whole
  PROVE  /\ Restorable(l, back) \in Lines
         /\ InPieces(Restorable(l, back)) = InPieces(l) - InPieces(back)
<1> DEFINE lw == l.whole
           lp == l.pieces
           bw == back.whole
           bp == back.pieces
           returned == bw + bp
           whole == Max({0, lw - returned})
           left == returned - (lw - whole)
           pieces == Max({0, lp - left})
<1>1. /\ lw \in 0 .. MaxWhole /\ lp \in 0 .. MaxPieces /\ bw \in 0 .. MaxWhole /\ bp \in 0 .. MaxPieces
      /\ MaxWhole \in Nat /\ MaxPieces \in Nat /\ bw <= lw /\ bp <= lp
      /\ bp > 0 => bw = lw
  BY PieceSizes DEF Lines
<1>2. Restorable(l, back) = [whole |-> whole, pieces |-> pieces]
  BY DEF Restorable
<1> HIDE DEF lw, lp, bw, bp
<1>3. whole = lw - bw
  <2>1. lw - returned \in Int
    BY <1>1
  <2>2. whole = IF lw - returned > 0 THEN lw - returned ELSE 0
    BY <2>1, MaxZero
  <2> HIDE DEF whole
  <2> QED BY <1>1, <2>2
<1>4. pieces = lp - bp
  <2> HIDE DEF whole
  <2>1. lp - left = lp - bp
    BY <1>1, <1>3
  <2>2. lp - bp \in Int /\ lp - bp >= 0
    BY <1>1
  <2>3. pieces = IF lp - bp > 0 THEN lp - bp ELSE 0
    <3> HIDE DEF left
    <3> QED BY <2>1, <2>2, MaxZero
  <2> HIDE DEF pieces
  <2> QED BY <2>2, <2>3
<1> HIDE DEF whole, pieces
<1>5. Restorable(l, back) = [whole |-> lw - bw, pieces |-> lp - bp]
  BY <1>2, <1>3, <1>4
<1>6. lw - bw \in 0 .. MaxWhole /\ lp - bp \in 0 .. MaxPieces
  BY <1>1
<1>7. Restorable(l, back) \in Lines
  BY <1>5, <1>6 DEF Lines
<1>8. InPieces(Restorable(l, back)) = (lw - bw) * PiecesPerUnit + (lp - bp)
  BY <1>5 DEF InPieces
<1>9. (lw - bw) * PiecesPerUnit = lw * PiecesPerUnit - bw * PiecesPerUnit
  <2>1. lw \in Int /\ bw \in Int
    BY <1>1
  <2> QED BY <2>1, TimesUnit
<1>10. lw * PiecesPerUnit \in Int /\ bw * PiecesPerUnit \in Int
  <2>1. lw \in Int /\ bw \in Int
    BY <1>1
  <2> QED BY <2>1, TimesUnit
<1>11. InPieces(l) = lw * PiecesPerUnit + lp /\ InPieces(back) = bw * PiecesPerUnit + bp
  BY DEF InPieces, lw, lp, bw, bp
<1>12. InPieces(Restorable(l, back)) = InPieces(l) - InPieces(back)
  BY <1>1, <1>8, <1>9, <1>10, <1>11
<1> QED BY <1>7, <1>12

(* Cancelling a slip keeps the invariant.                                  *)
LEMMA CancelSlipKeeps ==
  ASSUME PieceInv, NEW s \in Slips, CancelSlip(s)
  PROVE  PieceInv'
<1> DEFINE rest == Restorable(slip[s].lines, slip[s].back)
           r == [slip[s] EXCEPT !.status = "cancelled"]
<1>1. /\ slip[s] \in SlipRecord /\ slip \in [Slips -> SlipRecord] /\ box \in Box
      /\ slip[s].lines \in Lines /\ slip[s].back \in Lines
      /\ SlipFine(s) /\ slip[s].status = "open" /\ ~slip[s].deleted
  BY SlipFields DEF CancelSlip, Open
<1>2. r \in SlipRecord /\ slip' = [slip EXCEPT ![s] = r] /\ slip'[s] = r
  BY <1>1 DEF CancelSlip, SlipRecord
<1>3. /\ r.status = "cancelled" /\ r.deleted = slip[s].deleted
      /\ r.lines = slip[s].lines /\ r.back = slip[s].back
  BY <1>1 DEF SlipRecord
<1>4. rest \in Lines /\ InPieces(rest) = InPieces(slip[s].lines) - InPieces(slip[s].back)
  <2>1. /\ slip[s].back.whole <= slip[s].lines.whole /\ slip[s].back.pieces <= slip[s].lines.pieces
        /\ slip[s].back.pieces > 0 => slip[s].back.whole = slip[s].lines.whole
    BY <1>1 DEF SlipFine, CancelSlip, NetsLikeWithLike
  <2> QED BY <1>1, <2>1, RestorableExact
<1>5. box' = PutBack(box, rest)
  BY DEF CancelSlip
<1>6. NetOf(slip[s]) = InPieces(slip[s].lines) - InPieces(slip[s].back) /\ NetOf(r) = 0
  BY <1>1, <1>3 DEF NetOf
<1>7. SlipFine(s)'
  BY <1>1, <1>2, <1>3 DEF SlipFine
<1> HIDE DEF rest, r
<1>8. box' \in Box /\ OnHand(box') = OnHand(box) + InPieces(rest)
  BY <1>1, <1>4, <1>5, PutBackExact
<1>9. SlipStep(s, r)
  <2>1. OnHand(box) \in Nat /\ InPieces(slip[s].lines) \in Nat /\ InPieces(slip[s].back) \in Nat
    BY <1>1, BoxFields, LineFields
  <2>2. OnHand(box') = OnHand(box) + NetOf(slip[s]) - NetOf(r)
    BY <1>4, <1>6, <1>8, <2>1
  <2> QED BY <1>2, <1>8, <2>2 DEF SlipStep, CancelSlip
<1> QED BY <1>7, <1>9, SlipStepKeeps DEF CancelSlip

(* Deleting a slip keeps the invariant.                                    *)
LEMMA DeleteSlipKeeps ==
  ASSUME PieceInv, NEW s \in Slips, DeleteSlip(s)
  PROVE  PieceInv'
<1> DEFINE r == [slip[s] EXCEPT !.deleted = TRUE]
<1>1. /\ slip[s] \in SlipRecord /\ slip \in [Slips -> SlipRecord] /\ box \in Box
      /\ slip[s].lines \in Lines /\ slip[s].back = Nothing
      /\ SlipFine(s) /\ slip[s].status # "none" /\ ~slip[s].deleted
  BY SlipFields DEF DeleteSlip, OnFile
<1>2. r \in SlipRecord /\ slip' = [slip EXCEPT ![s] = r] /\ slip'[s] = r
  BY <1>1 DEF DeleteSlip, SlipRecord
<1>3. /\ r.status = slip[s].status /\ r.deleted
      /\ r.lines = slip[s].lines /\ r.back = slip[s].back
  BY <1>1 DEF SlipRecord
<1>4. SlipFine(s)'
  BY <1>1, <1>2, <1>3 DEF SlipFine
<1>5. NetOf(r) = 0
  BY <1>3 DEF NetOf
<1> HIDE DEF r
<1>6. box' \in Box /\ OnHand(box') = OnHand(box) + NetOf(slip[s]) - NetOf(r)
  <2>1. OnHand(box) \in Nat /\ InPieces(slip[s].lines) \in Nat
    BY <1>1, BoxFields, LineFields
  <2>2. CASE Open(s)
    <3>1. box' = PutBack(box, slip[s].lines)
      BY <2>2 DEF DeleteSlip
    <3>2. box' \in Box /\ OnHand(box') = OnHand(box) + InPieces(slip[s].lines)
      BY <1>1, <3>1, PutBackExact
    <3>3. NetOf(slip[s]) = InPieces(slip[s].lines) - InPieces(slip[s].back)
      BY <2>2 DEF NetOf, Open
    <3>4. InPieces(slip[s].back) = 0
      BY <1>1, NothingIsALine
    <3> QED BY <1>5, <2>1, <3>2, <3>3, <3>4
  <2>3. CASE ~Open(s)
    <3>1. box' = box /\ NetOf(slip[s]) = 0
      BY <2>3 DEF DeleteSlip, NetOf, Open
    <3> QED BY <1>1, <1>5, <2>1, <3>1
  <2> QED BY <2>2, <2>3
<1>7. SlipStep(s, r)
  BY <1>2, <1>6 DEF SlipStep, DeleteSlip
<1> QED BY <1>4, <1>7, SlipStepKeeps DEF DeleteSlip

(* Undoing the deletion of a slip keeps the invariant.                     *)
LEMMA RestoreSlipKeeps ==
  ASSUME PieceInv, NEW s \in Slips, RestoreSlip(s)
  PROVE  PieceInv'
<1> DEFINE r == [slip[s] EXCEPT !.deleted = FALSE]
<1>1. /\ slip[s] \in SlipRecord /\ slip \in [Slips -> SlipRecord] /\ box \in Box
      /\ slip[s].lines \in Lines /\ slip[s].back = Nothing
      /\ SlipFine(s) /\ slip[s].status # "none" /\ slip[s].deleted
  BY SlipFields DEF RestoreSlip, SlipFine
<1>2. r \in SlipRecord /\ slip' = [slip EXCEPT ![s] = r] /\ slip'[s] = r
  BY <1>1 DEF RestoreSlip, SlipRecord
<1>3. /\ r.status = slip[s].status /\ ~r.deleted
      /\ r.lines = slip[s].lines /\ r.back = slip[s].back
  BY <1>1 DEF SlipRecord
<1>4. SlipFine(s)'
  BY <1>1, <1>2, <1>3 DEF SlipFine
<1>5. NetOf(slip[s]) = 0
  BY <1>1 DEF NetOf
<1> HIDE DEF r
<1>6. box' \in Box /\ OnHand(box') = OnHand(box) + NetOf(slip[s]) - NetOf(r)
  <2>1. OnHand(box) \in Nat /\ InPieces(slip[s].lines) \in Nat
    BY <1>1, BoxFields, LineFields
  <2>2. CASE slip[s].status = "open"
    <3>1. box' = Deduct(box, slip[s].lines) /\ InPieces(slip[s].lines) <= OnHand(box)
      BY <2>2 DEF RestoreSlip, StillThere
    <3>2. box' \in Box /\ OnHand(box') = OnHand(box) - InPieces(slip[s].lines)
      BY <1>1, <3>1, DeductExact
    <3>3. NetOf(r) = InPieces(slip[s].lines) - InPieces(slip[s].back)
      BY <1>3, <2>2 DEF NetOf
    <3>4. InPieces(slip[s].back) = 0
      BY <1>1, NothingIsALine
    <3> QED BY <1>5, <2>1, <3>2, <3>3, <3>4
  <2>3. CASE slip[s].status # "open"
    <3>1. box' = box /\ NetOf(r) = 0
      BY <1>3, <2>3 DEF RestoreSlip, NetOf
    <3> QED BY <1>1, <1>5, <2>1, <3>1
  <2> QED BY <2>2, <2>3
<1>7. SlipStep(s, r)
  BY <1>2, <1>6 DEF SlipStep, RestoreSlip
<1> QED BY <1>4, <1>7, SlipStepKeeps DEF RestoreSlip

(* A branch sells what its row holds, so the row is never cut short.       *)
LEMMA CounterStep ==
  ASSUME PieceInv, NEW s \in Slips, NEW b \in Counters, NEW l \in Lines,
         Issue(s, l), InPieces(l) <= OnHand(box), InPieces(l) <= branchRow[b],
         NEW n \in Nat, b = "side" => n = InPieces(l), Charge(b, n), BookSide(b, l),
         UNCHANGED <<corrected, sideShort>>
  PROVE  PieceInv'
<1> DEFINE r == [slip[s] EXCEPT !.status = "open", !.lines = l]
<1>1. SlipStep(s, r) /\ SlipFine(s)'
  BY IssueStep
<1>2. InPieces(l) \in Nat /\ branchRow \in [Counters -> Nat] /\ sideSold \in Nat
  BY LineFields DEF PieceInv, PieceTypeOK
<1>3. branchRow[b] \in Nat /\ branchRow[b] - n \in Int
  BY <1>2
<1>4. branchRow' = [branchRow EXCEPT ![b] = Max({0, branchRow[b] - n})]
  BY DEF Charge
<1>5. Max({0, branchRow[b] - n}) \in Nat /\ (b = "side" => Max({0, branchRow[b] - n}) = branchRow[b] - n)
  <2> DEFINE m == Max({0, branchRow[b] - n})
  <2>1. m = IF branchRow[b] - n > 0 THEN branchRow[b] - n ELSE 0
    BY <1>3, MaxZero
  <2> HIDE DEF m
  <2>2. m \in Nat
    BY <1>3, <2>1
  <2>3. b = "side" => m = branchRow[b] - n
    BY <1>2, <1>3, <2>1
  <2> QED BY <2>2, <2>3 DEF m
<1>6. branchRow' \in [Counters -> Nat]
  BY <1>2, <1>4, <1>5
<1>7. sideSold' = sideSold + (IF b = "side" THEN InPieces(l) ELSE 0) /\ sideSold' \in Nat
  BY <1>2 DEF BookSide
<1> HIDE DEF r
<1>8. PieceTypeOK'
  <2>1. slip \in [Slips -> SlipRecord] /\ r \in SlipRecord
    BY <1>1, SlipFields DEF SlipStep
  <2>2. slip' \in [Slips -> SlipRecord] /\ box' \in Box
    BY <1>1, <2>1 DEF SlipStep
  <2>3. unsettled' = TRUE
    BY DEF Issue
  <2> QED BY <1>6, <1>7, <2>2, <2>3 DEF PieceInv, PieceTypeOK, SlipRecord, Box
<1>9. PiecesExplained'
  BY <1>1, SlipStepExplained DEF PieceInv
<1>10. SideKeepsItsPieces'
  <2>1. CASE b = "side"
    <3>1. branchRow'["side"] = branchRow["side"] - InPieces(l) /\ sideSold' = sideSold + InPieces(l)
      BY <1>2, <1>4, <1>5, <1>7, <2>1
    <3>2. sideShort \/ branchRow["side"] = SideUnits * PiecesPerUnit - sideSold
      BY DEF PieceInv, SideKeepsItsPieces
    <3>3. SideUnits * PiecesPerUnit \in Nat
      BY PieceSizes, TimesUnit
    <3>4. sideShort \/ branchRow'["side"] = SideUnits * PiecesPerUnit - sideSold'
      BY <1>2, <3>1, <3>2, <3>3
    <3> QED BY <3>4 DEF SideKeepsItsPieces
  <2>2. CASE b # "side"
    <3>1. branchRow'["side"] = branchRow["side"] /\ sideSold' = sideSold
      BY <1>2, <1>4, <1>7, <2>2 DEF Counters
    <3> QED BY <3>1 DEF PieceInv, SideKeepsItsPieces
  <2> QED BY <2>1, <2>2
<1>11. RowsSettled'
  BY DEF Issue, RowsSettled
<1>12. ASSUME NEW t \in Slips PROVE SlipFine(t)'
  <2>1. CASE t = s
    BY <1>1, <2>1
  <2>2. CASE t # s
    <3>1. slip'[t] = slip[t]
      BY <1>1, <2>2, SlipFields DEF SlipStep
    <3> QED BY <3>1, SlipFields DEF SlipFine
  <2> QED BY <2>1, <2>2
<1> QED BY <1>8, <1>9, <1>10, <1>11, <1>12 DEF PieceInv

(* Settled rows hold no more than the box.                                 *)
LEMMA RowInTheBox ==
  ASSUME PieceInv, ~unsettled, NEW b \in Counters
  PROVE  branchRow[b] \in Nat /\ branchRow[b] <= OnHand(box)
<1>1. /\ branchRow["main"] \in Nat /\ branchRow["side"] \in Nat
      /\ branchRow["main"] + branchRow["side"] = box.units * PiecesPerUnit
  BY DEF PieceInv, PieceTypeOK, RowsSettled, Counters
<1>2. box \in Box
  BY DEF PieceInv, PieceTypeOK, Box
<1>3. box.loose \in Nat /\ box.units * PiecesPerUnit \in Nat
      /\ OnHand(box) = box.units * PiecesPerUnit + box.loose
  BY <1>2, BoxFields
<1>4. b = "main" \/ b = "side"
  BY DEF Counters
<1> QED BY <1>1, <1>3, <1>4

(* A sale at a branch counter keeps the invariant.                         *)
LEMMA SellAtCounterKeeps ==
  ASSUME PieceInv, NEW s \in Slips, NEW b \in Counters, NEW l \in Lines, SellAtCounter(s, b, l)
  PROVE  PieceInv'
<1>1. /\ Issue(s, l) /\ InPieces(l) <= branchRow[b] /\ PiecesFromMain(b, l)
      /\ Charge(b, CounterCharge(l)) /\ BookSide(b, l) /\ UNCHANGED <<corrected, sideShort>>
  BY DEF SellAtCounter
<1>2. l.whole \in Nat /\ l.pieces \in Nat /\ InPieces(l) \in Nat
      /\ InPieces(l) = l.whole * PiecesPerUnit + l.pieces /\ l.whole * PiecesPerUnit \in Nat
  BY LineFields
<1>3. CounterCharge(l) \in Nat
  <2>1. l.whole + l.pieces \in Nat
    BY <1>2
  <2> QED BY <2>1, TimesUnit DEF CounterCharge
<1>4. b = "side" => CounterCharge(l) = InPieces(l)
  <2>1. l.pieces = 0 => l.whole + l.pieces = l.whole
    BY <1>2
  <2> QED BY <1>1, <1>2, <2>1 DEF PiecesFromMain, CounterCharge
<1>5. InPieces(l) <= OnHand(box)
  <2>1. branchRow[b] \in Nat /\ branchRow[b] <= OnHand(box)
    BY <1>1, RowInTheBox DEF Issue
  <2>2. OnHand(box) \in Nat
    <3>1. box \in Box
      BY DEF PieceInv, PieceTypeOK, Box
    <3> QED BY <3>1, BoxFields
  <2> QED BY <1>1, <1>2, <2>1, <2>2
<1> DEFINE n == CounterCharge(l)
<1>6. n \in Nat /\ (b = "side" => n = InPieces(l)) /\ Charge(b, n)
  BY <1>1, <1>3, <1>4
<1> HIDE DEF n
<1> QED BY <1>1, <1>5, <1>6, CounterStep

(* Turning a quotation into an invoice keeps the invariant.                *)
LEMMA ConvertQuotationKeeps ==
  ASSUME PieceInv, NEW s \in Slips, NEW b \in Counters, NEW l \in Lines, ConvertQuotation(s, b, l)
  PROVE  PieceInv'
<1> DEFINE n == InPieces(l)
<1>1. /\ Issue(s, l) /\ InPieces(l) <= branchRow[b] /\ InPieces(l) <= OnHand(box)
      /\ BookSide(b, l) /\ UNCHANGED <<corrected, sideShort>>
  BY DEF ConvertQuotation
<1>2. n \in Nat /\ (b = "side" => n = InPieces(l)) /\ Charge(b, n)
  BY LineFields DEF ConvertQuotation, QuoteCharge
<1> HIDE DEF n
<1> QED BY <1>1, <1>2, CounterStep

(* A correction by hand keeps the invariant.                               *)
LEMMA CorrectStockKeeps ==
  ASSUME PieceInv, NEW delta \in -1 .. 1, NEW looseDelta \in -MaxCorrection .. MaxCorrection,
         CorrectStock(delta, looseDelta)
  PROVE  PieceInv'
<1> DEFINE units == box.units + delta
           loose == box.loose + looseDelta
           bare == [units |-> units, loose |-> loose]
<1>1. /\ box \in Box /\ box.units \in Nat /\ box.loose \in Nat
      /\ box.units * PiecesPerUnit \in Nat
      /\ OnHand(box) = box.units * PiecesPerUnit + box.loose
  <2>1. box \in Box
    BY DEF PieceInv, PieceTypeOK, Box
  <2> QED BY <2>1, BoxFields
<1>2. delta \in Int /\ looseDelta \in Int /\ corrected \in Int
  BY PieceSizes DEF PieceInv, PieceTypeOK
<1>3. units \in Nat /\ loose \in Nat
  BY <1>1, <1>2 DEF CorrectStock, CorrectionFits
<1>4. Max({0, units}) = units /\ Max({0, loose}) = loose
  <2> HIDE DEF units, loose
  <2> QED BY <1>3, MaxZero
<1>5. box' = AddPieces(bare, 0)
  BY <1>4 DEF CorrectStock
<1>6. units * PiecesPerUnit = box.units * PiecesPerUnit + delta * PiecesPerUnit
      /\ delta * PiecesPerUnit \in Int
  <2>1. box.units \in Int
    BY <1>1
  <2> QED BY <1>2, <2>1, TimesUnit
<1>7. box' \in Box /\ OnHand(box') = units * PiecesPerUnit + loose + 0
  <2> HIDE DEF units, loose
  <2>1. 0 \in Nat
    OBVIOUS
  <2>2. AddPieces(bare, 0) \in Box
    BY <1>3, <2>1, AddPiecesExact
  <2>3. OnHand(AddPieces(bare, 0)) = units * PiecesPerUnit + loose + 0
    BY <1>3, <2>1, AddPiecesExact
  <2> QED BY <1>5, <2>2, <2>3
<1>8. OnHand(box') = OnHand(box) + delta * PiecesPerUnit + looseDelta
  BY <1>1, <1>2, <1>6, <1>7
<1>9. corrected' = corrected + delta * PiecesPerUnit + looseDelta /\ corrected' \in Int
  BY <1>2, <1>6 DEF CorrectStock
<1>10. UNCHANGED <<slip, branchRow, sideSold, sideShort>> /\ unsettled' = TRUE
  BY DEF CorrectStock
<1> HIDE DEF units, loose, bare
<1>11. PieceTypeOK'
  BY <1>7, <1>9, <1>10 DEF PieceInv, PieceTypeOK, Box
<1>12. PiecesExplained'
  <2> DEFINE out == SumFunctionOnSet(StillOut, Slips)
             begun == (MainUnits + SideUnits) * PiecesPerUnit
  <2>1. out \in Int
    <3>1. slip \in [Slips -> SlipRecord]
      BY DEF PieceInv, PieceTypeOK, SlipRecord
    <3> QED BY <3>1, StillOutIsOutOf, StillOutIsInt
  <2>2. begun \in Int
    BY PieceSizes, TimesUnit
  <2>3. OnHand(box) = begun + corrected - out
    BY DEF PieceInv, PiecesExplained
  <2>4. StillOut' = StillOut
    BY <1>10 DEF StillOut, Open
  <2> HIDE DEF out, begun
  <2>5. OnHand(box') = begun + corrected' - out
    BY <1>2, <1>6, <1>8, <1>9, <2>1, <2>2, <2>3
  <2>6. OnHand(box)' = OnHand(box')
    BY DEF OnHand
  <2> QED BY <2>4, <2>5, <2>6 DEF PiecesExplained, begun, out
<1>13. SideKeepsItsPieces' /\ RowsSettled' /\ \A s \in Slips : SlipFine(s)'
  BY <1>10 DEF PieceInv, SideKeepsItsPieces, RowsSettled, SlipFine
<1> QED BY <1>11, <1>12, <1>13 DEF PieceInv

(* The effect that settles the branch rows keeps the invariant.            *)
LEMMA SettleRowsKeeps == ASSUME PieceInv, SettleRows PROVE PieceInv'
<1> DEFINE main == branchRow["main"]
           side == branchRow["side"]
           closed == box.units * PiecesPerUnit
           missing == main + side - closed
<1>1. main \in Nat /\ side \in Nat /\ closed \in Nat
  <2>1. branchRow \in [Counters -> Nat] /\ box \in Box
    BY DEF PieceInv, PieceTypeOK, Box
  <2> QED BY <2>1, BoxFields DEF Counters
<1>2. /\ unsettled' = FALSE /\ UNCHANGED <<box, slip, corrected, sideSold>>
      /\ sideShort' = (sideShort \/ missing > main)
      /\ branchRow' = [main |-> Max({0, main - missing}), side |-> side - Max({0, missing - main})]
  BY DEF SettleRows
<1> DEFINE newMain == Max({0, main - missing})
           newSide == side - Max({0, missing - main})
<1>3. newMain = (IF main - missing > 0 THEN main - missing ELSE 0)
      /\ newSide = side - (IF missing - main > 0 THEN missing - main ELSE 0)
  <2>1. main - missing \in Int /\ missing - main \in Int
    BY <1>1
  <2> QED BY <2>1, MaxZero
<1>4. branchRow' = [main |-> newMain, side |-> newSide]
  BY <1>2
<1> HIDE DEF main, side, closed, newMain, newSide
<1>5. newMain \in Nat /\ newSide \in Nat /\ newMain + newSide = closed
  BY <1>1, <1>3
<1>6. missing > main \/ newSide = side
  BY <1>1, <1>3
<1>7. branchRow' = [b \in Counters |-> IF b = "main" THEN newMain ELSE newSide]
  BY <1>4 DEF Counters
<1>8. /\ branchRow' \in [Counters -> Nat]
      /\ branchRow'["main"] = newMain /\ branchRow'["side"] = newSide
  BY <1>5, <1>7 DEF Counters
<1>9. PieceTypeOK'
  <2>1. sideShort' \in BOOLEAN
    BY <1>2, Zenon
  <2>2. unsettled' \in BOOLEAN
    BY <1>2
  <2> QED BY <1>2, <1>8, <2>1, <2>2 DEF PieceInv, PieceTypeOK
<1>10. PiecesExplained'
  <2>1. StillOut' = StillOut
    BY <1>2 DEF StillOut, Open
  <2> QED BY <1>2, <2>1 DEF PieceInv, PiecesExplained, OnHand
<1>11. SideKeepsItsPieces'
  <2>1. sideShort \/ side = SideUnits * PiecesPerUnit - sideSold
    BY DEF PieceInv, SideKeepsItsPieces, side
  <2>2. sideShort' \/ newSide = side
    BY <1>2, <1>6
  <2>3. sideShort => sideShort'
    BY <1>2
  <2>4. sideSold' = sideSold
    BY <1>2
  <2>5. sideShort' \/ newSide = SideUnits * PiecesPerUnit - sideSold'
    BY <2>1, <2>2, <2>3, <2>4
  <2> QED BY <1>8, <2>5 DEF SideKeepsItsPieces
<1>12. RowsSettled'
  <2>1. closed = box'.units * PiecesPerUnit
    BY <1>2 DEF closed
  <2> QED BY <1>5, <1>8, <2>1 DEF RowsSettled
<1>13. \A s \in Slips : SlipFine(s)'
  BY <1>2 DEF PieceInv, SlipFine
<1> QED BY <1>9, <1>10, <1>11, <1>12, <1>13 DEF PieceInv

(* A step that leaves the pieces alone keeps the invariant.                *)
LEMMA PieceStutter == ASSUME PieceInv, UNCHANGED pieceVars PROVE PieceInv'
<1>1. StillOut' = StillOut
  BY DEF pieceVars, StillOut, Open
<1>2. PiecesExplained'
  BY <1>1 DEF PieceInv, PiecesExplained, pieceVars, OnHand
<1> QED BY <1>2 DEF PieceInv, PieceTypeOK, SideKeepsItsPieces, RowsSettled, SlipFine, pieceVars

(* Every step of the pieces keeps the invariant.                           *)
LEMMA PieceStep == ASSUME PieceInv, [PieceNext]_pieceVars PROVE PieceInv'
<1>1. CASE SettleRows
  BY <1>1, SettleRowsKeeps
<1>2. CASE \E s \in Slips : CancelSlip(s) \/ DeleteSlip(s) \/ RestoreSlip(s)
  <2>1. PICK s \in Slips : CancelSlip(s) \/ DeleteSlip(s) \/ RestoreSlip(s)
    BY <1>2
  <2> QED BY <2>1, CancelSlipKeeps, DeleteSlipKeeps, RestoreSlipKeeps
<1>3. CASE \E s \in Slips, l \in Lines : SellInOffice(s, l) \/ EditSlip(s, l) \/ ReturnGoods(s, l)
  <2>1. PICK s \in Slips, l \in Lines : SellInOffice(s, l) \/ EditSlip(s, l) \/ ReturnGoods(s, l)
    BY <1>3
  <2> QED BY <2>1, SellInOfficeKeeps, EditSlipKeeps, ReturnGoodsKeeps
<1>4. CASE \E s \in Slips, b \in Counters, l \in Lines : SellAtCounter(s, b, l) \/ ConvertQuotation(s, b, l)
  <2>1. PICK s \in Slips, b \in Counters, l \in Lines : SellAtCounter(s, b, l) \/ ConvertQuotation(s, b, l)
    BY <1>4
  <2> QED BY <2>1, SellAtCounterKeeps, ConvertQuotationKeeps
<1>5. CASE \E delta \in -1 .. 1, looseDelta \in -MaxCorrection .. MaxCorrection :
             CorrectStock(delta, looseDelta)
  <2>1. PICK delta \in -1 .. 1, looseDelta \in -MaxCorrection .. MaxCorrection :
          CorrectStock(delta, looseDelta)
    BY <1>5
  <2> QED BY <2>1, CorrectStockKeeps
<1>6. CASE UNCHANGED pieceVars
  BY <1>6, PieceStutter
<1> QED BY <1>1, <1>2, <1>3, <1>4, <1>5, <1>6 DEF PieceNext

(* What the shop holds by the unit and by the piece, the rows of its       *)
(* branches and the invoices always tell one story (AppContext.tsx,        *)
(* AutoPartsProContext.tsx).                                               *)
THEOREM PiecesAlwaysInv == PieceSpec => []PieceInv
<1>1. PieceInit => PieceInv
  BY PieceInitInv
<1>2. PieceInv /\ [PieceNext]_pieceVars => PieceInv'
  BY PieceStep
<1> QED BY <1>1, <1>2, PTL DEF PieceSpec

(* For any number of invoices and any size of a unit, no piece is lost or  *)
(* made by opening units, selling, editing, returning, cancelling,         *)
(* deleting and restoring.                                                 *)
THEOREM PiecesAlwaysExplained == PieceSpec => []PiecesExplained
<1>1. PieceInv => PiecesExplained
  BY DEF PieceInv
<1> QED BY <1>1, PiecesAlwaysInv, PTL

(* A branch other than the main one loses what it sold, and no more.       *)
THEOREM SideAlwaysKeepsItsPieces == PieceSpec => []SideKeepsItsPieces
<1>1. PieceInv => SideKeepsItsPieces
  BY DEF PieceInv
<1> QED BY <1>1, PiecesAlwaysInv, PTL

---------------------------------------------------------------------------
(* The cash of a shift: the invariant                                      *)

(* An entry is older than the next one, and of a shift that was opened; an *)
(* entry without a shift is of no shift's invoice.                         *)
EntryFine(e) ==
  /\ e \in Entries /\ e.number < entered
  /\ e.shiftId # NoShift => shifts[e.shiftId].status # "none"
  /\ e.shiftId = NoShift /\ e.reference \in Sales => invoices[e.reference].shiftId = NoShift

(* A deleted invoice has its entries in its snapshot, and only there.      *)
EntryLive(e) ==
  /\ EntryFine(e)
  /\ e.reference \in Sales => invoices[e.reference].status \in {"sold", "cancelled"}

SaleFine(i) ==
  /\ IsFiniteSet(snapshots[i].entries)
  /\ \A e \in snapshots[i].entries : EntryFine(e) /\ e.reference = i
  /\ invoices[i].status = "deleted" => snapshots[i].status \in {"sold", "cancelled"}
  /\ invoices[i].status # "deleted" => snapshots[i].entries = {}

(* The drawer holds what the shift opened with and what came in since.     *)
TillBalanced(s) ==
  shifts[s].status # "none" => till[s] = shifts[s].openingCash + Brought(cashEntries, s)

ReportKept(s) == shifts[s].status = "closed" => shifts[s].expectedCash = atClose[s]

Snapshots == [status : {"none", "sold", "cancelled"}, entries : SUBSET Entries]

ShiftInv ==
  /\ ShiftTypeOK /\ snapshots \in [Sales -> Snapshots] /\ IsFiniteSet(cashEntries)
  /\ \A e \in cashEntries : EntryLive(e)
  /\ \A i \in Sales : SaleFine(i)
  /\ \A s \in Shifts : TillBalanced(s) /\ ReportKept(s)

---------------------------------------------------------------------------
(* The cash that entries bring                                             *)

CashOf(entries, s) == {x \in entries : x.cash /\ x.shiftId = s}

EntryAmounts == [e \in Entries |-> e.amount]

(* The types of the constants of the shifts.                               *)
LEMMA ShiftSizes ==
  /\ MaxEntries \in Nat /\ MaxShifts \in Nat /\ Floats \subseteq Nat /\ Manual \notin Sales
  /\ NoShift \notin Shifts /\ Shifts \subseteq Int /\ SignedOut \notin Cashiers
BY ShiftAssumption DEF Manual, NoShift, Shifts

(* The amount of a cash entry is an integer.                               *)
LEMMA AmountIsInt == \A e \in Entries : EntryAmounts[e] = e.amount /\ e.amount \in Int
BY DEF EntryAmounts, Entries

(* What a shift's entries brought is the sum of their amounts.             *)
LEMMA BroughtIs ==
  ASSUME NEW entries, entries \subseteq Entries, IsFiniteSet(entries), NEW s
  PROVE  /\ Brought(entries, s) = SumFunctionOnSet(EntryAmounts, CashOf(entries, s))
         /\ IsFiniteSet(CashOf(entries, s)) /\ CashOf(entries, s) \subseteq Entries
         /\ Brought(entries, s) \in Int
<1> DEFINE C == CashOf(entries, s)
           f == [e \in C |-> e.amount]
<1>1. C \subseteq entries
  BY Zenon DEF CashOf
<1>2. IsFiniteSet(C) /\ C \subseteq Entries
  BY <1>1, FS_Subset
<1>3. Brought(entries, s) = SumFunctionOnSet(f, C)
  <2>1. Brought(entries, s) = SumFunction(f)
    BY Zenon DEF Brought, CashOf
  <2>2. DOMAIN f = C
    OBVIOUS
  <2> QED BY <2>1, <2>2, Zenon DEF SumFunction
<1>4. \A x \in C : f[x] = EntryAmounts[x]
  BY <1>2, AmountIsInt
<1>5. \A x \in C : EntryAmounts[x] \in Int
  BY <1>2, AmountIsInt
<1> HIDE DEF f, C
<1>6. SumFunctionOnSet(f, C) = SumFunctionOnSet(EntryAmounts, C)
  BY <1>2, <1>4, SumSame
<1>7. SumFunctionOnSet(EntryAmounts, C) \in Int
  BY <1>2, <1>5, SumInt
<1> QED BY <1>2, <1>3, <1>6, <1>7 DEF C

(* Two sets of entries with none in common bring the sum of what each      *)
(* brings.                                                                 *)
LEMMA BroughtTogether ==
  ASSUME NEW A, NEW B, A \subseteq Entries, B \subseteq Entries,
         IsFiniteSet(A), IsFiniteSet(B), A \cap B = {}, NEW s
  PROVE  Brought(A \cup B, s) = Brought(A, s) + Brought(B, s)
<1> DEFINE P == CashOf(A, s)
           Q == CashOf(B, s)
           S == CashOf(A \cup B, s)
<1>1. IsFiniteSet(A \cup B) /\ A \cup B \subseteq Entries
  BY FS_Union
<1>2. P \cup Q = S /\ P \cap Q = {}
  BY Zenon DEF CashOf
<1>3. IsFiniteSet(S) /\ S \subseteq Entries
  BY <1>1, BroughtIs
<1>4. \A x \in S : EntryAmounts[x] \in Int
  BY <1>3, AmountIsInt
<1>5. /\ Brought(A \cup B, s) = SumFunctionOnSet(EntryAmounts, S)
      /\ Brought(A, s) = SumFunctionOnSet(EntryAmounts, P)
      /\ Brought(B, s) = SumFunctionOnSet(EntryAmounts, Q)
  BY <1>1, BroughtIs
<1> HIDE DEF P, Q, S
<1>6. SumFunctionOnSet(EntryAmounts, S) = SumFunctionOnSet(EntryAmounts, P) + SumFunctionOnSet(EntryAmounts, Q)
  BY <1>2, <1>3, <1>4, SumParts
<1> QED BY <1>5, <1>6

(* No entries bring nothing.                                               *)
LEMMA BroughtByNone == \A s : Brought({}, s) = 0
<1> SUFFICES ASSUME NEW s PROVE Brought({}, s) = 0
  OBVIOUS
<1>1. Brought({}, s) = SumFunctionOnSet(EntryAmounts, CashOf({}, s))
  BY FS_EmptySet, BroughtIs
<1>2. CashOf({}, s) = {}
  BY DEF CashOf
<1> QED BY <1>1, <1>2, SumEmpty

(* One entry brings its amount to its own shift if it was cash, and        *)
(* nothing otherwise.                                                      *)
LEMMA BroughtByOne ==
  ASSUME NEW e \in Entries, NEW s
  PROVE  Brought({e}, s) = IF e.cash /\ e.shiftId = s THEN e.amount ELSE 0
<1>1. IsFiniteSet({e})
  BY FS_Singleton
<1>2. Brought({e}, s) = SumFunctionOnSet(EntryAmounts, CashOf({e}, s))
  BY <1>1, BroughtIs
<1>3. CASE e.cash /\ e.shiftId = s
  <2>1. CashOf({e}, s) = {e}
    BY <1>3, Zenon DEF CashOf
  <2>2. SumFunctionOnSet(EntryAmounts, {e}) = EntryAmounts[e] + SumFunctionOnSet(EntryAmounts, {e} \ {e})
    <3>1. \A x \in {e} : EntryAmounts[x] \in Int
      BY AmountIsInt
    <3> QED BY <1>1, <3>1, SumRemove
  <2>3. {e} \ {e} = {}
    OBVIOUS
  <2>4. SumFunctionOnSet(EntryAmounts, {e}) = e.amount
    <3>1. SumFunctionOnSet(EntryAmounts, {e} \ {e}) = 0
      BY <2>3, SumEmpty
    <3>2. EntryAmounts[e] = e.amount /\ e.amount \in Int
      BY AmountIsInt
    <3> QED BY <2>2, <3>1, <3>2
  <2> QED BY <1>2, <1>3, <2>1, <2>4
<1>4. CASE ~(e.cash /\ e.shiftId = s)
  <2>1. CashOf({e}, s) = {}
    BY <1>4, Zenon DEF CashOf
  <2>2. Brought({e}, s) = 0
    BY <1>2, <2>1, SumEmpty
  <2> QED BY <1>4, <2>2, Zenon
<1> QED BY <1>3, <1>4

(* Entries of no shift, or of others, bring a shift nothing.               *)
LEMMA BroughtByOthers ==
  ASSUME NEW entries, entries \subseteq Entries, IsFiniteSet(entries), NEW s,
         \A e \in entries : e.shiftId # s
  PROVE  Brought(entries, s) = 0
<1>1. CashOf(entries, s) = {}
  BY Zenon DEF CashOf
<1> QED BY <1>1, BroughtIs, SumEmpty

(* What the program expects in the drawer is what the shift's entries      *)
(* brought: an entry of no shift is of no invoice of the shift.            *)
LEMMA ExpectedIsBrought ==
  ASSUME ShiftInv, NEW s \in Shifts
  PROVE  ExpectedCash(s) = shifts[s].openingCash + Brought(cashEntries, s)
<1>1. ASSUME NEW e \in cashEntries PROVE e \in shiftEntries(s) <=> e.shiftId = s
  <2>1. s # NoShift
    BY ShiftSizes
  <2>2. CASE e.shiftId # NoShift
    BY <2>2, Zenon DEF shiftEntries
  <2>3. CASE e.shiftId = NoShift
    <3>1. e.reference \in Sales => invoices[e.reference].shiftId = NoShift
      BY <2>3, Zenon DEF ShiftInv, EntryLive, EntryFine
    <3>2. e.reference \notin shiftInvoices(s)
      BY <2>1, <3>1, Zenon DEF shiftInvoices
    <3> QED BY <2>1, <2>3, <3>2, Zenon DEF shiftEntries
  <2> QED BY <2>2, <2>3
<1>2. {x \in shiftEntries(s) : isPhysicalCash(x)} = {x \in cashEntries : x.cash /\ x.shiftId = s}
  <2>1. \A x \in shiftEntries(s) : x \in cashEntries
    BY Zenon DEF shiftEntries
  <2> QED BY <1>1, <2>1, Zenon DEF isPhysicalCash
<1>3. SumFunction([e \in {x \in shiftEntries(s) : isPhysicalCash(x)} |-> e.amount])
        = Brought(cashEntries, s)
  BY <1>2, Zenon DEF Brought
<1> QED BY <1>3, Zenon DEF ExpectedCash

(* The shift that takes the entries is an open one of the cashier signed   *)
(* in.                                                                     *)
LEMMA ActiveIsOpen ==
  ASSUME ShiftInv
  PROVE  /\ ActiveShift \in Shifts \cup {NoShift}
         /\ ActiveShift # NoShift =>
              ActiveShift \in Shifts /\ shifts[ActiveShift].status = "open"
<1>1. CASE OpenOf(cashier) = {}
  BY <1>1, Zenon DEF ActiveShift
<1>2. CASE OpenOf(cashier) # {}
  <2>1. ActiveShift \in OpenOf(cashier)
    BY <1>2, Zenon DEF ActiveShift
  <2> QED BY <2>1, Zenon DEF OpenOf
<1> QED BY <1>1, <1>2

(* A opened entry is unlike those there are, and the drawer follows it.       *)
Adds(e, reference) ==
  /\ e.number = entered /\ e.shiftId = ActiveShift /\ e.reference = reference
  /\ cashEntries' = cashEntries \cup {e} /\ cashEntries \cap {e} = {}
  /\ till' \in [Shifts -> Int]
  /\ \A s \in Shifts : till'[s] = till[s] + Brought({e}, s)

(* Making an entry adds one new entry, for the active shift, and its cash  *)
(* to the till.                                                            *)
LEMMA EnterAdds ==
  ASSUME ShiftInv, NEW reference \in Sales \cup {Manual}, NEW amount \in {-1, 1},
         NEW cash \in BOOLEAN, Enter(reference, amount, cash)
  PROVE  \E e \in Entries : Adds(e, reference)
<1> DEFINE e == [number |-> entered, shiftId |-> ActiveShift, reference |-> reference,
                 amount |-> amount, cash |-> cash]
<1>1. entered \in 0 .. MaxEntries /\ till \in [Shifts -> Int]
  BY DEF ShiftInv, ShiftTypeOK
<1>2. ActiveShift \in Shifts \cup {NoShift}
  BY ActiveIsOpen
<1>3. e \in Entries
  BY <1>1, <1>2, Zenon DEF Entries
<1>4. /\ e.number = entered /\ e.shiftId = ActiveShift /\ e.reference = reference
      /\ e.amount = amount
  OBVIOUS
<1>5. e.cash = cash
  BY Zenon
<1>6. cashEntries' = cashEntries \cup {e}
  BY Zenon DEF Enter
<1>7. till' = IF cash /\ ActiveShift # NoShift
              THEN [till EXCEPT ![ActiveShift] = @ + amount] ELSE till
  BY Zenon DEF Enter
<1> HIDE DEF e
<1>8. e \notin cashEntries
  <2>1. \A x \in cashEntries : x.number < entered
    BY Zenon DEF ShiftInv, EntryLive, EntryFine
  <2>2. entered \in Int /\ ~(entered < entered)
    BY <1>1, ShiftSizes
  <2> QED BY <1>4, <2>1, <2>2
<1>9. ASSUME NEW s \in Shifts
      PROVE  till'[s] = till[s] + (IF cash /\ e.shiftId = s THEN amount ELSE 0)
  <2>1. s # NoShift /\ till[s] \in Int /\ amount \in Int
    BY <1>1, ShiftSizes
  <2>2. CASE cash /\ e.shiftId = s
    <3>1. till' = [till EXCEPT ![s] = @ + amount]
      BY <1>4, <1>7, <2>1, <2>2
    <3> QED BY <1>1, <2>2, <3>1
  <2>3. CASE ~(cash /\ e.shiftId = s)
    <3>1. till'[s] = till[s]
      BY <1>1, <1>4, <1>7, <2>3
    <3>2. till[s] + (IF cash /\ e.shiftId = s THEN amount ELSE 0) = till[s] + 0
      BY <2>3, Zenon
    <3> QED BY <2>1, <3>1, <3>2
  <2> QED BY <2>2, <2>3
<1>10. \A s \in Shifts : till'[s] = till[s] + Brought({e}, s)
  <2> SUFFICES ASSUME NEW s \in Shifts PROVE till'[s] = till[s] + Brought({e}, s)
    OBVIOUS
  <2>1. Brought({e}, s) = IF e.cash /\ e.shiftId = s THEN e.amount ELSE 0
    BY <1>3, BroughtByOne
  <2>2. Brought({e}, s) = IF cash /\ e.shiftId = s THEN amount ELSE 0
    BY <1>4, <1>5, <2>1, Zenon
  <2> QED BY <1>9, <2>2, Zenon
<1>11. till' \in [Shifts -> Int]
  <2>1. CASE cash /\ ActiveShift # NoShift
    <3>1. till[ActiveShift] + amount \in Int
      <4>1. ActiveShift \in Shifts /\ amount \in Int
        BY <1>2, <2>1
      <4> QED BY <1>1, <4>1
    <3> QED BY <1>1, <1>7, <2>1, <3>1
  <2>2. CASE ~(cash /\ ActiveShift # NoShift)
    BY <1>1, <1>7, <2>2, Zenon
  <2> QED BY <2>1, <2>2
<1> QED BY <1>3, <1>4, <1>6, <1>8, <1>10, <1>11, Zenon DEF Adds

---------------------------------------------------------------------------
(* The operations                                                          *)

InvoiceRecords == [status : {"none", "sold", "cancelled", "deleted"}, shiftId : Shifts \cup {NoShift}]
ShiftRecords   == [status : {"none", "open", "closed"}, cashierId : Cashiers \cup {SignedOut},
                   openingCash : Nat, expectedCash : Int]

(* What a step leaves alone keeps an entry fine.                           *)
LEMMA FineStays ==
  ASSUME ShiftInv, entered' \in Int, entered <= entered',
         \A s \in Shifts : shifts[s].status # "none" => shifts'[s].status # "none",
         \A i \in Sales : invoices[i].status # "none" => invoices'[i].shiftId = invoices[i].shiftId,
         NEW e, EntryFine(e),
         e.reference \in Sales => invoices[e.reference].status # "none"
  PROVE  EntryFine(e)'
<1>1. e \in Entries /\ e.number < entered
  BY Zenon DEF EntryFine
<1>2. e.number \in Int /\ entered \in Int /\ e.shiftId \in Shifts \cup {NoShift}
  BY <1>1, ShiftSizes DEF Entries, ShiftInv, ShiftTypeOK
<1>3. e.number < entered'
  BY <1>1, <1>2
<1>4. e.shiftId # NoShift => shifts'[e.shiftId].status # "none"
  BY <1>2, Zenon DEF EntryFine
<1>5. e.shiftId = NoShift /\ e.reference \in Sales => invoices'[e.reference].shiftId = NoShift
  BY Zenon DEF EntryFine
<1> QED BY <1>1, <1>3, <1>4, <1>5, Zenon DEF EntryFine

(* The types of the shifts' state.                                         *)
LEMMA ShiftFields ==
  ASSUME ShiftInv
  PROVE  /\ invoices \in [Sales -> InvoiceRecords] /\ shifts \in [Shifts -> ShiftRecords]
         /\ entered \in 0 .. MaxEntries /\ entered \in Int
         /\ cashEntries \subseteq Entries /\ IsFiniteSet(cashEntries)
         /\ snapshots \in [Sales -> Snapshots]
         /\ till \in [Shifts -> Int] /\ atClose \in [Shifts -> Int]
BY ShiftSizes DEF ShiftInv, ShiftTypeOK, InvoiceRecords, ShiftRecords

(* An invoice is made or cancelled, and no other one changes.              *)
OnInvoice(i) ==
  /\ invoices' \in [Sales -> InvoiceRecords]
  /\ invoices[i].status \in {"none", "sold"} /\ invoices'[i].status \in {"sold", "cancelled"}
  /\ invoices[i].status # "none" => invoices'[i].shiftId = invoices[i].shiftId
  /\ \A j \in Sales \ {i} : invoices'[j] = invoices[j]

(* Whatever happens to an invoice that stays on file, what is on file      *)
(* keeps fine.                                                             *)
LEMMA OnInvoiceKeeps ==
  ASSUME ShiftInv, NEW i \in Sales, OnInvoice(i), entered' \in Int, entered <= entered',
         UNCHANGED <<shifts, snapshots>>
  PROVE  /\ \A e \in cashEntries : EntryLive(e)'
         /\ \A j \in Sales : SaleFine(j)'
<1>1. \A j \in Sales : invoices[j].status # "none" => invoices'[j].shiftId = invoices[j].shiftId
  BY Zenon DEF OnInvoice
<1>2. \A s \in Shifts : shifts[s].status # "none" => shifts'[s].status # "none"
  BY Zenon
<1>3. ASSUME NEW e \in cashEntries PROVE EntryLive(e)'
  <2>1. EntryLive(e)
    BY Zenon DEF ShiftInv
  <2>2. EntryFine(e) /\ (e.reference \in Sales => invoices[e.reference].status \in {"sold", "cancelled"})
    BY <2>1, Zenon DEF EntryLive
  <2>3. e.reference \in Sales => invoices[e.reference].status # "none"
    BY <2>2
  <2>4. EntryFine(e)'
    BY <1>1, <1>2, <2>2, <2>3, FineStays
  <2>5. e.reference \in Sales => invoices'[e.reference].status \in {"sold", "cancelled"}
    BY <2>2, Zenon DEF OnInvoice
  <2> QED BY <2>4, <2>5, Zenon DEF EntryLive
<1>4. ASSUME NEW j \in Sales PROVE SaleFine(j)'
  <2>1. SaleFine(j)
    BY Zenon DEF ShiftInv
  <2>2. invoices[j].status = "deleted" <=> invoices'[j].status = "deleted"
    <3>1. CASE j = i
      BY <3>1 DEF OnInvoice
    <3>2. CASE j # i
      BY <3>2, Zenon DEF OnInvoice
    <3> QED BY <3>1, <3>2
  <2>3. ASSUME NEW e \in snapshots[j].entries PROVE EntryFine(e)'
    <3>1. EntryFine(e) /\ e.reference = j
      BY <2>1, Zenon DEF SaleFine
    <3>2. invoices[j].status = "deleted"
      BY <2>1, Zenon DEF SaleFine
    <3>3. e.reference \in Sales => invoices[e.reference].status # "none"
      BY <3>1, <3>2
    <3> QED BY <1>1, <1>2, <3>1, <3>3, FineStays
  <2> QED BY <2>1, <2>2, <2>3, Zenon DEF SaleFine
<1> QED BY <1>3, <1>4

(* An invoice is made or cancelled, and no cash moves.                     *)
LEMMA NoCashStep ==
  ASSUME ShiftInv, NEW i \in Sales, OnInvoice(i),
         UNCHANGED <<cashier, shifts, cashEntries, snapshots, entered, till, atClose>>
  PROVE  ShiftInv'
<1>1. entered' \in Int /\ entered <= entered'
  BY ShiftFields
<1>2. (\A e \in cashEntries : EntryLive(e)') /\ (\A j \in Sales : SaleFine(j)')
  BY <1>1, OnInvoiceKeeps
<1>3. \A s \in Shifts : TillBalanced(s)' /\ ReportKept(s)'
  BY Zenon DEF ShiftInv, TillBalanced, ReportKept, Brought
<1>4. ShiftTypeOK' /\ (snapshots \in [Sales -> Snapshots])'
  BY DEF ShiftInv, ShiftTypeOK, OnInvoice, InvoiceRecords
<1>5. cashEntries' = cashEntries /\ IsFiniteSet(cashEntries)
  BY ShiftFields
<1> QED BY <1>2, <1>3, <1>4, <1>5, Zenon DEF ShiftInv

(* Cash moves, for an invoice of the shift or for none.                    *)
LEMMA CashStep ==
  ASSUME ShiftInv, NEW reference \in Sales \cup {Manual}, NEW amount \in {-1, 1},
         NEW cash \in BOOLEAN, Enter(reference, amount, cash),
         reference \in Sales => OnInvoice(reference),
         reference \in Sales /\ ActiveShift = NoShift => invoices'[reference].shiftId = NoShift,
         reference = Manual => invoices' = invoices,
         UNCHANGED <<cashier, shifts, snapshots, atClose>>
  PROVE  ShiftInv'
<1>0. PICK e \in Entries : Adds(e, reference)
  BY EnterAdds, Zenon
<1>1. /\ e.number = entered /\ e.shiftId = ActiveShift /\ e.reference = reference
      /\ cashEntries' = cashEntries \cup {e} /\ cashEntries \cap {e} = {}
      /\ till' \in [Shifts -> Int]
      /\ \A s \in Shifts : till'[s] = till[s] + Brought({e}, s)
  BY <1>0, Zenon DEF Adds
<1>2. entered \in 0 .. MaxEntries /\ entered \in Int /\ entered < MaxEntries /\ entered' = entered + 1
  BY ShiftFields DEF Enter
<1>3. entered' \in Int /\ entered <= entered' /\ entered < entered' /\ entered' \in 0 .. MaxEntries
  BY <1>2, ShiftSizes
<1>4. (\A x \in cashEntries : EntryLive(x)') /\ (\A j \in Sales : SaleFine(j)')
  <2>1. CASE reference \in Sales
    BY <1>3, <2>1, OnInvoiceKeeps
  <2>2. CASE reference = Manual
    <3>1. \A s \in Shifts : shifts[s].status # "none" => shifts'[s].status # "none"
      BY Zenon
    <3>2. \A j \in Sales : invoices[j].status # "none" => invoices'[j].shiftId = invoices[j].shiftId
      BY <2>2, Zenon
    <3>3. ASSUME NEW x \in cashEntries PROVE EntryLive(x)'
      <4>1. /\ EntryFine(x)
            /\ x.reference \in Sales => invoices[x.reference].status \in {"sold", "cancelled"}
        BY Zenon DEF ShiftInv, EntryLive
      <4>2. x.reference \in Sales => invoices[x.reference].status # "none"
        BY <4>1
      <4>3. EntryFine(x)'
        BY <1>3, <3>1, <3>2, <4>1, <4>2, FineStays
      <4> QED BY <2>2, <4>1, <4>3, Zenon DEF EntryLive
    <3>4. ASSUME NEW j \in Sales PROVE SaleFine(j)'
      <4>1. SaleFine(j)
        BY Zenon DEF ShiftInv
      <4>2. ASSUME NEW x \in snapshots[j].entries PROVE EntryFine(x)'
        <5>1. EntryFine(x) /\ x.reference = j /\ invoices[j].status = "deleted"
          BY <4>1, Zenon DEF SaleFine
        <5>2. x.reference \in Sales => invoices[x.reference].status # "none"
          BY <5>1
        <5> QED BY <1>3, <3>1, <3>2, <5>1, <5>2, FineStays
      <4> QED BY <2>2, <4>1, <4>2, Zenon DEF SaleFine
    <3> QED BY <3>3, <3>4
  <2> QED BY <2>1, <2>2
<1>5. EntryLive(e)'
  <2>1. e.number < entered'
    BY <1>1, <1>3
  <2>2. e.shiftId # NoShift => shifts'[e.shiftId].status # "none"
    <3>1. ActiveShift # NoShift => shifts[ActiveShift].status = "open"
      BY ActiveIsOpen
    <3> QED BY <1>1, <3>1
  <2>3. e.shiftId = NoShift /\ e.reference \in Sales => invoices'[e.reference].shiftId = NoShift
    BY <1>1, Zenon
  <2>4. e.reference \in Sales => invoices'[e.reference].status \in {"sold", "cancelled"}
    BY <1>1, Zenon DEF OnInvoice
  <2> QED BY <2>1, <2>2, <2>3, <2>4, Zenon DEF EntryLive, EntryFine
<1>6. cashEntries' \subseteq Entries /\ IsFiniteSet(cashEntries')
  <2>1. IsFiniteSet(cashEntries) /\ cashEntries \subseteq Entries
    BY ShiftFields
  <2> QED BY <1>1, <2>1, FS_AddElement
<1>7. ASSUME NEW s \in Shifts PROVE TillBalanced(s)' /\ ReportKept(s)'
  <2>1. IsFiniteSet({e}) /\ {e} \subseteq Entries /\ IsFiniteSet(cashEntries) /\ cashEntries \subseteq Entries
    BY FS_Singleton, ShiftFields
  <2>2. cashEntries \cap {e} = {}
    BY <1>1
  <2>3. Brought(cashEntries \cup {e}, s) = Brought(cashEntries, s) + Brought({e}, s)
    BY <2>1, <2>2, BroughtTogether
  <2>4. Brought(cashEntries, s) \in Int /\ Brought({e}, s) \in Int
    BY <2>1, BroughtIs
  <2>5. shifts[s].openingCash \in Int /\ till[s] \in Int
    BY ShiftFields DEF ShiftRecords
  <2>6. TillBalanced(s) /\ ReportKept(s)
    BY Zenon DEF ShiftInv
  <2>7. shifts[s].status # "none" => till[s] = shifts[s].openingCash + Brought(cashEntries, s)
    BY <2>6, Zenon DEF TillBalanced
  <2>8. till'[s] = till[s] + Brought({e}, s)
    BY <1>1
  <2>9. Brought(cashEntries', s) = Brought(cashEntries, s) + Brought({e}, s)
    BY <1>1, <2>3
  <2>10. shifts[s].status # "none" => till'[s] = shifts[s].openingCash + Brought(cashEntries', s)
    BY <2>4, <2>5, <2>7, <2>8, <2>9
  <2>11. TillBalanced(s)'
    BY <2>10, Zenon DEF TillBalanced, Brought
  <2> QED BY <2>6, <2>11, Zenon DEF ReportKept
<1>8. ShiftTypeOK' /\ (snapshots \in [Sales -> Snapshots])'
  <2>1. invoices' \in [Sales -> InvoiceRecords]
    BY ShiftFields DEF OnInvoice
  <2>2. entered' \in 0 .. MaxEntries /\ till' \in [Shifts -> Int]
    BY <1>1, <1>3
  <2> QED BY <1>6, <2>1, <2>2 DEF ShiftInv, ShiftTypeOK, InvoiceRecords
<1>9. \A x \in cashEntries' : EntryLive(x)'
  BY <1>1, <1>4, <1>5, Zenon
<1> QED BY <1>4, <1>6, <1>7, <1>8, <1>9, Zenon DEF ShiftInv

(* A sale keeps the invariant.                                             *)
LEMMA SellOnShiftKeeps ==
  ASSUME ShiftInv, NEW i \in Sales, NEW paid \in BOOLEAN, NEW cash \in BOOLEAN,
         SellOnShift(i, paid, cash)
  PROVE  ShiftInv'
<1> DEFINE opened == [status |-> "sold", shiftId |-> ActiveShift]
<1>1. invoices \in [Sales -> InvoiceRecords] /\ ActiveShift \in Shifts \cup {NoShift}
  BY ShiftFields, ActiveIsOpen
<1>2. invoices[i].status = "none" /\ invoices' = [invoices EXCEPT ![i] = opened]
  BY DEF SellOnShift, NotMade
<1>3. opened \in InvoiceRecords /\ opened.status = "sold" /\ opened.shiftId = ActiveShift
  BY <1>1 DEF InvoiceRecords
<1> HIDE DEF opened
<1>4. OnInvoice(i) /\ invoices'[i].shiftId = ActiveShift
  BY <1>1, <1>2, <1>3 DEF OnInvoice
<1>5. UNCHANGED <<cashier, shifts, snapshots, atClose>>
  BY DEF SellOnShift
<1>6. CASE paid
  <2>1. Enter(i, 1, cash)
    BY <1>6, Zenon DEF SellOnShift
  <2>2. i \in Sales \cup {Manual} /\ 1 \in {-1, 1} /\ i # Manual
    BY ShiftSizes
  <2> QED BY <1>4, <1>5, <2>1, <2>2, CashStep
<1>7. CASE ~paid
  <2>1. UNCHANGED <<cashEntries, entered, till>>
    BY <1>7, Zenon DEF SellOnShift
  <2> QED BY <1>4, <1>5, <2>1, NoCashStep
<1> QED BY <1>6, <1>7

(* A payment or refund on a sale made in the active shift keeps the        *)
(* invariant.                                                              *)
LEMMA MoveCashKeeps ==
  ASSUME ShiftInv, NEW i \in Sales, NEW amount \in {-1, 1}, NEW cash \in BOOLEAN,
         OwnShift(i), MoveCash(i, amount, cash)
  PROVE  ShiftInv'
<1>1. invoices \in [Sales -> InvoiceRecords]
  BY ShiftFields
<1>2. /\ invoices[i].status = "sold" /\ Enter(i, amount, cash)
      /\ UNCHANGED <<cashier, shifts, invoices, snapshots, atClose>>
  BY Zenon DEF MoveCash
<1>3. OnInvoice(i)
  BY <1>1, <1>2 DEF OnInvoice
<1>4. ActiveShift = NoShift => invoices'[i].shiftId = NoShift
  BY <1>2, Zenon DEF OwnShift
<1>5. i \in Sales \cup {Manual} /\ i # Manual
  BY ShiftSizes
<1> QED BY <1>2, <1>3, <1>4, <1>5, CashStep

(* Cancelling a sale made in the active shift keeps the invariant.         *)
LEMMA CancelSaleKeeps ==
  ASSUME ShiftInv, NEW i \in Sales, NEW refund \in BOOLEAN, OwnShift(i), CancelSale(i, refund)
  PROVE  ShiftInv'
<1>1. invoices \in [Sales -> InvoiceRecords] /\ invoices[i] \in InvoiceRecords
  BY ShiftFields
<1>2. /\ invoices[i].status = "sold" /\ invoices' = [invoices EXCEPT ![i].status = "cancelled"]
      /\ UNCHANGED <<cashier, shifts, snapshots, atClose>>
  BY DEF CancelSale
<1>3. invoices'[i] = [invoices[i] EXCEPT !.status = "cancelled"]
  BY <1>1, <1>2
<1>4. /\ invoices'[i].status = "cancelled" /\ invoices'[i].shiftId = invoices[i].shiftId
      /\ invoices' \in [Sales -> InvoiceRecords]
  BY <1>1, <1>2, <1>3 DEF InvoiceRecords
<1>5. OnInvoice(i)
  BY <1>1, <1>2, <1>4 DEF OnInvoice
<1>6. CASE refund
  <2>1. Enter(i, -1, TRUE)
    BY <1>6, Zenon DEF CancelSale
  <2>2. i \in Sales \cup {Manual} /\ -1 \in {-1, 1} /\ i # Manual /\ TRUE \in BOOLEAN
    BY ShiftSizes
  <2>3. ActiveShift = NoShift => invoices'[i].shiftId = NoShift
    BY <1>4, Zenon DEF OwnShift
  <2> QED BY <1>2, <1>5, <2>1, <2>2, <2>3, CashStep
<1>7. CASE ~refund
  <2>1. UNCHANGED <<cashEntries, entered, till>>
    BY <1>7, Zenon DEF CancelSale
  <2> QED BY <1>2, <1>5, <2>1, NoCashStep
<1> QED BY <1>6, <1>7

(* An entry by hand keeps the invariant.                                   *)
LEMMA EnterManuallyKeeps ==
  ASSUME ShiftInv, NEW amount \in {-1, 1}, EnterManually(amount)
  PROVE  ShiftInv'
<1>1. Enter(Manual, amount, TRUE) /\ UNCHANGED <<cashier, shifts, invoices, snapshots, atClose>>
  BY Zenon DEF EnterManually
<1>2. Manual \in Sales \cup {Manual} /\ Manual \notin Sales /\ TRUE \in BOOLEAN
  BY ShiftSizes
<1> QED BY <1>1, <1>2, CashStep

(* Deleting and restoring an invoice moves its entries to its snapshot and *)
(* back; everything else on file stays as it was.                          *)
OnOthers(i) ==
  /\ invoices' \in [Sales -> InvoiceRecords] /\ snapshots' \in [Sales -> Snapshots]
  /\ invoices'[i].shiftId = invoices[i].shiftId
  /\ \A j \in Sales \ {i} : invoices'[j] = invoices[j] /\ snapshots'[j] = snapshots[j]

(* What a change to one sale's records leaves true of the entries of the   *)
(* others.                                                                 *)
LEMMA OthersKeep ==
  ASSUME ShiftInv, NEW i \in Sales, OnOthers(i), UNCHANGED <<shifts, entered>>
  PROVE  /\ \A e \in cashEntries : e.reference # i => EntryLive(e)'
         /\ \A j \in Sales \ {i} : SaleFine(j)'
         /\ \A e : EntryFine(e) /\ e.reference = i /\ invoices[i].status # "none" => EntryFine(e)'
<1>1. \A j \in Sales : invoices'[j].shiftId = invoices[j].shiftId
  BY Zenon DEF OnOthers
<1>2. \A s \in Shifts : shifts[s].status # "none" => shifts'[s].status # "none"
  BY Zenon
<1>3. entered' \in Int /\ entered <= entered'
  BY ShiftFields
<1>4. \A e : EntryFine(e) /\ (e.reference \in Sales => invoices[e.reference].status # "none")
             => EntryFine(e)'
  BY <1>1, <1>2, <1>3, FineStays
<1>5. ASSUME NEW e \in cashEntries, e.reference # i PROVE EntryLive(e)'
  <2>1. /\ EntryFine(e)
        /\ e.reference \in Sales => invoices[e.reference].status \in {"sold", "cancelled"}
    BY Zenon DEF ShiftInv, EntryLive
  <2>2. e.reference \in Sales => invoices[e.reference].status # "none"
    BY <2>1
  <2>3. e.reference \in Sales => invoices'[e.reference] = invoices[e.reference]
    BY <1>5, Zenon DEF OnOthers
  <2> QED BY <1>4, <2>1, <2>2, <2>3, Zenon DEF EntryLive
<1>6. ASSUME NEW j \in Sales \ {i} PROVE SaleFine(j)'
  <2>1. SaleFine(j) /\ invoices'[j] = invoices[j] /\ snapshots'[j] = snapshots[j]
    BY Zenon DEF ShiftInv, OnOthers
  <2>2. ASSUME NEW e \in snapshots[j].entries PROVE EntryFine(e)'
    <3>1. EntryFine(e) /\ e.reference = j /\ invoices[j].status = "deleted"
      BY <2>1, Zenon DEF SaleFine
    <3>2. e.reference \in Sales => invoices[e.reference].status # "none"
      BY <3>1
    <3> QED BY <1>4, <3>1, <3>2
  <2> QED BY <2>1, <2>2, Zenon DEF SaleFine
<1>7. ASSUME NEW e, EntryFine(e), e.reference = i, invoices[i].status # "none" PROVE EntryFine(e)'
  BY <1>4, <1>7, Zenon
<1> QED BY <1>5, <1>6, <1>7

(* Deleting a sale, with its entries, keeps the invariant.                 *)
LEMMA DeleteSaleKeeps ==
  ASSUME ShiftInv, NEW i \in Sales, DeleteSale(i)
  PROVE  ShiftInv'
<1> DEFINE gone == EntriesOf(i)
           kept == cashEntries \ gone
           copy == [status |-> invoices[i].status, entries |-> gone]
<1>1. /\ invoices \in [Sales -> InvoiceRecords] /\ invoices[i] \in InvoiceRecords
      /\ snapshots \in [Sales -> Snapshots]
      /\ cashEntries \subseteq Entries /\ IsFiniteSet(cashEntries) /\ till \in [Shifts -> Int]
  BY ShiftFields
<1>2. /\ invoices[i].status \in {"sold", "cancelled"}
      /\ invoices' = [invoices EXCEPT ![i].status = "deleted"]
      /\ snapshots' = [snapshots EXCEPT ![i] = copy]
      /\ cashEntries' = kept
      /\ till' = [s \in Shifts |-> till[s] - Brought(gone, s)]
      /\ UNCHANGED <<cashier, shifts, entered, atClose>>
  BY DEF DeleteSale
<1>3. gone \subseteq cashEntries /\ \A e \in gone : e.reference = i
  BY Zenon DEF EntriesOf
<1>4. /\ kept \cup gone = cashEntries /\ kept \cap gone = {}
      /\ \A e \in kept : e \in cashEntries /\ e.reference # i
  BY Zenon DEF EntriesOf
<1>5. gone \subseteq Entries /\ kept \subseteq Entries /\ IsFiniteSet(gone) /\ IsFiniteSet(kept)
  BY <1>1, <1>3, <1>4, FS_Subset
<1>6. copy \in Snapshots /\ copy.status = invoices[i].status /\ copy.entries = gone
  BY <1>2, <1>5 DEF Snapshots
<1> HIDE DEF gone, kept, copy
<1>7. /\ invoices'[i].status = "deleted" /\ invoices'[i].shiftId = invoices[i].shiftId
      /\ invoices' \in [Sales -> InvoiceRecords]
  <2>1. invoices'[i] = [invoices[i] EXCEPT !.status = "deleted"]
    BY <1>1, <1>2
  <2> QED BY <1>1, <1>2, <2>1 DEF InvoiceRecords
<1>8. snapshots' \in [Sales -> Snapshots] /\ snapshots'[i] = copy
  BY <1>1, <1>2, <1>6
<1>9. OnOthers(i)
  BY <1>1, <1>2, <1>7, <1>8 DEF OnOthers
<1>10. /\ \A e \in cashEntries : e.reference # i => EntryLive(e)'
       /\ \A j \in Sales \ {i} : SaleFine(j)'
       /\ \A e : EntryFine(e) /\ e.reference = i /\ invoices[i].status # "none" => EntryFine(e)'
  BY <1>2, <1>9, OthersKeep
<1>11. \A e \in cashEntries' : EntryLive(e)'
  BY <1>2, <1>4, <1>10, Zenon
<1>12. SaleFine(i)'
  <2>1. \A e \in gone : EntryFine(e)' /\ e.reference = i
    <3>1. \A e \in gone : EntryFine(e)
      BY <1>3, Zenon DEF ShiftInv, EntryLive
    <3>2. invoices[i].status # "none"
      BY <1>2
    <3> QED BY <1>3, <1>10, <3>1, <3>2, Zenon
  <2>2. snapshots'[i].entries = gone /\ snapshots'[i].status \in {"sold", "cancelled"}
    BY <1>2, <1>6, <1>8
  <2> QED BY <1>5, <1>7, <2>1, <2>2, Zenon DEF SaleFine
<1>13. ASSUME NEW s \in Shifts PROVE TillBalanced(s)' /\ ReportKept(s)'
  <2>1. Brought(cashEntries, s) = Brought(kept, s) + Brought(gone, s)
    BY <1>4, <1>5, BroughtTogether
  <2>2. Brought(kept, s) \in Int /\ Brought(gone, s) \in Int
    BY <1>5, BroughtIs
  <2>3. shifts[s].openingCash \in Int /\ till[s] \in Int
    BY ShiftFields DEF ShiftRecords
  <2>4. TillBalanced(s) /\ ReportKept(s)
    BY Zenon DEF ShiftInv
  <2>5. shifts[s].status # "none" => till[s] = shifts[s].openingCash + Brought(cashEntries, s)
    BY <2>4, Zenon DEF TillBalanced
  <2>6. till'[s] = till[s] - Brought(gone, s)
    BY <1>2
  <2>7. shifts[s].status # "none" => till'[s] = shifts[s].openingCash + Brought(kept, s)
    BY <2>1, <2>2, <2>3, <2>5, <2>6
  <2>8. TillBalanced(s)'
    BY <1>2, <2>7, Zenon DEF TillBalanced, Brought
  <2> QED BY <1>2, <2>4, <2>8, Zenon DEF ReportKept
<1>14. ShiftTypeOK'
  <2>1. till' \in [Shifts -> Int]
    <3>1. \A s \in Shifts : Brought(gone, s) \in Int
      BY <1>5, BroughtIs
    <3>2. \A s \in Shifts : till[s] - Brought(gone, s) \in Int
      BY <1>1, <3>1
    <3> QED BY <1>2, <3>2
  <2>2. \A j \in Sales : snapshots'[j].entries \subseteq Entries
    BY <1>8 DEF Snapshots
  <2>3. cashEntries' \subseteq Entries
    BY <1>2, <1>5
  <2> QED BY <1>2, <1>7, <2>1, <2>2, <2>3 DEF ShiftInv, ShiftTypeOK, InvoiceRecords
<1>15. \A j \in Sales : SaleFine(j)'
  BY <1>10, <1>12, Zenon
<1>16. IsFiniteSet(cashEntries)'
  BY <1>2, <1>5
<1> QED BY <1>8, <1>11, <1>13, <1>14, <1>15, <1>16, Zenon DEF ShiftInv

(* Undoing the deletion of a sale keeps the invariant.                     *)
LEMMA RestoreSaleKeeps ==
  ASSUME ShiftInv, NEW i \in Sales, RestoreSale(i)
  PROVE  ShiftInv'
<1> DEFINE back == snapshots[i].entries
<1>1. /\ invoices \in [Sales -> InvoiceRecords] /\ invoices[i] \in InvoiceRecords
      /\ snapshots \in [Sales -> Snapshots]
      /\ cashEntries \subseteq Entries /\ IsFiniteSet(cashEntries) /\ till \in [Shifts -> Int]
  BY ShiftFields
<1>2. /\ invoices[i].status = "deleted"
      /\ invoices' = [invoices EXCEPT ![i].status = snapshots[i].status]
      /\ snapshots' = [snapshots EXCEPT ![i] = NoSnapshot]
      /\ cashEntries' = cashEntries \cup back
      /\ till' = [s \in Shifts |-> till[s] + Brought(back, s)]
      /\ UNCHANGED <<cashier, shifts, entered, atClose>>
  BY DEF RestoreSale
<1>3. /\ IsFiniteSet(back) /\ \A e \in back : EntryFine(e) /\ e.reference = i
      /\ snapshots[i].status \in {"sold", "cancelled"}
  BY <1>2, Zenon DEF ShiftInv, SaleFine
<1>4. back \subseteq Entries
  BY <1>3, Zenon DEF EntryFine
<1> HIDE DEF back
<1>5. \A e \in cashEntries : e.reference # i
  <2>1. \A e \in cashEntries : e.reference \in Sales =>
          invoices[e.reference].status \in {"sold", "cancelled"}
    BY Zenon DEF ShiftInv, EntryLive
  <2>2. ~(invoices[i].status \in {"sold", "cancelled"})
    BY <1>2
  <2> QED BY <2>1, <2>2, Zenon
<1>6. cashEntries \cap back = {}
  BY <1>3, <1>5, Zenon
<1>7. /\ invoices'[i].status = snapshots[i].status /\ invoices'[i].shiftId = invoices[i].shiftId
      /\ invoices' \in [Sales -> InvoiceRecords]
  <2>1. invoices'[i] = [invoices[i] EXCEPT !.status = snapshots[i].status]
    BY <1>1, <1>2
  <2>2. snapshots[i].status \in {"none", "sold", "cancelled", "deleted"}
    BY <1>3
  <2> QED BY <1>1, <1>2, <2>1, <2>2 DEF InvoiceRecords
<1>8. snapshots' \in [Sales -> Snapshots] /\ snapshots'[i] = NoSnapshot
  <2>1. NoSnapshot \in Snapshots
    BY DEF NoSnapshot, Snapshots
  <2> QED BY <1>1, <1>2, <2>1
<1>9. OnOthers(i)
  BY <1>1, <1>2, <1>7, <1>8 DEF OnOthers
<1>10. /\ \A e \in cashEntries : e.reference # i => EntryLive(e)'
       /\ \A j \in Sales \ {i} : SaleFine(j)'
       /\ \A e : EntryFine(e) /\ e.reference = i /\ invoices[i].status # "none" => EntryFine(e)'
  BY <1>2, <1>9, OthersKeep
<1>11. \A e \in cashEntries' : EntryLive(e)'
  <2>1. \A e \in back : EntryFine(e)'
    <3>1. invoices[i].status # "none"
      BY <1>2
    <3> QED BY <1>3, <1>10, <3>1, Zenon
  <2>2. \A e \in back : invoices'[e.reference].status \in {"sold", "cancelled"}
    BY <1>3, <1>7
  <2>3. \A e \in back : EntryLive(e)'
    BY <2>1, <2>2, Zenon DEF EntryLive
  <2> QED BY <1>2, <1>5, <1>10, <2>3, Zenon
<1>12. SaleFine(i)'
  <2>1. snapshots'[i].entries = {} /\ IsFiniteSet({})
    BY <1>8, FS_EmptySet DEF NoSnapshot
  <2>2. invoices'[i].status # "deleted"
    BY <1>3, <1>7
  <2> QED BY <2>1, <2>2, Zenon DEF SaleFine
<1>13. ASSUME NEW s \in Shifts PROVE TillBalanced(s)' /\ ReportKept(s)'
  <2>1. Brought(cashEntries \cup back, s) = Brought(cashEntries, s) + Brought(back, s)
    BY <1>1, <1>3, <1>4, <1>6, BroughtTogether
  <2>2. Brought(cashEntries, s) \in Int /\ Brought(back, s) \in Int
    BY <1>1, <1>3, <1>4, BroughtIs
  <2>3. shifts[s].openingCash \in Int /\ till[s] \in Int
    BY ShiftFields DEF ShiftRecords
  <2>4. TillBalanced(s) /\ ReportKept(s)
    BY Zenon DEF ShiftInv
  <2>5. shifts[s].status # "none" => till[s] = shifts[s].openingCash + Brought(cashEntries, s)
    BY <2>4, Zenon DEF TillBalanced
  <2>6. till'[s] = till[s] + Brought(back, s)
    BY <1>2
  <2>7. shifts[s].status # "none" => till'[s] = shifts[s].openingCash + Brought(cashEntries \cup back, s)
    BY <2>1, <2>2, <2>3, <2>5, <2>6
  <2>8. TillBalanced(s)'
    BY <1>2, <2>7, Zenon DEF TillBalanced, Brought
  <2> QED BY <1>2, <2>4, <2>8, Zenon DEF ReportKept
<1>14. ShiftTypeOK'
  <2>1. till' \in [Shifts -> Int]
    <3>1. \A s \in Shifts : Brought(back, s) \in Int
      BY <1>3, <1>4, BroughtIs
    <3>2. \A s \in Shifts : till[s] + Brought(back, s) \in Int
      BY <1>1, <3>1
    <3> QED BY <1>2, <3>2
  <2>2. \A j \in Sales : snapshots'[j].entries \subseteq Entries
    BY <1>8 DEF Snapshots
  <2>3. cashEntries' \subseteq Entries
    BY <1>1, <1>2, <1>4
  <2> QED BY <1>2, <1>7, <2>1, <2>2, <2>3 DEF ShiftInv, ShiftTypeOK, InvoiceRecords
<1>15. \A j \in Sales : SaleFine(j)'
  BY <1>10, <1>12, Zenon
<1>16. IsFiniteSet(cashEntries)'
  BY <1>1, <1>2, <1>3, FS_Union
<1> QED BY <1>8, <1>11, <1>13, <1>14, <1>15, <1>16, Zenon DEF ShiftInv

(* Only shifts change.                                                     *)
LEMMA ShiftOnly ==
  ASSUME ShiftInv, UNCHANGED <<invoices, cashEntries, snapshots, entered>>,
         \A s \in Shifts : shifts[s].status # "none" => shifts'[s].status # "none"
  PROVE  /\ \A e \in cashEntries' : EntryLive(e)'
         /\ \A j \in Sales : SaleFine(j)'
<1>1. entered' \in Int /\ entered <= entered'
  BY ShiftFields
<1>2. \A j \in Sales : invoices[j].status # "none" => invoices'[j].shiftId = invoices[j].shiftId
  BY Zenon
<1>3. \A e : EntryFine(e) /\ (e.reference \in Sales => invoices[e.reference].status # "none")
             => EntryFine(e)'
  BY <1>1, <1>2, FineStays
<1>4. ASSUME NEW e \in cashEntries PROVE EntryLive(e)'
  <2>1. /\ EntryFine(e)
        /\ e.reference \in Sales => invoices[e.reference].status \in {"sold", "cancelled"}
    BY Zenon DEF ShiftInv, EntryLive
  <2>2. e.reference \in Sales => invoices[e.reference].status # "none"
    BY <2>1
  <2> QED BY <1>3, <2>1, <2>2, Zenon DEF EntryLive
<1>5. ASSUME NEW j \in Sales PROVE SaleFine(j)'
  <2>1. SaleFine(j)
    BY Zenon DEF ShiftInv
  <2>2. ASSUME NEW e \in snapshots[j].entries PROVE EntryFine(e)'
    <3>1. EntryFine(e) /\ e.reference = j /\ invoices[j].status = "deleted"
      BY <2>1, Zenon DEF SaleFine
    <3>2. e.reference \in Sales => invoices[e.reference].status # "none"
      BY <3>1
    <3> QED BY <1>3, <3>1, <3>2
  <2> QED BY <2>1, <2>2, Zenon DEF SaleFine
<1> QED BY <1>4, <1>5

(* A change of cashier keeps the invariant.                                *)
LEMMA SignInAsKeeps ==
  ASSUME ShiftInv, NEW u \in Cashiers \cup {SignedOut}, SignInAs(u)
  PROVE  ShiftInv'
<1>1. cashier' = u /\ UNCHANGED <<shifts, invoices, cashEntries, snapshots, entered, till, atClose>>
  BY DEF SignInAs
<1>2. (\A e \in cashEntries' : EntryLive(e)') /\ (\A j \in Sales : SaleFine(j)')
  BY <1>1, ShiftOnly
<1>3. \A s \in Shifts : TillBalanced(s)' /\ ReportKept(s)'
  BY <1>1, Zenon DEF ShiftInv, TillBalanced, ReportKept, Brought
<1>4. ShiftTypeOK' /\ (snapshots \in [Sales -> Snapshots])' /\ IsFiniteSet(cashEntries)'
  BY <1>1 DEF ShiftInv, ShiftTypeOK
<1> QED BY <1>2, <1>3, <1>4, Zenon DEF ShiftInv

(* Opening a shift keeps the invariant.                                    *)
LEMMA OpenShiftKeeps ==
  ASSUME ShiftInv, NEW openingCash \in Floats, OpenShift(openingCash)
  PROVE  ShiftInv'
<1> DEFINE opened == [status |-> "open", cashierId |-> cashier, openingCash |-> openingCash,
                   expectedCash |-> openingCash]
<1>1. PICK s \in Shifts :
        /\ shifts[s] = NotOpened /\ shifts' = [shifts EXCEPT ![s] = opened]
        /\ till' = [till EXCEPT ![s] = openingCash]
  BY DEF OpenShift
<1>2. UNCHANGED <<cashier, invoices, cashEntries, snapshots, entered, atClose>>
  BY DEF OpenShift
<1>3. /\ shifts \in [Shifts -> ShiftRecords] /\ till \in [Shifts -> Int]
      /\ cashEntries \subseteq Entries /\ IsFiniteSet(cashEntries)
      /\ shifts[s].status = "none" /\ cashier \in Cashiers \cup {SignedOut}
      /\ openingCash \in Nat
  BY <1>1, ShiftFields, ShiftSizes DEF NotOpened, ShiftInv, ShiftTypeOK
<1>4. opened \in ShiftRecords /\ opened.status = "open" /\ opened.openingCash = openingCash
  BY <1>3 DEF ShiftRecords
<1> HIDE DEF opened
<1>5. shifts' \in [Shifts -> ShiftRecords] /\ shifts'[s] = opened /\ till' \in [Shifts -> Int]
  BY <1>1, <1>3, <1>4
<1>6. \A r \in Shifts : shifts[r].status # "none" => shifts'[r].status # "none"
  BY <1>1, <1>3, <1>4
<1>7. (\A e \in cashEntries' : EntryLive(e)') /\ (\A j \in Sales : SaleFine(j)')
  BY <1>2, <1>6, ShiftOnly
<1>8. Brought(cashEntries, s) = 0
  <2>1. ASSUME NEW e \in cashEntries PROVE e.shiftId # s
    <3>1. e.shiftId # NoShift => shifts[e.shiftId].status # "none"
      BY Zenon DEF ShiftInv, EntryLive, EntryFine
    <3>2. s # NoShift
      BY ShiftSizes
    <3> QED BY <1>3, <3>1, <3>2
  <2> QED BY <1>3, <2>1, BroughtByOthers
<1>9. ASSUME NEW r \in Shifts PROVE TillBalanced(r)' /\ ReportKept(r)'
  <2>1. TillBalanced(r) /\ ReportKept(r)
    BY Zenon DEF ShiftInv
  <2>2. CASE r = s
    <3>1. till'[r] = openingCash /\ shifts'[r].openingCash = openingCash /\ shifts'[r].status = "open"
      BY <1>1, <1>3, <1>4, <1>5, <2>2
    <3>2. till'[r] = shifts'[r].openingCash + Brought(cashEntries, r)
      BY <1>3, <1>8, <2>2, <3>1
    <3>3. TillBalanced(r)'
      BY <1>2, <3>2, Zenon DEF TillBalanced, Brought
    <3>4. ReportKept(r)'
      BY <3>1 DEF ReportKept
    <3> QED BY <3>3, <3>4
  <2>3. CASE r # s
    <3>1. shifts'[r] = shifts[r] /\ till'[r] = till[r]
      BY <1>1, <1>3, <2>3
    <3> QED BY <1>2, <2>1, <3>1, Zenon DEF TillBalanced, ReportKept, Brought
  <2> QED BY <2>2, <2>3
<1>10. ShiftTypeOK' /\ (snapshots \in [Sales -> Snapshots])' /\ IsFiniteSet(cashEntries)'
  BY <1>2, <1>5 DEF ShiftInv, ShiftTypeOK, ShiftRecords
<1> QED BY <1>7, <1>9, <1>10, Zenon DEF ShiftInv

(* Closing a shift keeps the invariant.                                    *)
LEMMA CloseShiftKeeps ==
  ASSUME ShiftInv, NEW s \in Shifts, CloseShift(s)
  PROVE  ShiftInv'
<1> DEFINE cash == ExpectedCash(s)
           opened == [shifts[s] EXCEPT !.status = "closed", !.expectedCash = cash]
<1>1. /\ shifts[s].status = "open"
      /\ shifts' = [shifts EXCEPT ![s].status = "closed", ![s].expectedCash = cash]
      /\ atClose' = [atClose EXCEPT ![s] = till[s]]
      /\ UNCHANGED <<cashier, invoices, cashEntries, snapshots, entered, till>>
  BY DEF CloseShift
<1>2. /\ shifts \in [Shifts -> ShiftRecords] /\ shifts[s] \in ShiftRecords
      /\ till \in [Shifts -> Int] /\ atClose \in [Shifts -> Int]
  BY ShiftFields
<1>3. cash = till[s] /\ cash \in Int
  <2>1. cash = shifts[s].openingCash + Brought(cashEntries, s)
    BY ExpectedIsBrought
  <2>2. TillBalanced(s)
    BY Zenon DEF ShiftInv
  <2>3. shifts[s].status # "none"
    BY <1>1
  <2>4. till[s] = shifts[s].openingCash + Brought(cashEntries, s)
    BY <2>2, <2>3, Zenon DEF TillBalanced
  <2> HIDE DEF cash
  <2>5. cash = till[s]
    BY <2>1, <2>4
  <2> QED BY <1>2, <2>5
<1> HIDE DEF cash
<1>4. shifts' = [shifts EXCEPT ![s] = opened]
  BY <1>1, <1>2
<1>5. /\ opened \in ShiftRecords /\ opened.status = "closed" /\ opened.expectedCash = cash
      /\ opened.openingCash = shifts[s].openingCash
  BY <1>2, <1>3 DEF ShiftRecords
<1> HIDE DEF opened
<1>6. /\ shifts' \in [Shifts -> ShiftRecords] /\ shifts'[s] = opened
      /\ atClose' \in [Shifts -> Int] /\ atClose'[s] = till[s]
  BY <1>1, <1>2, <1>4, <1>5
<1>7. \A r \in Shifts : shifts[r].status # "none" => shifts'[r].status # "none"
  BY <1>2, <1>4, <1>5
<1>8. (\A e \in cashEntries' : EntryLive(e)') /\ (\A j \in Sales : SaleFine(j)')
  BY <1>1, <1>7, ShiftOnly
<1>9. ASSUME NEW r \in Shifts PROVE TillBalanced(r)' /\ ReportKept(r)'
  <2>1. TillBalanced(r) /\ ReportKept(r)
    BY Zenon DEF ShiftInv
  <2>2. CASE r = s
    <3>1. /\ shifts'[r].openingCash = shifts[r].openingCash /\ shifts[r].status # "none"
          /\ shifts'[r].expectedCash = atClose'[r]
      BY <1>1, <1>3, <1>5, <1>6, <2>2
    <3> QED BY <1>1, <2>1, <3>1, Zenon DEF TillBalanced, ReportKept, Brought
  <2>3. CASE r # s
    <3>1. shifts'[r] = shifts[r] /\ atClose'[r] = atClose[r]
      BY <1>1, <1>2, <1>4, <2>3
    <3> QED BY <1>1, <2>1, <3>1, Zenon DEF TillBalanced, ReportKept, Brought
  <2> QED BY <2>2, <2>3
<1>10. ShiftTypeOK' /\ (snapshots \in [Sales -> Snapshots])' /\ IsFiniteSet(cashEntries)'
  BY <1>1, <1>6 DEF ShiftInv, ShiftTypeOK, ShiftRecords
<1> QED BY <1>8, <1>9, <1>10, Zenon DEF ShiftInv

(* A step that leaves the shifts alone keeps the invariant.                *)
LEMMA ShiftStutter == ASSUME ShiftInv, UNCHANGED shiftVars PROVE ShiftInv'
<1>1. UNCHANGED <<cashier, shifts, invoices, cashEntries, snapshots, entered, till, atClose>>
  BY DEF shiftVars
<1>2. (\A e \in cashEntries' : EntryLive(e)') /\ (\A j \in Sales : SaleFine(j)')
  BY <1>1, ShiftOnly
<1>3. \A s \in Shifts : TillBalanced(s)' /\ ReportKept(s)'
  BY <1>1, Zenon DEF ShiftInv, TillBalanced, ReportKept, Brought
<1>4. ShiftTypeOK' /\ (snapshots \in [Sales -> Snapshots])' /\ IsFiniteSet(cashEntries)'
  BY <1>1 DEF ShiftInv, ShiftTypeOK
<1> QED BY <1>2, <1>3, <1>4, Zenon DEF ShiftInv

(* The initial states of the shifts satisfy the invariant.                 *)
LEMMA ShiftInitInv == ASSUME ShiftInit PROVE ShiftInv
<1>1. /\ cashier = SignedOut /\ shifts = [s \in Shifts |-> NotOpened]
      /\ invoices = [i \in Sales |-> NotMade] /\ cashEntries = {} /\ entered = 0
      /\ snapshots = [i \in Sales |-> NoSnapshot]
      /\ till = [s \in Shifts |-> 0] /\ atClose = [s \in Shifts |-> 0]
  BY DEF ShiftInit
<1>2. NotOpened \in ShiftRecords /\ NotMade \in InvoiceRecords /\ NoSnapshot \in Snapshots
  BY DEF NotOpened, NotMade, NoSnapshot, ShiftRecords, InvoiceRecords, Snapshots
<1>3. shifts \in [Shifts -> ShiftRecords] /\ invoices \in [Sales -> InvoiceRecords]
      /\ snapshots \in [Sales -> Snapshots]
  BY <1>1, <1>2
<1>4. entered \in 0 .. MaxEntries /\ till \in [Shifts -> Int] /\ atClose \in [Shifts -> Int]
  BY <1>1, ShiftSizes
<1>5. \A i \in Sales : snapshots[i].entries \subseteq Entries
  BY <1>3 DEF Snapshots
<1>6. ShiftTypeOK
  BY <1>1, <1>3, <1>4, <1>5 DEF ShiftTypeOK, ShiftRecords, InvoiceRecords
<1>7. \A i \in Sales : SaleFine(i)
  <2>1. \A i \in Sales : snapshots[i].entries = {} /\ invoices[i].status = "none"
    BY <1>1 DEF NoSnapshot, NotMade
  <2>2. IsFiniteSet({})
    BY FS_EmptySet
  <2> QED BY <2>1, <2>2 DEF SaleFine
<1>8. \A s \in Shifts : shifts[s].status = "none"
  BY <1>1 DEF NotOpened
<1>9. \A s \in Shifts : TillBalanced(s) /\ ReportKept(s)
  BY <1>8 DEF TillBalanced, ReportKept
<1>10. IsFiniteSet(cashEntries) /\ \A e \in cashEntries : EntryLive(e)
  BY <1>1, FS_EmptySet
<1> QED BY <1>3, <1>6, <1>7, <1>9, <1>10 DEF ShiftInv

(* Every step of the shifts keeps the invariant.                           *)
LEMMA ShiftStep == ASSUME ShiftInv, [ShiftNext]_shiftVars PROVE ShiftInv'
<1>1. CASE \E u \in Cashiers \cup {SignedOut} : SignInAs(u)
  BY <1>1, SignInAsKeeps
<1>2. CASE \E openingCash \in Floats : OpenShift(openingCash)
  BY <1>2, OpenShiftKeeps
<1>3. CASE \E s \in Shifts : CloseShift(s)
  BY <1>3, CloseShiftKeeps
<1>4. CASE \E i \in Sales, paid, cash \in BOOLEAN : SellOnShift(i, paid, cash)
  BY <1>4, SellOnShiftKeeps
<1>5. CASE \E i \in Sales, amount \in {-1, 1}, cash \in BOOLEAN : OwnShift(i) /\ MoveCash(i, amount, cash)
  BY <1>5, MoveCashKeeps
<1>6. CASE \E i \in Sales, refund \in BOOLEAN : OwnShift(i) /\ CancelSale(i, refund)
  BY <1>6, CancelSaleKeeps
<1>7. CASE \E i \in Sales : DeleteSale(i) \/ RestoreSale(i)
  BY <1>7, DeleteSaleKeeps, RestoreSaleKeeps
<1>8. CASE \E amount \in {-1, 1} : EnterManually(amount)
  BY <1>8, EnterManuallyKeeps
<1>9. CASE UNCHANGED shiftVars
  BY <1>9, ShiftStutter
<1> QED BY <1>1, <1>2, <1>3, <1>4, <1>5, <1>6, <1>7, <1>8, <1>9, Zenon DEF ShiftNext

(* The drawer of every shift accounts for its entries, and the snapshots   *)
(* of deleted invoices hold what went with them (AppContext.tsx, _pure.ts).*)
THEOREM ShiftsAlwaysInv == ShiftSpec => []ShiftInv
<1>1. ShiftInit => ShiftInv
  BY ShiftInitInv
<1>2. ShiftInv /\ [ShiftNext]_shiftVars => ShiftInv'
  BY ShiftStep
<1> QED BY <1>1, <1>2, PTL DEF ShiftSpec

(* For any number of cashiers, shifts, sales and entries, the expected     *)
(* cash of an open shift is what its cashier took and handed out, and a    *)
(* closed shift's report stands.                                           *)
THEOREM ExpectedAlwaysInDrawer == ShiftSpec => []ExpectedIsInDrawer
<1>1. ASSUME ShiftInv PROVE ExpectedIsInDrawer
  <2>1. ASSUME NEW s \in Shifts, shifts[s].status = "open" PROVE ExpectedCash(s) = till[s]
    <3>1. ExpectedCash(s) = shifts[s].openingCash + Brought(cashEntries, s)
      BY <1>1, ExpectedIsBrought
    <3>2. TillBalanced(s) /\ shifts[s].status # "none"
      BY <1>1, <2>1 DEF ShiftInv
    <3> QED BY <3>1, <3>2, Zenon DEF TillBalanced
  <2>2. \A s \in Shifts : shifts[s].status = "closed" => shifts[s].expectedCash = atClose[s]
    BY <1>1, Zenon DEF ShiftInv, ReportKept
  <2> QED BY <2>1, <2>2, Zenon DEF ExpectedIsInDrawer
<1> QED BY <1>1, ShiftsAlwaysInv, PTL

---------------------------------------------------------------------------
(* Counting.  As long as the page is saved before it is confirmed and one  *)
(* list at a time is open, every counted draft keeps a balance: the books, *)
(* amended by what was counted over or under the books of the start, are   *)
(* the shelf and what was lost since.  Trade moves both sides, a loss      *)
(* neither, and applying makes the balance the new books.                  *)

(* A quantity counted when before units were lost, for the count c.        *)
CountBalanced(c, qty, before) ==
  /\ inBooks + qty - stocktakes[c].systemQty = onShelf + lost - before
  /\ qty <= stocktakes[c].systemQty /\ before <= lost

Draft(c) == stocktakes[c].status = "draft"

(* Nothing is found on the onHand that the books do not have.               *)
ShelfInBooks == onShelf <= inBooks /\ inBooks <= MaxOnShelf

OneDraft == \A c, d \in Counts : Draft(c) /\ Draft(d) => c = d

DraftsBalanced ==
  \A c \in Counts :
    Draft(c) /\ stocktakes[c].countedQty # Uncounted
      => CountBalanced(c, stocktakes[c].countedQty, lostBefore[c])

PageBalanced ==
  /\ page.count = Uncounted => page = NoPage
  /\ page.local # Uncounted /\ Draft(page.count)
       => CountBalanced(page.count, page.local, page.lostBefore)

CountInv ==
  /\ CountTypeOK /\ ShelfInBooks /\ OneDraft /\ DraftsBalanced /\ PageBalanced /\ CountAdopted

---------------------------------------------------------------------------

(* The initial states of the stocktakes satisfy the invariant.             *)
LEMMA CountInitially == CountInit => CountInv
<1> SUFFICES ASSUME CountInit PROVE CountInv
  OBVIOUS
<1> USE CountAssumption
<1>1. CountTypeOK
  BY DEF CountInit, CountTypeOK, Stocktake, Quantity, NoCount, NoPage
<1>2. ShelfInBooks /\ OneDraft /\ DraftsBalanced /\ PageBalanced /\ CountAdopted
  BY DEF CountInit, ShelfInBooks, OneDraft, DraftsBalanced, PageBalanced, CountAdopted, Draft,
         NoCount, NoPage
<1> QED BY <1>1, <1>2 DEF CountInv

(* A quantity of the books, of the onHand or counted.                       *)
LEMMA QuantityIsInt == Quantity \subseteq Int /\ Uncounted \notin Quantity
  BY CountAssumption DEF Quantity

(* A sale or a receipt moves books and onHand alike.                        *)
LEMMA BothSidesMove ==
  ASSUME NEW books \in Int, NEW onHand \in Int, NEW qty \in Int, NEW counted \in Int,
         NEW system \in Int, NEW gone \in Int, NEW before \in Int,
         books + counted - system = onHand + gone - before
  PROVE  books + qty + counted - system = onHand + qty + gone - before
  OBVIOUS

(* Every step of a stocktake keeps the invariant.                          *)
LEMMA CountInductive == CountInv /\ [CountNext]_countVars => CountInv'
<1> SUFFICES ASSUME CountInv, [CountNext]_countVars PROVE CountInv'
  OBVIOUS
<1> USE CountAssumption, QuantityIsInt
    DEF CountInv, CountTypeOK, ShelfInBooks, OneDraft, DraftsBalanced, PageBalanced, CountAdopted,
        Draft, CountBalanced, Stocktake, Quantity
<1>1. CASE RenderCounts
  BY <1>1 DEF RenderCounts
<1>2. CASE Vanish
  BY <1>2 DEF Vanish
<1>3. CASE LeavePage
  BY <1>3 DEF LeavePage, NoPage
<1>4. CASE SaveCounted
  BY <1>4 DEF SaveCounted, WithLocal, NoPage
<1>5. CASE DeleteCount
  BY <1>5 DEF DeleteCount, NoCount, NoPage
<1>6. ASSUME NEW qty \in {-1, 1}, Trade(qty) PROVE CountInv'
  <2>1. qty \in Int /\ inBooks' = inBooks + qty /\ onShelf' = onShelf + qty
        /\ inBooks' \in Quantity /\ onShelf' \in Quantity
        /\ UNCHANGED <<stocktakes, stocktakesSeen, page, lost, lostBefore, difference>>
    BY <1>6 DEF Trade
  <2>2. CountTypeOK' /\ ShelfInBooks'
    BY <2>1
  <2>3. DraftsBalanced'
    BY <2>1
  <2>4. PageBalanced'
    <3>1. page.local # Uncounted => page.count \in Counts /\ page.local \in Quantity
      BY DEF NoPage
    <3>2. ASSUME page.local # Uncounted, Draft(page.count)
          PROVE  /\ inBooks + qty + page.local - stocktakes[page.count].systemQty
                      = onShelf + qty + lost - page.lostBefore
                 /\ page.local <= stocktakes[page.count].systemQty /\ page.lostBefore <= lost
      <4>1. /\ stocktakes[page.count].systemQty \in Int /\ page.local \in Int
            /\ page.lostBefore \in Int /\ lost \in Int /\ inBooks \in Int /\ onShelf \in Int
        BY <3>1, <3>2
      <4>2. /\ inBooks + page.local - stocktakes[page.count].systemQty
                 = onShelf + lost - page.lostBefore
            /\ page.local <= stocktakes[page.count].systemQty /\ page.lostBefore <= lost
        BY <3>2
      <4>3. qty \in Int
        BY <2>1
      <4> HIDE DEF CountInv, CountTypeOK, Stocktake, Quantity
      <4> QED BY <4>1, <4>2, <4>3, BothSidesMove
    <3> QED BY <2>1, <3>2
  <2> QED BY <2>1, <2>2, <2>3, <2>4
<1>7. ASSUME NEW c \in Counts, OpenPage(c) PROVE CountInv'
  BY <1>7 DEF OpenPage, Page, NoPage
<1>8. ASSUME NEW c \in Counts, OneOpen(c), StartCount(c) PROVE CountInv'
  BY <1>8 DEF OneOpen, StartCount, Page, NoPage
<1>9. CASE NothingTraded /\ CountShelf
  <2>1. /\ page # NoPage /\ page.count \in Counts
        /\ page' = [page EXCEPT !.local = onShelf, !.lostBefore = lost]
        /\ inBooks = stocktakes[page.count].systemQty
        /\ UNCHANGED <<inBooks, onShelf, stocktakes, stocktakesSeen, lost, lostBefore, difference>>
    BY <1>9 DEF NothingTraded, CountShelf
  <2>2. page'.count = page.count /\ page'.local = onShelf /\ page'.lostBefore = lost
    BY <2>1
  <2>3. CountTypeOK'
    BY <2>1
  <2>4. PageBalanced'
    BY <2>1, <2>2 DEF NoPage
  <2> QED BY <2>1, <2>3, <2>4
<1>10. CASE SavedFirst /\ Rendered /\ ConfirmCount
  <2> DEFINE c == page.count
             stk == stocktakes[c]
  <2>1. /\ c \in Counts /\ stk.status = "draft" /\ page.local = Uncounted
        /\ inBooks' = Adjusted(stk)
        /\ stocktakes' = [stocktakes EXCEPT ![c].status = "applied"]
        /\ difference' = IF stk.countedQty = Uncounted THEN difference
                         ELSE inBooks' - onShelf - (lost - lostBefore[c])
        /\ page' = [page EXCEPT !.local = Uncounted]
        /\ UNCHANGED <<onShelf, stocktakesSeen, lost, lostBefore>>
    BY <1>10 DEF SavedFirst, Rendered, ConfirmCount
  <2>2. inBooks' \in Quantity /\ inBooks' >= onShelf /\ difference' = 0
    <3>1. CASE stk.countedQty = Uncounted
      BY <2>1, <3>1 DEF Adjusted
    <3>2. CASE stk.countedQty # Uncounted
      <4>1. /\ stk.countedQty \in Quantity /\ stk.systemQty \in Quantity
            /\ lost \in Nat /\ lostBefore[c] \in Nat
        BY <2>1, <3>2
      <4>2. CountBalanced(c, stk.countedQty, lostBefore[c])
        BY <2>1, <3>2
      <4> DEFINE n == inBooks + stk.countedQty - stk.systemQty
      <4>3. n \in Nat /\ n = onShelf + lost - lostBefore[c] /\ n <= inBooks
        BY <4>1, <4>2
      <4> HIDE DEF n
      <4>4. AtLeastZero(n) = n
        BY <4>3 DEF AtLeastZero
      <4>5. inBooks' = AtLeastZero(n)
        BY <2>1, <3>2 DEF Adjusted, n
      <4> QED BY <2>1, <3>2, <4>1, <4>3, <4>4, <4>5
    <3> QED BY <3>1, <3>2
  <2>3. /\ stocktakes' \in [Counts -> Stocktake]
        /\ \A d \in Counts : stocktakes'[d].status = "draft" => d # c /\ stocktakes'[d] = stocktakes[d]
    BY <2>1
  <2>4. \A d \in Counts : ~(stocktakes'[d].status = "draft")
    BY <2>1, <2>3
  <2>5. CountTypeOK' /\ ShelfInBooks' /\ CountAdopted'
    BY <2>1, <2>2, <2>3
  <2>6. OneDraft' /\ DraftsBalanced'
    BY <2>4
  <2>7. PageBalanced'
    BY <2>1, <2>4 DEF NoPage
  <2> QED BY <2>5, <2>6, <2>7
<1>11. CASE UNCHANGED countVars
  BY <1>11 DEF countVars
<1> QED
  BY <1>1, <1>2, <1>3, <1>4, <1>5, <1>6, <1>7, <1>8, <1>9, <1>10, <1>11 DEF CountNext, ShopAtWork

---------------------------------------------------------------------------

(* The inductive invariant of counting.                                    *)
THEOREM CountInvariant == CountSpec => []CountInv
<1>1. CountInit => CountInv BY CountInitially
<1>2. CountInv /\ [CountNext]_countVars => CountInv' BY CountInductive
<1> QED BY <1>1, <1>2, PTL DEF CountSpec

(* Applying a saved count makes the books the onHand that was counted       *)
(* (applyStocktake).                                                       *)
THEOREM CountAlwaysAdopted == CountSpec => []CountAdopted
<1>1. CountInv => CountAdopted BY DEF CountInv
<1> QED BY CountInvariant, <1>1, PTL

---------------------------------------------------------------------------
(* Updating.  That a skipped release stays away needs that only normal     *)
(* releases are skipped and that what is offered is newer than what runs;  *)
(* that the gate waits for the right artifact needs that the transfer      *)
(* under way is of the release in the state record.                        *)

(* Only releases that may be skipped are.                                  *)
SkippedWereNormal == \A r \in skipped : canSkipUpdate(r)

(* What is offered or on record is newer than the program.                 *)
OffersNewer ==
  /\ \A reason \in Reasons : checks[reason].offered # 0 => checks[reason].offered > installed
  /\ release # 0 => release > installed

(* The artifact that comes down is that of the release on record, if there *)
(* is one.                                                                 *)
TransferOfRelease ==
  /\ transfer # NoTransfer => release \in {0, transfer.of}
  /\ phase \in {"downloaded", "installing"} => release \in {0, verified}

(* No place a release can be installed from holds a skipped one.           *)
NothingSkippedHeld ==
  /\ release \notin skipped /\ installed \notin skipped
  /\ transfer.of \notin skipped /\ verified \notin skipped

UpdateInv ==
  UpdateTypeOK /\ SkippedWereNormal /\ OffersNewer /\ TransferOfRelease /\ NothingSkippedHeld

---------------------------------------------------------------------------

(* The number of a release is a positive integer.                          *)
LEMMA ReleasesArePositive == \A r \in Releases : r \in Nat /\ r # 0
  BY UpdateAssumption

(* The initial states of the updater satisfy the invariant.                *)
LEMMA UpdateInitially == UpdateInit => UpdateInv
<1> SUFFICES ASSUME UpdateInit PROVE UpdateInv
  OBVIOUS
<1>1. UpdateTypeOK
  BY DEF UpdateInit, UpdateTypeOK, Phases, Reasons, NoCheck, NoTransfer
<1>2. SkippedWereNormal /\ OffersNewer /\ TransferOfRelease /\ NothingSkippedHeld
  BY DEF UpdateInit, SkippedWereNormal, OffersNewer, TransferOfRelease, NothingSkippedHeld,
         NoCheck, NoTransfer
<1> QED BY <1>1, <1>2 DEF UpdateInv

(* The portal's answer changes one check and keeps its type.               *)
Check == [stage : {"none", "asked", "answered"}, autoDownload : BOOLEAN, offered : Releases \cup {0}]

WithOffer(c, offer) == [c EXCEPT !.stage = "answered", !.offered = offer]

(* A check with another offer is a check that offers it.                   *)
LEMMA CheckAmended ==
  ASSUME NEW c \in Check, NEW offer \in Releases \cup {0}
  PROVE  WithOffer(c, offer) \in Check /\ WithOffer(c, offer).offered = offer
  BY DEF Check, WithOffer

(* What is offered and not passed over was never skipped.                  *)
LEMMA OfferNotSkipped ==
  ASSUME SkippedWereNormal, NEW r, ~PassedOver(r)
  PROVE  r \notin skipped
  BY DEF SkippedWereNormal, PassedOver

(* A download of the release that is under way, or of any if none is.      *)
LEMMA DownloadKeeps ==
  ASSUME UpdateInv, NEW r \in Releases, Download(r),
         r \notin skipped, r > installed, transfer # NoTransfer => r = transfer.of,
         checks' \in [Reasons -> [stage : {"none", "asked", "answered"}, autoDownload : BOOLEAN,
                                  offered : Releases \cup {0}]],
         \A reason \in Reasons : checks'[reason].offered # 0 => checks'[reason].offered > installed,
         UNCHANGED <<prefs, skipped, published, installed, verified>>
  PROVE  UpdateInv'
<1> USE ReleasesArePositive DEF UpdateInv
<1>1. UpdateTypeOK'
  <2>1. /\ phase' = "downloading" /\ release' = r /\ UNCHANGED quitHandler
    BY DEF Download
  <2>2. token' \in {"none", "own", "joined"}
    BY DEF UpdateTypeOK, Download
  <2>3. transfer' \in [stage : {"none", "resolving", "running"}, of : Releases \cup {0},
                      joined : BOOLEAN]
    <3>1. CASE transfer' = [stage |-> "resolving", of |-> r, joined |-> FALSE]
      BY <3>1
    <3>2. CASE transfer' = [transfer EXCEPT !.joined = TRUE]
      BY <3>2 DEF UpdateTypeOK
    <3>3. CASE transfer' = transfer
      BY <3>3 DEF UpdateTypeOK
    <3> QED BY <3>1, <3>2, <3>3 DEF Download
  <2> QED BY <2>1, <2>2, <2>3 DEF UpdateTypeOK, Phases
<1>2. SkippedWereNormal'
  BY DEF SkippedWereNormal, canSkipUpdate
<1>3. OffersNewer' /\ TransferOfRelease' /\ NothingSkippedHeld'
  BY DEF Download, UpdateTypeOK, OffersNewer, TransferOfRelease, NothingSkippedHeld, NoTransfer
<1> QED BY <1>1, <1>2, <1>3

(* The portal's answer keeps the updater's invariant.                      *)
LEMMA PortalOffersKeeps ==
  ASSUME UpdateInv, NEW reason \in Reasons, PortalOffers(reason)
  PROVE  UpdateInv'
<1> DEFINE offer == IF published > installed THEN published ELSE 0
<1>1. offer \in Releases \cup {0} /\ (offer # 0 => offer > installed)
  BY DEF UpdateInv, UpdateTypeOK
<1>2. checks' = [checks EXCEPT ![reason] = WithOffer(checks[reason], offer)]
  BY DEF PortalOffers, WithOffer
<1>3. checks \in [Reasons -> Check]
  BY DEF UpdateInv, UpdateTypeOK, Check
<1> HIDE DEF offer
<1>4. /\ WithOffer(checks[reason], offer) \in Check
      /\ WithOffer(checks[reason], offer).offered = offer
  BY <1>1, <1>3, CheckAmended
<1>5. \A why \in Reasons : checks'[why].offered # 0 => checks'[why].offered > installed
  BY <1>1, <1>2, <1>3, <1>4 DEF UpdateInv, OffersNewer
<1>6. checks' \in [Reasons -> Check]
  BY <1>2, <1>3, <1>4
<1> QED
  BY <1>5, <1>6
  DEF PortalOffers, Check, UpdateInv, UpdateTypeOK, SkippedWereNormal, canSkipUpdate, OffersNewer,
      TransferOfRelease, NothingSkippedHeld, NoTransfer

(* Taking in the answer of a check keeps the updater's invariant.          *)
LEMMA CheckAnsweredKeeps ==
  ASSUME UpdateInv, NEW reason \in Reasons, SameRelease(reason), CheckAnswered(reason)
  PROVE  UpdateInv'
<1> DEFINE offered == checks[reason].offered
<1> USE ReleasesArePositive
<1>1. offered \in Releases \cup {0} /\ installed \in Nat /\ (offered # 0 => offered > installed)
  BY DEF UpdateInv, UpdateTypeOK, OffersNewer
<1>2. /\ checks' = [checks EXCEPT ![reason] = NoCheck]
      /\ UNCHANGED <<prefs, skipped, published, installed, verified>>
  BY DEF CheckAnswered
<1>3. /\ checks' \in [Reasons -> [stage : {"none", "asked", "answered"}, autoDownload : BOOLEAN,
                                  offered : Releases \cup {0}]]
      /\ \A why \in Reasons : checks'[why].offered # 0 => checks'[why].offered > installed
  BY <1>2 DEF UpdateInv, UpdateTypeOK, OffersNewer, NoCheck
<1>4. transfer # NoTransfer => offered \in {0, transfer.of}
  BY DEF SameRelease
<1>5. CASE offered = 0
  <2>1. phase' = "idle" /\ release' = 0 /\ UNCHANGED <<transfer, token, quitHandler>>
    BY <1>5 DEF CheckAnswered
  <2> QED BY <1>2, <1>3, <2>1
          DEF UpdateInv, UpdateTypeOK, SkippedWereNormal, canSkipUpdate, OffersNewer,
              TransferOfRelease, NothingSkippedHeld, Phases, NoTransfer
<1>6. CASE offered # 0 /\ PassedOver(offered)
  <2>1. phase' = "idle" /\ UNCHANGED <<release, transfer, token, quitHandler>>
    BY <1>6 DEF CheckAnswered
  <2> QED BY <1>2, <1>3, <2>1
          DEF UpdateInv, UpdateTypeOK, SkippedWereNormal, canSkipUpdate, OffersNewer,
              TransferOfRelease, NothingSkippedHeld, Phases, NoTransfer
<1>7. CASE offered # 0 /\ ~PassedOver(offered)
  <2>1. offered \in Releases /\ offered > installed /\ offered \notin skipped
    BY <1>1, <1>7, OfferNotSkipped DEF UpdateInv
  <2>2. Download(offered) \/ Announce(offered)
    BY <1>7 DEF CheckAnswered
  <2>3. CASE Download(offered)
    BY <1>2, <1>3, <1>4, <2>1, <2>3, DownloadKeeps
  <2>4. CASE Announce(offered)
    BY <1>2, <1>3, <1>4, <2>1, <2>4
    DEF Announce, UpdateInv, UpdateTypeOK, SkippedWereNormal, canSkipUpdate, OffersNewer,
        TransferOfRelease, NothingSkippedHeld, Phases, NoTransfer
  <2> QED BY <2>2, <2>3, <2>4
<1> QED BY <1>5, <1>6, <1>7

---------------------------------------------------------------------------

(* Every step of the updater keeps the invariant.                          *)
LEMMA UpdateInductive == UpdateInv /\ [UpdateNext]_updateVars => UpdateInv'
<1> SUFFICES ASSUME UpdateInv, [UpdateNext]_updateVars PROVE UpdateInv'
  OBVIOUS
<1> USE ReleasesArePositive
<1>1. CASE DownloadNow
  <2>1. release \in Releases /\ release > installed /\ release \notin skipped
    BY <1>1 DEF DownloadNow, UpdateInv, UpdateTypeOK, OffersNewer, NothingSkippedHeld
  <2>2. transfer # NoTransfer => release = transfer.of
    BY <1>1 DEF DownloadNow, UpdateInv, TransferOfRelease
  <2> QED BY <1>1, <2>1, <2>2, DownloadKeeps DEF DownloadNow, UpdateInv, UpdateTypeOK, OffersNewer
<1> USE DEF UpdateInv, UpdateTypeOK, SkippedWereNormal, canSkipUpdate, OffersNewer,
            TransferOfRelease, NothingSkippedHeld, Phases, NoTransfer
<1>2. CASE FeedResolved
  BY <1>2 DEF FeedResolved
<1>3. CASE Downloaded
  BY <1>3 DEF Downloaded
<1>4. CASE DownloadFails
  BY <1>4 DEF DownloadFails
<1>5. CASE SetPreferences
  BY <1>5 DEF SetPreferences
<1>6. CASE InstallUpdate
  BY <1>6 DEF InstallUpdate
<1>7. CASE QuitAndStart
  BY <1>7 DEF QuitAndStart, NoCheck
<1>8. CASE Publish
  BY <1>8 DEF Publish
<1>9. ASSUME NEW reason \in Reasons, AskForUpdate(reason) PROVE UpdateInv'
  BY <1>9 DEF AskForUpdate
<1>10. ASSUME NEW reason \in Reasons, PortalOffers(reason) PROVE UpdateInv'
  BY <1>10, PortalOffersKeeps
<1>11. ASSUME NEW reason \in Reasons, CheckFails(reason) PROVE UpdateInv'
  BY <1>11 DEF CheckFails, NoCheck
<1>12. CASE CancelDownload
  BY <1>12 DEF CancelDownload
<1>13. CASE NoneUnderWay /\ SkipRelease
  BY <1>13 DEF NoneUnderWay, SkipRelease
<1>14. ASSUME NEW reason \in Reasons, SameRelease(reason), CheckAnswered(reason) PROVE UpdateInv'
  BY <1>14, CheckAnsweredKeeps
<1>15. CASE UNCHANGED updateVars
  BY <1>15 DEF updateVars
<1> QED
  BY <1>1, <1>2, <1>3, <1>4, <1>5, <1>6, <1>7, <1>8, <1>9, <1>10, <1>11, <1>12, <1>13, <1>14, <1>15
  DEF UpdateNext, CommonNext

---------------------------------------------------------------------------

(* The inductive invariant of updating.                                    *)
THEOREM UpdateInvariant == UpdateSpec => []UpdateInv
<1>1. UpdateInit => UpdateInv BY UpdateInitially
<1>2. UpdateInv /\ [UpdateNext]_updateVars => UpdateInv' BY UpdateInductive
<1> QED BY <1>1, <1>2, PTL DEF UpdateSpec

(* A skipped release is not offered, brought down or installed again       *)
(* (updates:skip-release, checkForUpdateOnline, before-quit).              *)
THEOREM SkippedAlwaysStaysAway == UpdateSpec => []SkippedStaysAway
<1>1. UpdateInv => SkippedStaysAway
  BY DEF UpdateInv, NothingSkippedHeld, SkippedStaysAway
<1> QED BY UpdateInvariant, <1>1, PTL

(* The shop is only shut for a release whose artifact is there             *)
(* (update-downloaded, shouldBlockForUpdate).                              *)
THEOREM GateAlwaysAfterVerified == UpdateSpec => []GateOnlyAfterVerified
<1>1. UpdateInv => GateOnlyAfterVerified
  BY DEF UpdateInv, TransferOfRelease, GateOnlyAfterVerified, shouldBlockForUpdate
<1> QED BY UpdateInvariant, <1>1, PTL

---------------------------------------------------------------------------
(* Publishing.  An upload carries a snapshot no older than the last one on *)
(* record and than the one the portal shows, and an envelope sealed with   *)
(* the passphrase of today.                                                *)

(* Revisions name the rows; what is published is never ahead of the shop.  *)
UploadCurrent ==
  /\ syncedRevision <= shopRows.revision /\ portal.revision <= shopRows.revision
  /\ sync.stage # "none" =>
       /\ syncedRevision <= sync.snapshot.revision
       /\ portal.revision <= sync.snapshot.revision
       /\ sync.snapshot.revision <= shopRows.revision
       /\ sync.snapshot.revision = shopRows.revision => sync.snapshot = shopRows
  /\ sync.stage \in {"stored", "telling"} => portal = sync.snapshot

EnvelopeCurrent ==
  /\ archiving.stage # "none" => archiving.envelope.seal = passphrase
  /\ archiving.stage = "stored" => archive = archiving.envelope

PortalInv ==
  /\ PortalTypeOK /\ PortalMatchesRecord /\ PhoneNeverAhead /\ ArchiveOpens
  /\ UploadCurrent /\ EnvelopeCurrent

---------------------------------------------------------------------------

(* The initial states of the portal's copies satisfy the invariant.        *)
LEMMA PortalInitially == PortalInit => PortalInv
<1> SUFFICES ASSUME PortalInit PROVE PortalInv
  OBVIOUS
<1> USE PortalAssumption DEF Contents, Secrets, Empty, NoSync, NoEnvelope, NoUpload
<1>1. PortalTypeOK
  BY DEF PortalInit, PortalTypeOK
<1>2. PortalMatchesRecord /\ PhoneNeverAhead /\ ArchiveOpens
  BY DEF PortalInit, PortalMatchesRecord, PhoneNeverAhead, ArchiveOpens
<1>3. UploadCurrent /\ EnvelopeCurrent
  BY DEF PortalInit, UploadCurrent, EnvelopeCurrent
<1> QED BY <1>1, <1>2, <1>3 DEF PortalInv

(* The mirror: what steps of the upload and of the shop keep.              *)
MirrorInv ==
  /\ shopRows \in Contents /\ portal \in Contents /\ phone \in Contents
  /\ sync \in [stage : {"none", "sent", "stored", "telling"}, snapshot : Contents]
  /\ syncedRevision \in Nat
  /\ lastNotified \in [alert : Alerts \cup {Calm}, quiet : BOOLEAN]
  /\ PortalMatchesRecord /\ PhoneNeverAhead /\ UploadCurrent

(* The archive.                                                            *)
SealInv ==
  /\ passphrase \in Secrets /\ archived \in BOOLEAN
  /\ archive \in [revision : Nat, seal : Secrets]
  /\ archiving \in [stage : {"none", "sent", "stored"}, envelope : [revision : Nat, seal : Secrets]]
  /\ ArchiveOpens /\ EnvelopeCurrent

(* A step that leaves the mirrored rows alone keeps what holds of them.    *)
LEMMA MirrorStutters == MirrorInv /\ UNCHANGED <<shopRows, mirrorVars>> => MirrorInv'
  BY DEF MirrorInv, mirrorVars, PortalMatchesRecord, PhoneNeverAhead, UploadCurrent

(* A step that leaves the archive alone keeps what holds of it.            *)
LEMMA SealStutters == SealInv /\ UNCHANGED archiveVars => SealInv'
  BY DEF SealInv, archiveVars, ArchiveOpens, EnvelopeCurrent

(* A save or a step of the snapshot's upload.                              *)
LEMMA MirrorInductive ==
  ASSUME MirrorInv,
         \/ \E alert \in Alerts \cup {Calm} : SaveRows(alert)
         \/ \E force \in BOOLEAN : SyncCommerce(force)
         \/ PortalStores \/ SyncAnswered \/ SyncFails
         \/ \E answered \in BOOLEAN : PhoneWoken(answered)
         \/ NoticeFails \/ QuietPeriodEnds
  PROVE  MirrorInv' /\ UNCHANGED archiveVars
<1> USE DEF MirrorInv, Contents, PortalMatchesRecord, PhoneNeverAhead, UploadCurrent
<1>1. ASSUME NEW alert \in Alerts \cup {Calm}, SaveRows(alert)
      PROVE  MirrorInv' /\ UNCHANGED archiveVars
  BY <1>1 DEF SaveRows, mirrorVars
<1>2. ASSUME NEW force \in BOOLEAN, SyncCommerce(force)
      PROVE  MirrorInv' /\ UNCHANGED archiveVars
  BY <1>2 DEF SyncCommerce
<1>3. CASE PortalStores
  BY <1>3 DEF PortalStores
<1>4. CASE SyncAnswered
  <2>1. CASE ShouldNotify(sync.snapshot.alert)
    BY <1>4, <2>1 DEF SyncAnswered, SyncedAs
  <2>2. CASE ~ShouldNotify(sync.snapshot.alert)
    BY <1>4, <2>2 DEF SyncAnswered, SyncedAs, NoSync, Empty
  <2> QED BY <2>1, <2>2
<1>5. CASE SyncFails
  BY <1>5 DEF SyncFails, NoSync, Empty
<1>6. ASSUME NEW answered \in BOOLEAN, PhoneWoken(answered)
      PROVE  MirrorInv' /\ UNCHANGED archiveVars
  BY <1>6 DEF PhoneWoken, MayTell, NoSync, Empty
<1>7. CASE NoticeFails
  BY <1>7 DEF NoticeFails, NoSync, Empty
<1>8. CASE QuietPeriodEnds
  BY <1>8 DEF QuietPeriodEnds
<1> QED BY <1>1, <1>2, <1>3, <1>4, <1>5, <1>6, <1>7, <1>8

(* A step of the archive's upload, or a new passphrase between uploads.    *)
LEMMA SealInductive ==
  ASSUME SealInv, shopRows.revision \in Nat,
         \/ ArchiveStarts \/ ArchiveStored \/ ArchiveAnswered \/ ArchiveFails
         \/ \E p \in Passphrases : NoArchiveUnderWay /\ SetPassphrase(p)
  PROVE  SealInv' /\ UNCHANGED <<shopRows, mirrorVars>>
<1> USE DEF SealInv, Secrets, ArchiveOpens, EnvelopeCurrent
<1>1. CASE ArchiveStarts
  BY <1>1 DEF ArchiveStarts
<1>2. CASE ArchiveStored
  BY <1>2 DEF ArchiveStored
<1>3. CASE ArchiveAnswered
  BY <1>3 DEF ArchiveAnswered, NoUpload, NoEnvelope
<1>4. CASE ArchiveFails
  BY <1>4 DEF ArchiveFails, NoUpload, NoEnvelope
<1>5. ASSUME NEW p \in Passphrases, NoArchiveUnderWay, SetPassphrase(p)
      PROVE  SealInv' /\ UNCHANGED <<shopRows, mirrorVars>>
  BY <1>5 DEF NoArchiveUnderWay, SetPassphrase, StillArchived, NoUpload, NoEnvelope
<1> QED BY <1>1, <1>2, <1>3, <1>4, <1>5

(* A restart forgets both uploads.                                         *)
LEMMA RestartKeeps == MirrorInv /\ SealInv /\ RestartSync => MirrorInv' /\ SealInv'
<1> SUFFICES ASSUME MirrorInv, SealInv, RestartSync PROVE MirrorInv' /\ SealInv'
  OBVIOUS
<1>1. MirrorInv'
  BY DEF RestartSync, MirrorInv, Contents, PortalMatchesRecord, PhoneNeverAhead, UploadCurrent,
         NoSync, Empty
<1>2. SealInv'
  BY DEF RestartSync, SealInv, Secrets, ArchiveOpens, EnvelopeCurrent, NoUpload, NoEnvelope
<1> QED BY <1>1, <1>2

(* Every step of the portal's copies keeps the invariant.                  *)
LEMMA PortalInductive == PortalInv /\ [PortalNext]_portalVars => PortalInv'
<1> SUFFICES ASSUME MirrorInv, SealInv, [PortalNext]_portalVars PROVE MirrorInv' /\ SealInv'
  BY DEF PortalInv, PortalTypeOK, MirrorInv, SealInv
<1>1. shopRows.revision \in Nat
  BY DEF MirrorInv, Contents
<1>2. CASE UNCHANGED portalVars
  <2>1. UNCHANGED <<shopRows, mirrorVars>> /\ UNCHANGED archiveVars
    BY <1>2 DEF portalVars, mirrorVars, archiveVars
  <2> QED BY <2>1, MirrorStutters, SealStutters
<1>3. CASE RestartSync
  BY <1>3, RestartKeeps
<1>4. CASE PortalNext /\ ~RestartSync
  BY <1>1, <1>4, MirrorInductive, SealInductive, MirrorStutters, SealStutters DEF PortalNext
<1> QED BY <1>2, <1>3, <1>4

---------------------------------------------------------------------------

(* The inductive invariant of publishing.                                  *)
THEOREM PortalInvariant == PortalSpec => []PortalInv
<1>1. PortalInit => PortalInv BY PortalInitially
<1>2. PortalInv /\ [PortalNext]_portalVars => PortalInv' BY PortalInductive
<1> QED BY <1>1, <1>2, PTL DEF PortalSpec

(* An upload is only spared when the portal shows the shop as it is        *)
(* (syncCommerceOnline).                                                   *)
THEOREM RecordAlwaysMatches == PortalSpec => []PortalMatchesRecord
<1>1. PortalInv => PortalMatchesRecord BY DEF PortalInv
<1> QED BY PortalInvariant, <1>1, PTL

(* The phone never tells of rows the portal cannot show                    *)
(* (maybeNotifyMobileDevices).                                             *)
THEOREM PhoneStaysBehind == PortalSpec => []PhoneNeverAhead
<1>1. PortalInv => PhoneNeverAhead BY DEF PortalInv
<1> QED BY PortalInvariant, <1>1, PTL

(* The archive on record opens with the passphrase on record, as long as   *)
(* the passphrase changes between uploads (cloud-archive:set-passphrase).  *)
THEOREM ArchiveAlwaysOpens == PortalSpec => []ArchiveOpens
<1>1. PortalInv => ArchiveOpens BY DEF PortalInv
<1> QED BY PortalInvariant, <1>1, PTL

---------------------------------------------------------------------------
(* Licensed branches.  The list on the screen is the stored list but for   *)
(* the branch whose answer is still on its way, and none of its edits is   *)
(* waiting while there is one: so a flush writes back what is stored.      *)

(* The list and the branch on its way make up what is stored.              *)
ListFollows ==
  /\ created = NoBranch => branchList = storedBranches
  /\ created # NoBranch => storedBranches = branchList \cup {created} /\ ~listUnsaved

LicenceInv == LicenceTypeOK /\ PaidBranchesStand /\ ListFollows

(* What set-batch stores is the old list or part of it.                    *)
LEMMA WrittenIsStored ==
  ASSUME NEW list, Written(list)
  PROVE  \/ storedBranches' = storedBranches
         \/ Acceptable(list) /\ storedBranches' = list /\ list \subseteq storedBranches
  BY DEF Written, Acceptable

(* The initial states of the licence satisfy the invariant.                *)
LEMMA LicenceInitially == LicenceInit => LicenceInv
  BY LicenceAssumption
  DEF LicenceInit, LicenceInv, LicenceTypeOK, PaidBranchesStand, ListFollows, KnownBranches

(* Every step of the licence keeps the invariant.                          *)
LEMMA LicenceInductive == LicenceInv /\ [LicenceNext]_licenceVars => LicenceInv'
<1> SUFFICES ASSUME LicenceInv, [LicenceNext]_licenceVars PROVE LicenceInv'
  OBVIOUS
<1> USE LicenceAssumption
    DEF LicenceInv, LicenceTypeOK, PaidBranchesStand, ListFollows, KnownBranches
<1>1. ASSUME NEW code \in Codes, ActivateSlot(code) PROVE LicenceInv'
  BY <1>1 DEF ActivateSlot
<1>2. ASSUME NEW code \in Codes, NoEditPending, CreateLicensedBranch(code) PROVE LicenceInv'
  BY <1>2 DEF NoEditPending, CreateLicensedBranch
<1>3. CASE BranchAnswered
  BY <1>3 DEF BranchAnswered, WithCreated
<1>4. CASE NoAnswerPending /\ UpdateBranch
  BY <1>4 DEF NoAnswerPending, UpdateBranch
<1>5. CASE FlushBranchList
  <2>1. created = NoBranch /\ branchList = storedBranches
    BY <1>5 DEF FlushBranchList
  <2>2. storedBranches' = storedBranches
    BY <1>5, <2>1, WrittenIsStored DEF FlushBranchList
  <2> QED BY <1>5, <2>1, <2>2 DEF FlushBranchList
<1>6. CASE ExportBranches
  BY <1>6 DEF ExportBranches
<1>7. CASE ReloadBranches
  BY <1>7 DEF ReloadBranches
<1>8. ASSUME NEW file \in {backup, Founding \cup Strangers}, KeepsBranches(file), ImportBranches(file)
      PROVE  LicenceInv'
  <2>1. CASE Acceptable(file)
    <3>1. storedBranches' = file /\ branchList' = file /\ consumed \subseteq file
      BY <1>8, <2>1 DEF KeepsBranches, ImportBranches, Written
    <3>2. file \subseteq storedBranches
      BY <2>1 DEF Acceptable
    <3> QED BY <1>8, <3>1, <3>2 DEF KeepsBranches, ImportBranches
  <2>2. CASE ~Acceptable(file)
    <3>1. storedBranches' = storedBranches /\ branchList' = branchList
      BY <1>8, <2>2 DEF ImportBranches, Written
    <3> QED BY <1>8, <3>1 DEF KeepsBranches, ImportBranches
  <2> QED BY <2>1, <2>2
<1>9. CASE UNCHANGED licenceVars
  BY <1>9 DEF licenceVars
<1> QED
  BY <1>1, <1>2, <1>3, <1>4, <1>5, <1>6, <1>7, <1>8, <1>9 DEF LicenceNext

(* The list on the screen never hides a paid branch from the store         *)
(* (addBranch, the debounced flush and importBackup).                      *)
THEOREM LicenceInvariant == LicenceSpec => []LicenceInv
<1>1. LicenceInit => LicenceInv BY LicenceInitially
<1>2. LicenceInv /\ [LicenceNext]_licenceVars => LicenceInv' BY LicenceInductive
<1> QED BY <1>1, <1>2, PTL DEF LicenceSpec

(* Every code that was used up keeps its branch, and there is no branch    *)
(* that was not paid for, for any number of branches and codes.            *)
THEOREM PaidBranchesAlwaysStand == LicenceSpec => []PaidBranchesStand
<1>1. LicenceInv => PaidBranchesStand BY DEF LicenceInv
<1> QED BY LicenceInvariant, <1>1, PTL

---------------------------------------------------------------------------
(* The parts together                                                      *)

(* One part moves, the others stand still.                                 *)
LEMMA EachPartAlone ==
  [OfficeNext]_officeVars =>
    /\ [Next]_vars /\ [SignInNext]_signInVars /\ [UpdateNext]_updateVars /\ [PortalNext]_portalVars
    /\ [LicenceNext]_licenceVars /\ [CountNext]_countVars /\ [ShiftNext]_shiftVars
    /\ [PieceNext]_pieceVars
BY DEF OfficeNext, officeVars

(* Whatever part is at work, every variable of every part keeps its type.  *)
THEOREM OfficeTypeCorrect == OfficeSpec => []OfficeTypeOK
<1>1. OfficeSpec =>
        /\ Spec /\ SignInSpec /\ UpdateSpec /\ PortalSpec /\ LicenceSpec /\ CountSpec /\ ShiftSpec
        /\ PieceSpec
  <2>1. OfficeInit =>
          /\ Init /\ SignInInit /\ UpdateInit /\ PortalInit /\ LicenceInit /\ CountInit /\ ShiftInit
          /\ PieceInit
    BY DEF OfficeInit
  <2> QED BY <2>1, EachPartAlone, PTL
      DEF OfficeSpec, Spec, SignInSpec, UpdateSpec, PortalSpec, LicenceSpec, CountSpec, ShiftSpec, PieceSpec
<1>2. BranchInv /\ SignInInv /\ UpdateInv /\ PortalInv /\ LicenceInv /\ CountInv /\ ShiftInv /\ PieceInv
        => OfficeTypeOK
  BY DEF BranchInv, SignInInv, UpdateInv, PortalInv, LicenceInv, CountInv, ShiftInv, PieceInv, OfficeTypeOK
<1> QED BY <1>1, <1>2, BranchesAlwaysInv, SignInAlwaysInv, UpdateInvariant, PortalInvariant,
           LicenceInvariant, CountInvariant, ShiftsAlwaysInv, PiecesAlwaysInv, PTL
=============================================================================
