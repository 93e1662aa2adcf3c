----------------------------- MODULE PieceStock -----------------------------
(***************************************************************************)
(* A product that is sold by the carton and by the piece: quantity counts  *)
(* the closed units, looseQuantity the pieces of those opened              *)
(* (src/src/store/_pure.ts, AppContext.tsx), and a row per branch counts   *)
(* units again (AutoPartsProContext.tsx, quotations in fractions of one).  *)
(*                                                                         *)
(* An invoice has a line of whole units and a line of pieces, in that      *)
(* order, either of which may be zero.  Its money and its movements are    *)
(* SalesLedger's; whole units alone at the branches are BranchStock's.     *)
(* Rows are counted in pieces, so that a fraction of a unit is a number.   *)
(***************************************************************************)
EXTENDS Integers, FiniteSets, FiniteSetsExt, Functions

CONSTANTS
  PiecesPerUnit,
  Slips,          \* invoices ever made
  MainUnits,      \* units at the main branch at the start
  SideUnits,      \* units at another branch
  MaxWhole,       \* bound: units on an invoice
  MaxPieces,      \* bound: pieces on an invoice
  MaxCorrection   \* bound: pieces that corrections add or take away in all

ASSUME PieceAssumption ==
  /\ PiecesPerUnit \in Nat \ {0} /\ IsFiniteSet(Slips)
  /\ {MainUnits, SideUnits, MaxWhole, MaxPieces, MaxCorrection} \subseteq Nat

VARIABLES
  box,          \* the product's quantity and looseQuantity
  slip,         \* the invoices, with what was returned of each
  branchRow,    \* branchStocks of the two branches, in pieces
  unsettled,    \* a change is queued that the rows have not followed
  corrected,    \* history: pieces that corrections meant to add
  sideSold,     \* history: pieces the other branch sold
  sideShort     \* history: the main branch could not make up a shortage

pieceVars == <<box, slip, branchRow, unsettled, corrected, sideSold, sideShort>>

Lines    == [whole : 0 .. MaxWhole, pieces : 0 .. MaxPieces]
Nothing  == [whole |-> 0, pieces |-> 0]
Counters == {"main", "side"}

(* quantityAsBaseUnits, productStockAsBaseUnits *)
InPieces(l)   == l.whole * PiecesPerUnit + l.pieces
OnHand(stock) == stock.units * PiecesPerUnit + stock.loose

(* applyPieceAddition *)
AddPieces(stock, n) ==
  [units |-> stock.units + (stock.loose + n) \div PiecesPerUnit,
   loose |-> (stock.loose + n) % PiecesPerUnit]

(* applyPieceDeduction: as many units are opened as it takes.              *)
TakePieces(stock, n) ==
  LET needed == n - stock.loose
      opened == (needed + PiecesPerUnit - 1) \div PiecesPerUnit
  IN IF needed <= 0 THEN [stock EXCEPT !.loose = @ - n]
     ELSE [units |-> Max({0, stock.units - opened}),
           loose |-> opened * PiecesPerUnit - needed]

(* applySalesLinesToProductStock in its two modes.                         *)
PutBack(stock, l) == AddPieces([stock EXCEPT !.units = @ + l.whole], l.pieces)
Deduct(stock, l)  ==
  TakePieces([stock EXCEPT !.units = Max({0, @ - l.whole})], l.pieces)

(* Mutant of Restorable: a cancelled invoice comes back whole.             *)
RestorableAll(l, back) == l

(* cancelSalesInvoice counts what came back by product, units and pieces   *)
(* alike, and nets it off line by line.                                    *)
Restorable(l, back) ==
  LET returned == back.whole + back.pieces
      whole    == Max({0, l.whole - returned})
      left     == returned - (l.whole - whole)
  IN [whole |-> whole, pieces |-> Max({0, l.pieces - left})]

PieceInit ==
  /\ box = [units |-> MainUnits + SideUnits, loose |-> 0]
  /\ slip = [s \in Slips |-> [status |-> "none", deleted |-> FALSE,
                              lines |-> Nothing, back |-> Nothing]]
  /\ branchRow = [main |-> MainUnits * PiecesPerUnit, side |-> SideUnits * PiecesPerUnit]
  /\ unsettled = FALSE /\ corrected = 0 /\ sideSold = 0 /\ sideShort = FALSE

---------------------------------------------------------------------------

OnFile(s) == slip[s].status # "none" /\ ~slip[s].deleted
Open(s)   == slip[s].status = "open" /\ ~slip[s].deleted

(* addSalesInvoice *)
Issue(s, l) ==
  /\ ~unsettled /\ slip[s].status = "none" /\ l # Nothing
  /\ slip' = [slip EXCEPT ![s].status = "open", ![s].lines = l]
  /\ box' = Deduct(box, l)
  /\ unsettled' = TRUE

(* An invoice of the office, which names no branch.                        *)
SellInOffice(s, l) ==
  /\ InPieces(l) <= OnHand(box)
  /\ Issue(s, l)
  /\ UNCHANGED <<branchRow, corrected, sideSold, sideShort>>

Charge(b, n) == branchRow' = [branchRow EXCEPT ![b] = Max({0, @ - n})]

BookSide(b, l) == sideSold' = sideSold + (IF b = "side" THEN InPieces(l) ELSE 0)

(* The point of sale passes the lines' quantities on as they are: a row    *)
(* loses a unit for every piece.                                           *)
CounterCharge(l) == (l.whole + l.pieces) * PiecesPerUnit

(* On the ordinary day another branch than the main one, to which the      *)
(* reconciler gives what was taken too much, sells whole units.            *)
PiecesFromMain(b, l) == b = "side" => l.pieces = 0

(* A point-of-sale invoice of a branch, and consumeBranchStock.            *)
SellAtCounter(s, b, l) ==
  /\ InPieces(l) <= branchRow[b] /\ PiecesFromMain(b, l)
  /\ Issue(s, l)
  /\ Charge(b, CounterCharge(l)) /\ BookSide(b, l)
  /\ UNCHANGED <<corrected, sideShort>>

(* Mutant of QuoteCharge: pieces taken for units, as the counter does.     *)
QuoteChargeUndivided(l) == CounterCharge(l)

(* The quotation page divides the pieces by piecesPerUnit.                 *)
QuoteCharge(l) == InPieces(l)

(* A quotation of a branch becomes an invoice: convertQuotation checks the *)
(* product, the page the branch, and then charges it.                      *)
ConvertQuotation(s, b, l) ==
  /\ InPieces(l) <= OnHand(box) /\ InPieces(l) <= branchRow[b]
  /\ Issue(s, l)
  /\ Charge(b, QuoteCharge(l)) /\ BookSide(b, l)
  /\ UNCHANGED <<corrected, sideShort>>

(* The ordinary edit leaves on the invoice what was returned of it.        *)
LeavesReturned(s, l) ==
  l.whole >= slip[s].back.whole /\ l.pieces >= slip[s].back.pieces

(* updateSalesInvoice: the old lines go back and the new ones come off.    *)
EditSlip(s, l) ==
  /\ ~unsettled /\ Open(s) /\ l # Nothing /\ LeavesReturned(s, l)
  /\ InPieces(l) <= OnHand(box) + InPieces(slip[s].lines)
  /\ box' = Deduct(PutBack(box, slip[s].lines), l)
  /\ slip' = [slip EXCEPT ![s].lines = l]
  /\ unsettled' = TRUE
  /\ UNCHANGED <<branchRow, corrected, sideSold, sideShort>>

(* addSalesReturn; the dialog offers what is left of each line.            *)
ReturnGoods(s, l) ==
  /\ ~unsettled /\ Open(s) /\ l # Nothing
  /\ l.whole <= slip[s].lines.whole - slip[s].back.whole
  /\ l.pieces <= slip[s].lines.pieces - slip[s].back.pieces
  /\ box' = PutBack(box, l)
  /\ slip' = [slip EXCEPT ![s].back = [whole |-> @.whole + l.whole, pieces |-> @.pieces + l.pieces]]
  /\ unsettled' = TRUE
  /\ UNCHANGED <<branchRow, corrected, sideSold, sideShort>>

(* On the ordinary day no pieces came back of an invoice that has units    *)
(* still out: the netting would take the pieces for units.                 *)
NetsLikeWithLike(s) ==
  slip[s].back.pieces > 0 => slip[s].back.whole = slip[s].lines.whole

(* cancelSalesInvoice *)
CancelSlip(s) ==
  /\ ~unsettled /\ Open(s) /\ NetsLikeWithLike(s)
  /\ box' = PutBack(box, Restorable(slip[s].lines, slip[s].back))
  /\ slip' = [slip EXCEPT ![s].status = "cancelled"]
  /\ unsettled' = TRUE
  /\ UNCHANGED <<branchRow, corrected, sideSold, sideShort>>

(* deleteSalesInvoice *)
DeleteSlip(s) ==
  /\ ~unsettled /\ OnFile(s) /\ slip[s].back = Nothing
  /\ box' = IF Open(s) THEN PutBack(box, slip[s].lines) ELSE box
  /\ slip' = [slip EXCEPT ![s].deleted = TRUE]
  /\ unsettled' = TRUE
  /\ UNCHANGED <<branchRow, corrected, sideSold, sideShort>>

(* On the ordinary day what an invoice sold is still there to be restored. *)
StillThere(s) == slip[s].status = "open" => InPieces(slip[s].lines) <= OnHand(box)

(* restoreDeletedInvoice *)
RestoreSlip(s) ==
  /\ ~unsettled /\ slip[s].deleted /\ StillThere(s)
  /\ box' = IF slip[s].status = "open" THEN Deduct(box, slip[s].lines) ELSE box
  /\ slip' = [slip EXCEPT ![s].deleted = FALSE]
  /\ unsettled' = TRUE
  /\ UNCHANGED <<branchRow, corrected, sideSold, sideShort>>

(* The ordinary correction takes no more units than there are, and no more *)
(* loose pieces: no unit is opened for them.                               *)
CorrectionFits(delta, looseDelta) ==
  box.units + delta >= 0 /\ box.loose + looseDelta >= 0

(* adjustStock, for the inventory page, a stocktake or a warranty claim.   *)
CorrectStock(delta, looseDelta) ==
  /\ ~unsettled /\ CorrectionFits(delta, looseDelta)
  /\ corrected' = corrected + delta * PiecesPerUnit + looseDelta
  /\ corrected' \in -MaxCorrection .. MaxCorrection
  /\ box' = AddPieces([units |-> Max({0, box.units + delta}),
                       loose |-> Max({0, box.loose + looseDelta})], 0)
  /\ unsettled' = TRUE
  /\ UNCHANGED <<slip, branchRow, sideSold, sideShort>>

(* reconcileBranchStocks after the render: the main branch gets a surplus  *)
(* and bears a shortage, the other branch what is left of it.              *)
SettleRows ==
  LET missing == branchRow.main + branchRow.side - box.units * PiecesPerUnit
  IN /\ unsettled /\ unsettled' = FALSE
     /\ branchRow' = [main |-> Max({0, branchRow.main - missing}),
                      side |-> branchRow.side - Max({0, missing - branchRow.main})]
     /\ sideShort' = (sideShort \/ missing > branchRow.main)
     /\ UNCHANGED <<box, slip, corrected, sideSold>>

PieceNext ==
  \/ SettleRows
  \/ \E s \in Slips : CancelSlip(s) \/ DeleteSlip(s) \/ RestoreSlip(s)
  \/ \E s \in Slips, l \in Lines : SellInOffice(s, l) \/ EditSlip(s, l) \/ ReturnGoods(s, l)
  \/ \E s \in Slips, b \in Counters, l \in Lines : SellAtCounter(s, b, l) \/ ConvertQuotation(s, b, l)
  \/ \E delta \in -1 .. 1, looseDelta \in -MaxCorrection .. MaxCorrection :
       CorrectStock(delta, looseDelta)

PieceSpec == PieceInit /\ [][PieceNext]_pieceVars

---------------------------------------------------------------------------
(* Properties                                                              *)

(* Fewer pieces are loose than make a unit, and no row is negative.        *)
PieceTypeOK ==
  /\ box \in [units : Nat, loose : 0 .. PiecesPerUnit - 1]
  /\ slip \in [Slips -> [status : {"none", "open", "cancelled"}, deleted : BOOLEAN,
                         lines : Lines, back : Lines]]
  /\ branchRow \in [Counters -> Nat] /\ unsettled \in BOOLEAN
  /\ corrected \in Int /\ sideSold \in Nat /\ sideShort \in BOOLEAN

StillOut ==
  [s \in Slips |-> IF Open(s) THEN InPieces(slip[s].lines) - InPieces(slip[s].back) ELSE 0]

(* However units are opened, and sold, edited, returned, cancelled,        *)
(* deleted and restored by the unit and by the piece, the shop holds the   *)
(* pieces that corrections say it has, less those the invoices still have  *)
(* out ("Only the units that have NOT already come back are restored",     *)
(* AppContext.tsx:2265).                                                   *)
PiecesExplained ==
  OnHand(box) = (MainUnits + SideUnits) * PiecesPerUnit + corrected
                - SumFunctionOnSet(StillOut, Slips)

(* A branch other than the main one loses the pieces it sold and no more,  *)
(* unless units went missing that the main branch could not make up.       *)
SideKeepsItsPieces ==
  sideShort \/ branchRow.side = SideUnits * PiecesPerUnit - sideSold
=============================================================================
