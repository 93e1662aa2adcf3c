----------------------------- MODULE StockCount -----------------------------
(***************************************************************************)
(* Counting the shelf: a draft count remembers what the books said, the    *)
(* page src/src/pages/StocktakeDetailPage.tsx collects what was counted,   *)
(* and applyStocktake in src/src/store/AppContext.tsx books the difference *)
(* while the shop goes on selling.                                         *)
(*                                                                         *)
(* One product, sold in whole units.  A handler queues its updates and     *)
(* reads the stocktakes of the last render; RenderCounts is that render.   *)
(* Whoever counts sees what is on the shelf.                               *)
(***************************************************************************)
EXTENDS Integers

CONSTANTS
  Counts,        \* stocktakes ever started
  Uncounted,     \* countedQty null
  MaxOnShelf,    \* bound: units of the product
  MaxLost        \* bound: units that are ever lost

ASSUME CountAssumption ==
  MaxOnShelf \in Nat \ {0} /\ MaxLost \in Nat /\ Uncounted \notin Counts \cup Int

VARIABLES
  inBooks,       \* the product's quantity
  onShelf,       \* the units that are there
  stocktakes,    \* with the updates queued so far
  stocktakesSeen,\* stocktakes of the last render
  page,          \* the open detail page, its localItems and, as history, the
                 \* units lost before they were counted
  lost,          \* history: units lost so far
  lostBefore,    \* history: those lost before what was saved was counted
  difference     \* history: what the last applied count left between books
                 \* and shelf, were it not for the units lost since

countVars == <<inBooks, onShelf, stocktakes, stocktakesSeen, page, lost, lostBefore, difference>>

Quantity  == 0 .. MaxOnShelf
Stocktake == [status : {"none", "draft", "applied"}, systemQty : Quantity,
              countedQty : Quantity \cup {Uncounted}]
NoCount   == [status |-> "none", systemQty |-> 0, countedQty |-> Uncounted]
NoPage    == [count |-> Uncounted, local |-> Uncounted, lostBefore |-> 0]
Page(c)   == [NoPage EXCEPT !.count = c]

CountInit ==
  /\ inBooks = MaxOnShelf - 1 /\ onShelf = MaxOnShelf - 1
  /\ stocktakes = [c \in Counts |-> NoCount] /\ stocktakesSeen = stocktakes
  /\ page = NoPage /\ difference = 0 /\ lost = 0 /\ lostBefore = [c \in Counts |-> 0]

---------------------------------------------------------------------------

RenderCounts ==
  /\ stocktakesSeen' = stocktakes /\ stocktakesSeen # stocktakes
  /\ UNCHANGED <<inBooks, onShelf, stocktakes, page, lost, lostBefore, difference>>

Rendered == stocktakesSeen = stocktakes

(* A document of the shop: a sale takes units, a receipt brings some.      *)
Trade(qty) ==
  /\ inBooks + qty \in Quantity /\ onShelf + qty \in Quantity
  /\ inBooks' = inBooks + qty /\ onShelf' = onShelf + qty
  /\ UNCHANGED <<stocktakes, stocktakesSeen, page, lost, lostBefore, difference>>

(* A unit is lost or breaks, and no document says so.                      *)
Vanish ==
  /\ onShelf > 0 /\ onShelf' = onShelf - 1
  /\ lost < MaxLost /\ lost' = lost + 1
  /\ UNCHANGED <<inBooks, stocktakes, stocktakesSeen, page, lostBefore, difference>>

(* handleNew, addStocktake; the page of the new count opens.               *)
StartCount(c) ==
  /\ Rendered /\ page = NoPage /\ stocktakes[c].status = "none"
  /\ stocktakes' = [stocktakes EXCEPT ![c] =
       [status |-> "draft", systemQty |-> inBooks, countedQty |-> Uncounted]]
  /\ page' = Page(c)
  /\ UNCHANGED <<inBooks, onShelf, stocktakesSeen, lost, lostBefore, difference>>

OpenPage(c) ==
  /\ page = NoPage /\ stocktakes[c].status = "draft"
  /\ page' = Page(c)
  /\ UNCHANGED <<inBooks, onShelf, stocktakes, stocktakesSeen, lost, lostBefore, difference>>

(* Leaving the page drops what was not saved.                              *)
LeavePage ==
  /\ page # NoPage /\ page' = NoPage
  /\ UNCHANGED <<inBooks, onShelf, stocktakes, stocktakesSeen, lost, lostBefore, difference>>

(* setCountedQty, handleStocktakeScan: the shelf is counted.               *)
CountShelf ==
  /\ page # NoPage /\ stocktakesSeen[page.count].status = "draft"
  /\ page' = [page EXCEPT !.local = onShelf, !.lostBefore = lost]
  /\ UNCHANGED <<inBooks, onShelf, stocktakes, stocktakesSeen, lost, lostBefore, difference>>

(* updateStocktakeItems of what the page holds.                            *)
WithLocal == [stocktakes EXCEPT ![page.count].countedQty = page.local]

(* saveLocalEdits *)
SaveCounted ==
  /\ page # NoPage /\ page.local # Uncounted
  /\ stocktakes' = WithLocal /\ page' = [page EXCEPT !.local = Uncounted]
  /\ lostBefore' = [lostBefore EXCEPT ![page.count] = page.lostBefore]
  /\ UNCHANGED <<inBooks, onShelf, stocktakesSeen, lost, difference>>

AtLeastZero(n) == IF n > 0 THEN n ELSE 0

(* Mutant of Adjusted: the books take over the counted quantity as it is.  *)
AdjustedTo(stk) == IF stk.countedQty = Uncounted THEN inBooks ELSE stk.countedQty

(* adjustStock by what was counted over or under the books of the start.   *)
Adjusted(stk) ==
  IF stk.countedQty = Uncounted THEN inBooks
  ELSE AtLeastZero(inBooks + stk.countedQty - stk.systemQty)

(* The dialog's onConfirm: what the page holds is saved, then              *)
(* applyStocktake works from the stocktakes of the last render.            *)
ConfirmCount ==
  LET stk  == stocktakesSeen[page.count]
      kept == IF page.local # Uncounted THEN WithLocal ELSE stocktakes
      then == IF page.local # Uncounted THEN page.lostBefore ELSE lostBefore[page.count]
  IN  /\ page # NoPage /\ stk.status = "draft"
      /\ inBooks' = Adjusted(stk)
      /\ stocktakes' = [kept EXCEPT ![page.count].status = "applied"]
      /\ difference' = IF kept[page.count].countedQty = Uncounted THEN difference
                       ELSE inBooks' - onShelf - (lost - then)
      /\ page' = [page EXCEPT !.local = Uncounted]
      /\ UNCHANGED <<onShelf, stocktakesSeen, lost, lostBefore>>

(* deleteStocktake; the page closes.                                       *)
DeleteCount ==
  /\ page # NoPage /\ stocktakes[page.count].status # "none" /\ Rendered
  /\ stocktakes' = [stocktakes EXCEPT ![page.count] = NoCount]
  /\ page' = NoPage
  /\ UNCHANGED <<inBooks, onShelf, stocktakesSeen, lost, lostBefore, difference>>

(* The list of counts is saved before it is applied ...                    *)
SavedFirst == page.local = Uncounted

(* ... once, and one count at a time is open ...                           *)
OneOpen(c) == \A d \in Counts \ {c} : stocktakes[d].status # "draft"

(* ... and the shelf is counted while the books stand as at the start.     *)
NothingTraded == page # NoPage => inBooks = stocktakes[page.count].systemQty

ShopAtWork ==
  \/ RenderCounts \/ Vanish \/ LeavePage \/ SaveCounted \/ DeleteCount
  \/ \E qty \in {-1, 1} : Trade(qty)
  \/ \E c \in Counts : OpenPage(c)
  \/ \E c \in Counts : OneOpen(c) /\ StartCount(c)
  \/ NothingTraded /\ CountShelf

CountNext == ShopAtWork \/ (SavedFirst /\ Rendered /\ ConfirmCount)

CountSpec == CountInit /\ [][CountNext]_countVars

(* The dialog is confirmed with counts the page has not saved yet.         *)
UnsavedNext == ShopAtWork \/ (Rendered /\ ConfirmCount)

UnsavedSpec == CountInit /\ [][UnsavedNext]_countVars

---------------------------------------------------------------------------
(* Properties                                                              *)

CountTypeOK ==
  /\ inBooks \in Nat /\ onShelf \in Quantity
  /\ stocktakes \in [Counts -> Stocktake] /\ stocktakesSeen \in [Counts -> Stocktake]
  /\ page \in [count : Counts \cup {Uncounted}, local : Quantity \cup {Uncounted},
              lostBefore : Nat]
  /\ lost \in Nat /\ lostBefore \in [Counts -> Nat] /\ difference \in Int

(* An applied count leaves in the books what was on the shelf when it was  *)
(* counted, less what was sold and plus what was received since (README.md *)
(* on stocktakes: the actual quantities are entered and the differences    *)
(* adopted).                                                               *)
CountAdopted == difference = 0
=============================================================================
