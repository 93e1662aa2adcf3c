---------------------------- MODULE SalesLedger ----------------------------
(***************************************************************************)
(* Sales invoices, their returns, the shelf, the stock ledger and the cash *)
(* drawer: the sales handlers of src/src/store/AppContext.tsx with the     *)
(* arithmetic of src/src/store/_pure.ts.                                   *)
(*                                                                         *)
(* One product is sold at one price, without discount or shipping fee, so  *)
(* an invoice is a quantity.  Invoices are numbered in date order.  Stock  *)
(* movements and cash entries are kept as their sums per invoice number    *)
(* (referenceId); those of an invoice's returns have sums of their own,    *)
(* because deleting an invoice does not touch them.                        *)
(***************************************************************************)
EXTENDS CreditPool

CONSTANTS
  Customers,
  Price,        \* price of one unit
  Opening,      \* units on the shelf at the start
  MaxInvoices,  \* bound: invoices ever issued
  MaxQty        \* bounds: units on each invoice, and their price handed over at once

ASSUME SalesAssumption ==
  /\ Price \in Nat \ {0} /\ Opening \in Nat
  /\ MaxInvoices \in Nat /\ MaxQty \in [1 .. MaxInvoices -> Nat]

VARIABLES
  issued,       \* number of the last invoice issued
  invoices,     \* salesInvoices: the invoices on file, by number
  returned,     \* salesReturns: units returned, per original invoice
  refunds,      \* cash entries of those returns, per original invoice
  shelf,        \* quantity of the product
  movements,    \* stock movements, summed per invoice
  drawer,       \* cash entries, summed per invoice
  snapshots,    \* audit-log snapshots of deleted invoices, by number
  transferred   \* history: credit moved onto an invoice, less credit taken off

vars == <<issued, invoices, returned, refunds, shelf, movements, drawer,
          snapshots, transferred>>

Numbers == 1 .. MaxInvoices
OnFile  == DOMAIN invoices

Invoice ==
  [customer : Customers, cod : BOOLEAN, qty : Nat, received : Nat, over : Nat,
   remaining : Nat, status : Status, cancelled : BOOLEAN]

Total(inv)     == inv.qty * Price
Collected(inv) == inv.received + inv.over

(* Mutant of NetTotal: the returned amount is owed again.                  *)
GrossTotal(qty, back) == qty * Price

(* What an invoice is worth once its returns are taken off.                *)
NetTotal(qty, back) == Pos(qty * Price - back * Price)

(* The split of money collected over what is owed, as an edit and a return *)
(* both compute it: received up to the total owed, the rest is credit.     *)
Resplit(inv, owed, money) ==
  [inv EXCEPT !.received  = Lesser(money, owed),
              !.over      = Pos(money - owed),
              !.remaining = Pos(owed - Lesser(money, owed)),
              !.status    = ComputeStatus(owed, Lesser(money, owed))]

Init ==
  /\ issued = 0
  /\ invoices = <<>> /\ snapshots = <<>>
  /\ returned = [n \in Numbers |-> 0] /\ refunds = [n \in Numbers |-> 0]
  /\ movements = [n \in Numbers |-> 0] /\ drawer = [n \in Numbers |-> 0]
  /\ transferred = [n \in Numbers |-> 0]
  /\ shelf = Opening

---------------------------------------------------------------------------
(* Customer credit                                                         *)

Of(invs, c) == {n \in DOMAIN invs : invs[n].customer = c}

Creditors(invs, c) == {n \in Of(invs, c) : invs[n].over > 0}

(* customerMoney.balance: debt less credit, over the customer's invoices   *)
(* that are neither cancelled nor collected by a carrier.                  *)
Balance(c) ==
  LET counted == {n \in Of(invoices, c) : ~invoices[n].cancelled /\ ~invoices[n].cod}
  IN  SumFunctionOnSet([n \in counted |-> invoices[n].remaining - invoices[n].over],
                       counted)

(* A target that receives credit is recomputed from its full total.        *)
Transfer(invs, gain, loss) ==
  [n \in DOMAIN invs |->
     LET inv   == [invs[n] EXCEPT !.over = @ - loss[n]]
         total == Total(inv)
         paid  == inv.received + gain[n]
     IN  IF gain[n] = 0 THEN inv
         ELSE [inv EXCEPT !.received  = paid,
                          !.remaining = Pos(total - paid),
                          !.status    = ComputeStatus(total, paid)]]

Moved(gain, loss) ==
  [n \in Numbers |->
     transferred[n] + (IF n \in DOMAIN gain THEN gain[n] - loss[n] ELSE 0)]

---------------------------------------------------------------------------
(* Sales                                                                   *)

(* addSalesInvoice, and applyCustomerCredit when the cashier ticks "use    *)
(* credit": the screens sell no more than the shelf holds and offer no     *)
(* more credit than the customer's balance leaves.                         *)
Sell(c, qty, paid, cod, useCredit) ==
  LET n     == issued + 1
      total == qty * Price
      cash  == IF cod THEN 0 ELSE paid
      inv   == [customer |-> c, cod |-> cod, qty |-> qty,
                received |-> Lesser(cash, total), over |-> Pos(cash - total),
                remaining |-> Pos(total - Lesser(cash, total)),
                status |-> ComputeStatus(total, Lesser(cash, total)),
                cancelled |-> FALSE]
      offer == IF useCredit THEN Lesser(Pos(-Balance(c)), total) ELSE 0
      invs  == [m \in OnFile \cup {n} |-> IF m = n THEN inv ELSE invoices[m]]
      sources == Creditors(invs, c) \ {n}
      amount  == IF sources = {} THEN 0 ELSE Lesser(offer, inv.remaining)
      gain == [m \in DOMAIN invs |-> IF m = n THEN amount ELSE 0]
      loss == Spent(invs, sources, amount)
  IN  /\ n \in Numbers /\ qty <= shelf
      /\ issued' = n
      /\ invoices' = Transfer(invs, gain, loss)
      /\ transferred' = Moved(gain, loss)
      /\ shelf' = Pos(shelf - qty)
      /\ movements' = [movements EXCEPT ![n] = -qty]
      /\ drawer' = [drawer EXCEPT ![n] = cash]
      /\ UNCHANGED <<returned, refunds, snapshots>>

(* recordSalesReceipt, offered while an invoice on file is owed: what is   *)
(* paid beyond the remaining balance becomes credit.                       *)
Receive(n, amount) ==
  LET inv  == invoices[n]
      used == Lesser(amount, inv.remaining)
      left == Pos(inv.remaining - used)
  IN  /\ ~inv.cancelled /\ inv.remaining > 0 /\ amount > 0
      /\ invoices' = [invoices EXCEPT ![n] =
           [inv EXCEPT !.received = @ + used, !.over = @ + amount - used,
                       !.remaining = left,
                       !.status = IF left <= 0 THEN "paid" ELSE "partial"]]
      /\ drawer' = [drawer EXCEPT ![n] = @ + amount]
      /\ UNCHANGED <<issued, returned, refunds, shelf, movements, snapshots,
                     transferred>>

(* updateSalesInvoice with another quantity: the money already collected   *)
(* is carried over and split again, the invoice's movements are replaced.  *)
Edit(n, qty) ==
  LET inv    == invoices[n]
      edited == Resplit([inv EXCEPT !.qty = qty], NetTotal(qty, returned[n]),
                        Collected(inv))
  IN  /\ ~inv.cancelled /\ qty <= shelf + inv.qty
      /\ invoices' = [invoices EXCEPT ![n] = edited]
      /\ drawer' = [drawer EXCEPT ![n] = @ + Collected(edited) - Collected(inv)]
      /\ shelf' = Pos(shelf + inv.qty - qty)
      /\ movements' = [movements EXCEPT ![n] = -qty]
      /\ UNCHANGED <<issued, returned, refunds, snapshots, transferred>>

(* Mutant of Restorable: the defect test TC-MSD-001 pins.                  *)
RestorableInFull(n) == invoices[n].qty

(* Units a cancellation puts back: those no return has put back already.   *)
Restorable(n) == Pos(invoices[n].qty - returned[n])

(* Mutant of Voided: a cash refund leaves the overpayment on the invoice.  *)
VoidedKeepingCredit(inv, mode) ==
  IF mode = "none" THEN [inv EXCEPT !.cancelled = TRUE]
  ELSE [inv EXCEPT !.cancelled = TRUE, !.received = 0]

Voided(inv, mode) ==
  LET void == [inv EXCEPT !.cancelled = TRUE]
  IN  IF mode = "none" THEN void
      ELSE [void EXCEPT !.received = 0,
                        !.over = IF mode = "cash" THEN 0 ELSE Collected(inv)]

(* cancelSalesInvoice: the screen asks "cash" or "credit" exactly when     *)
(* something was collected.                                                *)
Cancel(n, mode) ==
  LET inv == invoices[n]
  IN  /\ ~inv.cancelled /\ (mode = "none" <=> Collected(inv) = 0)
      /\ invoices' = [invoices EXCEPT ![n] = Voided(inv, mode)]
      /\ drawer' = [drawer EXCEPT ![n] = IF mode = "cash" THEN @ - Collected(inv) ELSE @]
      /\ shelf' = shelf + Restorable(n)
      /\ movements' = [movements EXCEPT ![n] = @ + Restorable(n)]
      /\ UNCHANGED <<issued, returned, refunds, snapshots, transferred>>

(* Mutant of Sold: a cancelled invoice still counts.                       *)
SoldEvenIfCancelled(inv) == inv.qty

(* Units an invoice holds off the shelf.                                   *)
Sold(inv) == IF inv.cancelled THEN 0 ELSE inv.qty

(* deleteSalesInvoice, refused once the invoice has a return: stock goes   *)
(* back, movements and cash entries go, and an undo snapshot is kept.      *)
Delete(n) ==
  /\ returned[n] = 0
  /\ invoices' = Restrict(invoices, OnFile \ {n})
  /\ snapshots' = [m \in DOMAIN snapshots \cup {n} |->
       IF m = n THEN [invoice |-> invoices[n], movements |-> movements[n],
                      drawer |-> drawer[n]]
       ELSE snapshots[m]]
  /\ shelf' = shelf + Sold(invoices[n])
  /\ movements' = [movements EXCEPT ![n] = 0]
  /\ drawer' = [drawer EXCEPT ![n] = 0]
  /\ UNCHANGED <<issued, returned, refunds, transferred>>

(* restoreDeletedInvoice: the snapshot is put back and consumed.           *)
Restore(n) ==
  LET snap == snapshots[n]
  IN  /\ n \notin OnFile
      /\ invoices' = [m \in OnFile \cup {n} |->
                        IF m = n THEN snap.invoice ELSE invoices[m]]
      /\ snapshots' = Restrict(snapshots, DOMAIN snapshots \ {n})
      /\ shelf' = Pos(shelf - Sold(snap.invoice))
      /\ movements' = [movements EXCEPT ![n] = @ + snap.movements]
      /\ drawer' = [drawer EXCEPT ![n] = @ + snap.drawer]
      /\ UNCHANGED <<issued, returned, refunds, transferred>>

(* SalesReturnDialog refunds no more cash than the invoice collected.      *)
MayRefund(inv, amount) == amount <= Collected(inv)

(* addSalesReturn: the cash entry is the whole amount of the return, the   *)
(* invoice gives up at most what it collected.                             *)
Return(n, qty, refund) ==
  LET inv    == invoices[n]
      amount == qty * Price
      kept   == Collected(inv) - (IF refund THEN Lesser(amount, Collected(inv)) ELSE 0)
      back   == returned[n] + qty
  IN  /\ ~inv.cancelled /\ qty > 0
      /\ amount <= Total(inv) - returned[n] * Price
      /\ refund => MayRefund(inv, amount)
      /\ invoices' = [invoices EXCEPT ![n] = Resplit(inv, NetTotal(inv.qty, back), kept)]
      /\ returned' = [returned EXCEPT ![n] = back]
      /\ refunds' = [refunds EXCEPT ![n] = IF refund THEN @ - amount ELSE @]
      /\ shelf' = shelf + qty
      /\ UNCHANGED <<issued, movements, drawer, snapshots, transferred>>

Targets(c) == {n \in Of(invoices, c) : ~invoices[n].cancelled /\ invoices[n].remaining > 0}

(* settleAllDues: all the customer's credit pays all the customer's open   *)
(* invoices.                                                               *)
SettleAllDues(c) ==
  LET sources == Creditors(invoices, c)
      pool    == SumFunctionOnSet(Credit(invoices), sources)
      gain    == Applied(invoices, Targets(c), pool)
      loss    == Spent(invoices, sources, SumFunctionOnSet(gain, Targets(c)))
  IN  /\ Targets(c) # {} /\ sources # {}
      /\ invoices' = Transfer(invoices, gain, loss)
      /\ transferred' = Moved(gain, loss)
      /\ UNCHANGED <<issued, returned, refunds, shelf, movements, drawer, snapshots>>

---------------------------------------------------------------------------
(* Next-state relations.  Four calls the screens allow break a property    *)
(* each, so the ordinary day leaves them out: editing an invoice below     *)
(* what was returned, restoring one whose units were sold again, and       *)
(* settling dues that include one a carrier collects or (which the         *)
(* settling day adds back) one that was partly returned.                   *)

EditKeepsReturns(n, qty) == qty >= returned[n]
RestoreFits(n) == Sold(snapshots[n].invoice) <= shelf
SettlesPlainly(c) == \A n \in Targets(c) : returned[n] = 0 /\ ~invoices[n].cod

Quantities(n) == 1 .. MaxQty[n]
Payments(n) == 0 .. MaxQty[n] * Price

SellAny ==
  /\ issued < MaxInvoices
  /\ \E c \in Customers, qty \in Quantities(issued + 1), useCredit \in BOOLEAN :
       \/ \E paid \in Payments(issued + 1) : Sell(c, qty, paid, FALSE, useCredit)
       \/ Sell(c, qty, 0, TRUE, useCredit)
ReceiveAny == \E n \in OnFile : \E amount \in Payments(n) : Receive(n, amount)
EditAny    == \E n \in OnFile : \E qty \in Quantities(n) : EditKeepsReturns(n, qty) /\ Edit(n, qty)
CancelAny  == \E n \in OnFile, mode \in {"none", "cash", "credit"} : Cancel(n, mode)
DeleteAny  == \E n \in OnFile : Delete(n)
RestoreAny == \E n \in DOMAIN snapshots : RestoreFits(n) /\ Restore(n)
ReturnAny  == \E n \in OnFile : \E qty \in Quantities(n), refund \in BOOLEAN : Return(n, qty, refund)
SettleAny  == \E c \in Customers : SettlesPlainly(c) /\ SettleAllDues(c)

Next ==
  \/ SellAny \/ ReceiveAny \/ EditAny \/ CancelAny
  \/ DeleteAny \/ RestoreAny \/ ReturnAny \/ SettleAny

SettleAfterReturn == \E c \in Customers :
  (\A n \in Targets(c) : ~invoices[n].cod) /\ SettleAllDues(c)

Spec         == Init /\ [][Next]_vars
SettlingSpec == Init /\ [][Next \/ SettleAfterReturn]_vars

---------------------------------------------------------------------------
(* Properties                                                              *)

(* Types; an undo snapshot is only kept of an invoice that is off file.    *)
TypeOK ==
  /\ issued \in 0 .. MaxInvoices /\ shelf \in Nat
  /\ OnFile \subseteq 1 .. issued /\ DOMAIN snapshots \subseteq 1 .. issued
  /\ OnFile \cap DOMAIN snapshots = {}
  /\ \A n \in OnFile : invoices[n] \in Invoice
  /\ \A n \in DOMAIN snapshots : snapshots[n].invoice \in Invoice

(* The drawer explains every invoice, whatever was paid, edited, returned, *)
(* cancelled, deleted or restored: what an invoice says it collected is    *)
(* what its cash entries and its returns' refunds come to, plus the credit *)
(* moved onto it (amountReceived, overpayment and cashEntries).            *)
MoneyAccounted ==
  /\ \A n \in OnFile :
       Collected(invoices[n]) = drawer[n] + refunds[n] + transferred[n]
  /\ \A n \in DOMAIN snapshots :
       Collected(snapshots[n].invoice) = snapshots[n].drawer + transferred[n]

(* Using or settling credit neither makes nor loses money, and never pays  *)
(* one customer's invoice with another's credit (applyCustomerCredit,      *)
(* settleAllDues).                                                         *)
CreditConserved ==
  \A c \in Customers :
    SumFunctionOnSet(transferred, {n \in OnFile : invoices[n].customer = c})
      + SumFunctionOnSet(transferred, {n \in DOMAIN snapshots : snapshots[n].invoice.customer = c})
    = 0

(* The stock ledger explains the shelf: the product page and the inventory *)
(* report show the same number.                                            *)
StockExplained ==
  shelf = Opening + SumFunctionOnSet(movements, Numbers) + SumFunctionOnSet(returned, Numbers)

Outstanding ==
  [n \in OnFile |-> IF invoices[n].cancelled THEN 0 ELSE invoices[n].qty - returned[n]]

(* No unit comes back twice, through a return, a cancellation, an edit or  *)
(* a deletion: the shelf and the units with customers are the opening      *)
(* stock.                                                                  *)
NoUnitTwice ==
  /\ shelf <= Opening
  /\ shelf + SumFunctionOnSet(Outstanding, OnFile) = Opening

(* A return takes its amount off what is owed exactly once, whatever is    *)
(* paid, edited or settled afterwards, and an invoice is marked paid       *)
(* exactly when nothing is owed.                                           *)
OwedOnce ==
  \A n \in OnFile :
    LET inv == invoices[n]
    IN  ~inv.cancelled =>
          /\ inv.remaining = Pos((inv.qty - returned[n]) * Price - inv.received)
          /\ inv.status = "paid" <=> inv.remaining = 0

(* Settling a customer's dues may only ever reduce what the customer owes. *)
SettlingOnlyReduces ==
  [][\A c \in Customers : SettleAllDues(c) => Balance(c)' <= Balance(c)]_vars
============================================================================
