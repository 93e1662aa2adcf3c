--------------------------- MODULE PurchaseLedger ---------------------------
(***************************************************************************)
(* Purchase invoices, their returns, the shelf and its weighted-average    *)
(* cost, the stock ledger and the cash drawer: the purchase handlers of    *)
(* src/src/store/AppContext.tsx with the arithmetic of                     *)
(* src/src/store/_pure.ts.                                                 *)
(*                                                                         *)
(* One product is bought, each invoice at its own price.  Invoices are     *)
(* numbered in date order.  As in SalesLedger, movements and cash entries  *)
(* are their sums per invoice; the movements of an invoice's returns carry *)
(* the return's number, so nothing the invoice does later touches them.    *)
(* An average cost is a fraction in lowest terms.                          *)
(***************************************************************************)
EXTENDS CreditPool, FiniteSetsExt

CONSTANTS
  Suppliers,
  Prices,       \* prices an invoice may be written at
  OpeningUnits, \* units on the shelf at the start
  OpeningCost,  \* purchase price they were entered at
  MaxPurchases, \* bound: invoices ever issued
  MaxBought,    \* bound: units on one invoice
  MaxSold       \* bound: units ever sold

ASSUME PurchaseAssumption ==
  /\ Prices \subseteq Nat \ {0} /\ OpeningCost \in Nat \ {0}
  /\ {OpeningUnits, MaxPurchases, MaxBought, MaxSold} \subseteq Nat

VARIABLES
  numbered,       \* number of the last invoice issued
  purchases,      \* purchaseInvoices on file, by number
  sentBack,       \* purchaseReturns: units returned, per original invoice
  quantity,       \* quantity of the product
  avgCost,        \* its average cost
  stockMovements, \* summed per invoice
  cashEntries,    \* summed per invoice
  undoable,       \* audit-log snapshots of deleted invoices, by number
  sold,           \* units sold, all movements of sales
  costOfSales,    \* history: average cost at the sale, summed over units sold
  creditMoved     \* history: credit put on an invoice, less credit taken off

purchaseVars ==
  <<numbered, purchases, sentBack, quantity, avgCost, stockMovements,
    cashEntries, undoable, sold, costOfSales, creditMoved>>

PurchaseNumbers == 1 .. MaxPurchases
PurchasesOnFile == DOMAIN purchases

Purchase ==
  [supplier : Suppliers, qty : Nat, price : Prices, paid : Nat, over : Nat,
   remaining : Nat, status : Status]

Cost(inv) == inv.qty * inv.price
Spending(inv) == inv.paid + inv.over

---------------------------------------------------------------------------
(* Fractions                                                               *)

Fraction(num, den) ==
  LET common == Max({k \in 1 .. den : num % k = 0 /\ den % k = 0})
  IN  [num |-> num \div common, den |-> den \div common]

Plus(f, g) == Fraction(f.num * g.den + g.num * f.den, f.den * g.den)
Times(n, f) == Fraction(n * f.num, f.den)

---------------------------------------------------------------------------
(* Stock and cost                                                          *)

(* Mutant of AverageCost: an addition is spread over the units that were   *)
(* there before it.                                                        *)
AverageCostBefore(qty, cost, remove, add) ==
  LET after == Pos(qty - remove.qty)
      value == Pos(qty * cost.num - remove.value * cost.den)
                 + add.value * cost.den
  IN  IF after > 0 THEN Fraction(value, cost.den * after) ELSE cost

(* applyWeightedAverageCostDelta: value and units taken off, each stopped  *)
(* at zero, then value and units added; the last cost is kept at no stock. *)
AverageCost(qty, cost, remove, add) ==
  LET after == Pos(qty - remove.qty) + add.qty
      value == Pos(qty * cost.num - remove.value * cost.den)
                 + add.value * cost.den
  IN  IF after > 0 THEN Fraction(value, cost.den * after) ELSE cost

Batch(qty, price) == [qty |-> qty, value |-> qty * price]
Nothing == Batch(0, 0)

(* What every handler does to the product. *)
Restock(remove, add) ==
  /\ quantity' = Pos(quantity - remove.qty + add.qty)
  /\ avgCost' = AverageCost(quantity, avgCost, remove, add)

(* The split of the money spent over what is owed, as an edit and a return *)
(* both compute it.                                                        *)
SplitSpending(inv) ==
  LET money == Spending(inv)
      owed  == Cost(inv)
  IN  [inv EXCEPT !.paid      = Lesser(money, owed),
                  !.over      = Pos(money - owed),
                  !.remaining = Pos(owed - Lesser(money, owed)),
                  !.status    = ComputeStatus(owed, Lesser(money, owed))]

PurchaseInit ==
  /\ numbered = 0 /\ purchases = <<>> /\ undoable = <<>>
  /\ sentBack = [n \in PurchaseNumbers |-> 0]
  /\ stockMovements = [n \in PurchaseNumbers |-> 0]
  /\ cashEntries = [n \in PurchaseNumbers |-> 0]
  /\ creditMoved = [n \in PurchaseNumbers |-> 0]
  /\ quantity = OpeningUnits /\ avgCost = Fraction(OpeningCost, 1)
  /\ sold = 0 /\ costOfSales = Fraction(0, 1)

---------------------------------------------------------------------------
(* Handlers                                                                *)

(* addPurchaseInvoice; the screen takes at most the total. *)
Buy(s, qty, price, paid) ==
  LET n   == numbered + 1
      inv == [supplier |-> s, qty |-> qty, price |-> price, paid |-> paid,
              over |-> 0, remaining |-> qty * price - paid,
              status |-> ComputeStatus(qty * price, paid)]
  IN  /\ n \in PurchaseNumbers /\ paid <= qty * price
      /\ numbered' = n
      /\ purchases' = [m \in PurchasesOnFile \cup {n} |->
                        IF m = n THEN inv ELSE purchases[m]]
      /\ Restock(Nothing, Batch(qty, price))
      /\ stockMovements' = [stockMovements EXCEPT ![n] = qty]
      /\ cashEntries' = [cashEntries EXCEPT ![n] = -paid]
      /\ UNCHANGED <<sentBack, undoable, sold, costOfSales, creditMoved>>

(* recordPurchasePayment; the screen takes at most what remains. *)
Pay(n, amount) ==
  LET inv  == purchases[n]
      paid == inv.paid + amount
  IN  /\ amount > 0 /\ amount <= inv.remaining
      /\ purchases' = [purchases EXCEPT ![n] =
           [inv EXCEPT !.paid = paid, !.remaining = Pos(Cost(inv) - paid),
                       !.status = ComputeStatus(Cost(inv), paid)]]
      /\ cashEntries' = [cashEntries EXCEPT ![n] = @ - amount]
      /\ UNCHANGED <<numbered, sentBack, quantity, avgCost, stockMovements,
                     undoable, sold, costOfSales, creditMoved>>

(* Mutant of Edited: a prior supplier credit is dropped.                   *)
EditedDroppingCredit(inv, qty, price) ==
  SplitSpending([inv EXCEPT !.qty = qty, !.price = price, !.over = 0])

Edited(inv, qty, price) ==
  SplitSpending([inv EXCEPT !.qty = qty, !.price = price])

(* Mutant of Replaced: the old movements are not dropped.                  *)
ReplacedByAppending(n, qty) == [stockMovements EXCEPT ![n] = @ + qty]

(* replaceStockMovementsForReference                                       *)
Replaced(n, qty) == [stockMovements EXCEPT ![n] = qty]

(* updatePurchaseInvoice: the old lines, net of returns, are unwound and   *)
(* the new ones applied; the invoice's own movements are replaced.         *)
EditPurchase(n, qty, price) ==
  LET inv == purchases[n]
  IN  /\ purchases' = [purchases EXCEPT ![n] = Edited(inv, qty, price)]
      /\ Restock(Batch(inv.qty, inv.price), Batch(qty, price))
      /\ stockMovements' = Replaced(n, qty)
      /\ UNCHANGED <<numbered, sentBack, cashEntries, undoable, sold,
                     costOfSales, creditMoved>>

(* settlePurchaseInvoiceReturn: the lines themselves shrink. *)
Kept(inv, qty) == SplitSpending([inv EXCEPT !.qty = Pos(@ - qty)])

(* addPurchaseReturn; the screen takes at most what the invoice and the    *)
(* shelf hold.  What becomes supplier credit moves no cash: the refund is  *)
(* read before React has run the update that computes it, and is zero.     *)
ReturnPurchase(n, qty) ==
  LET inv == purchases[n]
  IN  /\ qty > 0 /\ qty <= inv.qty /\ qty <= quantity
      /\ purchases' = [purchases EXCEPT ![n] = Kept(inv, qty)]
      /\ sentBack' = [sentBack EXCEPT ![n] = @ + qty]
      /\ Restock(Batch(qty, inv.price), Nothing)
      /\ UNCHANGED <<numbered, stockMovements, cashEntries, undoable, sold,
                     costOfSales, creditMoved>>

(* deletePurchaseInvoice, refused once the invoice has a return. *)
DeletePurchase(n) ==
  LET inv == purchases[n]
  IN  /\ sentBack[n] = 0
      /\ purchases' = Restrict(purchases, PurchasesOnFile \ {n})
      /\ undoable' = [m \in DOMAIN undoable \cup {n} |->
           IF m = n THEN [invoice |-> inv, stockMovements |-> stockMovements[n],
                          cashEntries |-> cashEntries[n]]
           ELSE undoable[m]]
      /\ Restock(Batch(inv.qty, inv.price), Nothing)
      /\ stockMovements' = [stockMovements EXCEPT ![n] = 0]
      /\ cashEntries' = [cashEntries EXCEPT ![n] = 0]
      /\ UNCHANGED <<numbered, sentBack, sold, costOfSales, creditMoved>>

(* restoreDeletedInvoice: everything comes back but the average cost. *)
RestorePurchase(n) ==
  LET snap == undoable[n]
  IN  /\ n \notin PurchasesOnFile
      /\ purchases' = [m \in PurchasesOnFile \cup {n} |->
                        IF m = n THEN snap.invoice ELSE purchases[m]]
      /\ undoable' = Restrict(undoable, DOMAIN undoable \ {n})
      /\ quantity' = quantity + snap.invoice.qty
      /\ stockMovements' =
           [stockMovements EXCEPT ![n] = @ + snap.stockMovements]
      /\ cashEntries' = [cashEntries EXCEPT ![n] = @ + snap.cashEntries]
      /\ UNCHANGED <<numbered, sentBack, avgCost, sold, costOfSales,
                     creditMoved>>

(* Mutant of Of: the filter on the supplier is dropped.                    *)
OfAnyone(s) == PurchasesOnFile

From(s)        == {n \in PurchasesOnFile : purchases[n].supplier = s}
OwedTo(s)   == {n \in From(s) : purchases[n].remaining > 0}
CreditFrom(s) == {n \in From(s) : purchases[n].over > 0}

(* supplierBalance *)
SupplierBalance(s) ==
  SumFunctionOnSet([n \in From(s) |-> purchases[n].remaining - purchases[n].over], From(s))

(* settleSupplierDues: all the supplier's credit pays what it is owed. *)
SettleSupplierDues(s) ==
  LET pool == SumFunctionOnSet(Credit(purchases), CreditFrom(s))
      gain == Applied(purchases, OwedTo(s), pool)
      loss == Spent(purchases, CreditFrom(s), SumFunctionOnSet(gain, OwedTo(s)))
  IN  /\ OwedTo(s) # {} /\ CreditFrom(s) # {}
      /\ purchases' = [n \in PurchasesOnFile |->
           LET inv  == purchases[n]
               paid == inv.paid + gain[n]
           IN  IF n \in OwedTo(s)
               THEN [inv EXCEPT !.paid = paid,
                                !.remaining = Pos(Cost(inv) - paid),
                                !.status = ComputeStatus(Cost(inv), paid)]
               ELSE [inv EXCEPT !.over = @ - loss[n]]]
      /\ creditMoved' = [n \in PurchaseNumbers |->
           creditMoved[n]
             + (IF n \in PurchasesOnFile THEN gain[n] - loss[n] ELSE 0)]
      /\ UNCHANGED <<numbered, sentBack, quantity, avgCost, stockMovements,
                     cashEntries, undoable, sold, costOfSales>>

(* One unit sold, at the cost the sale records on its line. *)
SellOne ==
  /\ quantity > 0 /\ sold < MaxSold
  /\ quantity' = quantity - 1 /\ sold' = sold + 1
  /\ costOfSales' = Plus(costOfSales, avgCost)
  /\ UNCHANGED <<numbered, purchases, sentBack, avgCost, stockMovements,
                 cashEntries, undoable, creditMoved>>

---------------------------------------------------------------------------
(* Next-state relations.  The ordinary day leaves out what the screens     *)
(* allow and a property does not survive: editing an invoice that has a    *)
(* return (the editing day adds it), unwinding units or value that have    *)
(* been sold since, and restoring an invoice at a price that is not the    *)
(* average cost.                                                           *)

(* Neither clamp of AverageCost is met and no value stays on no stock. *)
Unwinds(remove, add) ==
  LET value == quantity * avgCost.num - remove.value * avgCost.den
  IN  /\ remove.qty <= quantity /\ value >= 0
      /\ remove.qty = quantity /\ add.qty = 0 => value = 0

PurchaseQuantities == 1 .. MaxBought
Due(n)     == purchases[n].remaining

BuyAny ==
  \E s \in Suppliers, qty \in PurchaseQuantities, price \in Prices :
    \E paid \in {0, price, qty * price} : Buy(s, qty, price, paid)
PayAnyPurchase ==
  \E n \in PurchasesOnFile : \E amount \in {1, Due(n)} : Pay(n, amount)
EditFresh ==
  \E n \in PurchasesOnFile, qty \in PurchaseQuantities, price \in Prices :
    /\ sentBack[n] = 0
    /\ Unwinds(Batch(purchases[n].qty, purchases[n].price), Batch(qty, price))
    /\ EditPurchase(n, qty, price)
ReturnAnyPurchase ==
  \E n \in PurchasesOnFile, qty \in PurchaseQuantities :
    Unwinds(Batch(qty, purchases[n].price), Nothing) /\ ReturnPurchase(n, qty)
DeleteAnyPurchase ==
  \E n \in PurchasesOnFile :
    /\ Unwinds(Batch(purchases[n].qty, purchases[n].price), Nothing)
    /\ DeletePurchase(n)
RestoreAnyPurchase ==
  \E n \in DOMAIN undoable :
    avgCost = Fraction(undoable[n].invoice.price, 1) /\ RestorePurchase(n)
SettleAnySupplier == \E s \in Suppliers : SettleSupplierDues(s)

PurchaseNext ==
  \/ BuyAny \/ PayAnyPurchase \/ EditFresh \/ ReturnAnyPurchase
  \/ DeleteAnyPurchase
  \/ RestoreAnyPurchase \/ SettleAnySupplier \/ SellOne

EditReturned ==
  \E n \in PurchasesOnFile, qty \in PurchaseQuantities, price \in Prices :
    /\ Unwinds(Batch(purchases[n].qty, purchases[n].price), Batch(qty, price))
    /\ EditPurchase(n, qty, price)

PurchaseSpec        == PurchaseInit /\ [][PurchaseNext]_purchaseVars
PurchaseEditingSpec == PurchaseInit /\ [][PurchaseNext \/ EditReturned]_purchaseVars

---------------------------------------------------------------------------
(* Properties                                                              *)

(* Types; no invoice is owed and in credit at once, and an undo snapshot   *)
(* is only kept of an invoice that is off file and never had a return.     *)
PurchaseTypeOK ==
  /\ numbered \in 0 .. MaxPurchases /\ quantity \in Nat /\ sold \in 0 .. MaxSold
  /\ \A n \in PurchasesOnFile :
       /\ purchases[n] \in Purchase
       /\ purchases[n].remaining = 0 \/ purchases[n].over = 0
  /\ \A n \in DOMAIN undoable : n \notin PurchasesOnFile /\ sentBack[n] = 0

(* The drawer explains every invoice, whatever was paid, edited, returned, *)
(* deleted, restored or settled: what an invoice says was spent on it is   *)
(* what its cash entries took from the drawer, plus the credit moved onto  *)
(* it, and what it is still owed is the rest of its total.                 *)
SpendingAccounted ==
  /\ \A n \in PurchasesOnFile :
       /\ Spending(purchases[n]) = creditMoved[n] - cashEntries[n]
       /\ purchases[n].remaining = Pos(Cost(purchases[n]) - purchases[n].paid)
  /\ \A n \in DOMAIN undoable :
       Spending(undoable[n].invoice) = creditMoved[n] - undoable[n].cashEntries

(* Settling moves a supplier's credit onto its own invoices and makes and  *)
(* loses nothing (settleSupplierDues), also across a deletion.             *)
SupplierCreditConserved ==
  \A s \in Suppliers :
    SumFunctionOnSet(creditMoved, From(s))
      + SumFunctionOnSet(creditMoved,
                {n \in DOMAIN undoable : undoable[n].invoice.supplier = s})
    = 0

(* The stock ledger explains the shelf.                                    *)
PurchasesExplainStock ==
  quantity = OpeningUnits + SumFunctionOnSet(stockMovements, PurchaseNumbers)
             - SumFunctionOnSet(sentBack, PurchaseNumbers) - sold

(* What is on the shelf at average cost and what was sold at cost are what *)
(* the opening stock and the purchases on file came to, so the profit      *)
(* reports see what the inventory really cost.                             *)
CostExplained ==
  Plus(Times(quantity, avgCost), costOfSales)
    = Fraction(OpeningUnits * OpeningCost
                 + SumFunction([n \in PurchasesOnFile |-> Cost(purchases[n])]), 1)
============================================================================
