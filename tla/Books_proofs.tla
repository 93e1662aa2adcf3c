---------------------------- MODULE Books_proofs ----------------------------
(***************************************************************************)
(* The shop's books add up: the purchase ledger, for any number of         *)
(* suppliers, invoices and units and any prices, and the backups, for      *)
(* every opening stock and every size of sale.  The sales ledger has a     *)
(* module of its own; the three stand side by side at the end, as MCBooks  *)
(* runs them.                                                              *)
(*                                                                         *)
(* Purchases are kept number by number: WellFiled says of one invoice      *)
(* number that it is on file, can be restored or was never issued, and     *)
(* that the returns, movements and cash entries under it fit.  All actions *)
(* but a sale and a settlement touch one number, so OneNumber asks of them *)
(* only that they leave that number well filed and move the shelf by what  *)
(* they file.  What the purchases cost is kept apart: CostInv is an        *)
(* equation between fractions, multiplied out.                             *)
(*                                                                         *)
(* A backup takes the stock from memory and the movements from disk or     *)
(* from the list in memory; a restore puts both on disk at once.  So what  *)
(* BackupsReconcile needs is that the stock of a signed-in shop is         *)
(* explained by the ledger, and that the disk is too whenever no flush is  *)
(* due.                                                                    *)
(***************************************************************************)
EXTENDS MCBooks, SalesLedger_proofs

---------------------------------------------------------------------------
(* The inductive invariant                                                 *)

FinePurchase(inv, back, moved, cash, credit) ==
  /\ inv \in Purchase /\ back \in Nat
  /\ moved \in Int /\ cash \in Int /\ credit \in Int
  /\ Spending(inv) = credit - cash
  /\ inv.remaining = Pos(Cost(inv) - inv.paid)
  /\ inv.remaining = 0 \/ inv.over = 0
  /\ moved = inv.qty + back

NothingFiled(n) == sentBack[n] = 0 /\ stockMovements[n] = 0 /\ cashEntries[n] = 0

OnFileWell(n) ==
  /\ n \in PurchasesOnFile /\ n \notin DOMAIN undoable /\ n <= numbered
  /\ FinePurchase(purchases[n], sentBack[n], stockMovements[n], cashEntries[n], creditMoved[n])

UndoableWell(n) ==
  /\ n \in DOMAIN undoable /\ n \notin PurchasesOnFile /\ n <= numbered
  /\ FinePurchase(undoable[n].invoice, 0, undoable[n].stockMovements,
                  undoable[n].cashEntries, creditMoved[n])
  /\ NothingFiled(n)

NeverIssued(n) ==
  /\ n \notin PurchasesOnFile /\ n \notin DOMAIN undoable /\ n > numbered
  /\ NothingFiled(n) /\ creditMoved[n] = 0

WellFiled(n) == OnFileWell(n) \/ UndoableWell(n) \/ NeverIssued(n)

PurchaseTypes ==
  /\ numbered \in 0 .. MaxPurchases /\ quantity \in Nat /\ sold \in 0 .. MaxSold
  /\ sentBack \in [PurchaseNumbers -> Nat] /\ stockMovements \in [PurchaseNumbers -> Int]
  /\ cashEntries \in [PurchaseNumbers -> Int] /\ creditMoved \in [PurchaseNumbers -> Int]
  /\ PurchasesOnFile \subseteq PurchaseNumbers /\ DOMAIN undoable \subseteq PurchaseNumbers

Billed(n) ==
  IF n \in PurchasesOnFile THEN purchases[n].supplier ELSE undoable[n].invoice.supplier
BilledBy(s) == {n \in 1 .. numbered : Billed(n) = s}

SuppliersBalance ==
  \A s \in Suppliers : SumFunctionOnSet(creditMoved, BilledBy(s)) = 0

PurchaseInv ==
  /\ PurchaseTypes /\ (\A n \in PurchaseNumbers : WellFiled(n))
  /\ PurchasesExplainStock /\ SuppliersBalance

---------------------------------------------------------------------------
(* One invoice                                                             *)

(* What an invoice's goods cost is a number that is not negative.          *)
LEMMA CostNat == \A qty \in Nat, price \in Nat : qty * price \in Nat
OBVIOUS

(* The types of the fields of a purchase invoice.                          *)
LEMMA PurchaseFields ==
  ASSUME NEW inv \in Purchase
  PROVE  /\ inv.qty \in Nat /\ inv.price \in Nat /\ inv.price # 0
         /\ inv.paid \in Nat /\ inv.over \in Nat /\ inv.remaining \in Nat
         /\ inv.supplier \in Suppliers /\ inv.status \in Status
         /\ Cost(inv) \in Nat /\ Spending(inv) \in Nat
<1>1. /\ inv.qty \in Nat /\ inv.price \in Prices
      /\ inv.paid \in Nat /\ inv.over \in Nat /\ inv.remaining \in Nat
      /\ inv.supplier \in Suppliers /\ inv.status \in Status
  BY DEF Purchase
<1>2. inv.price \in Nat /\ inv.price # 0
  BY <1>1, PurchaseAssumption
<1>3. Cost(inv) \in Nat
  BY <1>1, <1>2, CostNat DEF Cost
<1> QED BY <1>1, <1>2, <1>3 DEF Spending

(* Comparing what is paid with the total gives one of the states of an     *)
(* invoice.                                                                *)
LEMMA StatusTyped == \A total \in Int, paid \in Int : ComputeStatus(total, paid) \in Status
BY DEF ComputeStatus, Status

(* Splitting the money again keeps the invoice, its lines and its money.   *)
LEMMA SplitFine ==
  ASSUME NEW inv \in Purchase, NEW back \in Nat, NEW moved, moved = inv.qty + back,
         NEW cash \in Int, NEW credit \in Int, Spending(inv) = credit - cash
  PROVE  FinePurchase(SplitSpending(inv), back, moved, cash, credit)
<1> DEFINE money == Spending(inv)
           owed == Cost(inv)
           split == SplitSpending(inv)
<1>1. /\ inv.qty \in Nat /\ money \in Nat /\ owed \in Nat
  BY PurchaseFields
<1>2. /\ Lesser(money, owed) \in Nat /\ Pos(money - owed) \in Nat
      /\ Pos(owed - Lesser(money, owed)) \in Nat
      /\ Lesser(money, owed) + Pos(money - owed) = money
      /\ Pos(owed - Lesser(money, owed)) = 0 \/ Pos(money - owed) = 0
  <2> HIDE DEF money, owed
  <2> QED BY <1>1 DEF Lesser, Pos
<1>3. ComputeStatus(owed, Lesser(money, owed)) \in Status
  BY <1>1, <1>2, StatusTyped
<1>4. split = [inv EXCEPT !.paid = Lesser(money, owed), !.over = Pos(money - owed),
                          !.remaining = Pos(owed - Lesser(money, owed)),
                          !.status = ComputeStatus(owed, Lesser(money, owed))]
  BY DEF SplitSpending
<1> HIDE DEF split
<1>5. split \in Purchase
  <2> HIDE DEF money, owed
  <2> QED BY <1>2, <1>3, <1>4 DEF Purchase
<1>6. /\ split.paid = Lesser(money, owed) /\ split.over = Pos(money - owed)
      /\ split.remaining = Pos(owed - Lesser(money, owed))
      /\ split.qty = inv.qty /\ split.price = inv.price
  <2> HIDE DEF money, owed
  <2> QED BY <1>4 DEF Purchase
<1>7. Cost(split) = owed /\ Spending(split) = money
  BY <1>2, <1>6 DEF Cost, Spending
<1>8. moved \in Int
  BY <1>1
<1>9. Spending(split) = credit - cash
  BY <1>7
<1> HIDE DEF money, owed
<1>10. split.remaining = Pos(Cost(split) - split.paid)
  BY <1>6, <1>7
<1>11. split.remaining = 0 \/ split.over = 0
  BY <1>2, <1>6
<1>12. FinePurchase(split, back, moved, cash, credit)
  BY <1>5, <1>6, <1>8, <1>9, <1>10, <1>11 DEF FinePurchase
<1> QED BY <1>12 DEF split

(* It also keeps the supplier.                                             *)
LEMMA SplitKeepsSupplier ==
  \A inv \in Purchase : SplitSpending(inv).supplier = inv.supplier
BY DEF SplitSpending, Purchase

(* Money put on an invoice, from the drawer or from another's credit.      *)
PaidMore(inv, amount) ==
  [inv EXCEPT !.paid = inv.paid + amount, !.remaining = Pos(Cost(inv) - (inv.paid + amount)),
              !.status = ComputeStatus(Cost(inv), inv.paid + amount)]

(* An invoice that is still owed stays fine when it is paid more, in cash  *)
(* or from credit moved onto it.                                           *)
LEMMA PaidMoreFine ==
  ASSUME NEW inv, NEW back, NEW moved, NEW cash, NEW credit,
         FinePurchase(inv, back, moved, cash, credit), inv.remaining > 0,
         NEW amount \in Nat, NEW cash2 \in Int, NEW credit2 \in Int,
         credit2 - cash2 = credit - cash + amount
  PROVE  /\ FinePurchase(PaidMore(inv, amount), back, moved, cash2, credit2)
         /\ PaidMore(inv, amount).supplier = inv.supplier
<1> DEFINE paid == inv.paid + amount
           more == PaidMore(inv, amount)
<1>1. /\ inv \in Purchase /\ back \in Nat /\ moved \in Int /\ cash \in Int /\ credit \in Int
      /\ Spending(inv) = credit - cash /\ moved = inv.qty + back
      /\ inv.remaining = 0 \/ inv.over = 0
  BY DEF FinePurchase
<1>2. /\ inv.paid \in Nat /\ inv.over \in Nat /\ inv.remaining \in Nat /\ Cost(inv) \in Nat
  BY <1>1, PurchaseFields
<1>3. paid \in Nat /\ inv.over = 0
  BY <1>1, <1>2
<1>4. Pos(Cost(inv) - paid) \in Nat /\ ComputeStatus(Cost(inv), paid) \in Status
  BY <1>2, <1>3, PosNat, StatusTyped
<1>5. more = [inv EXCEPT !.paid = paid, !.remaining = Pos(Cost(inv) - paid),
                         !.status = ComputeStatus(Cost(inv), paid)]
  BY DEF PaidMore
<1> HIDE DEF paid, more
<1>6. /\ more \in Purchase /\ more.paid = paid /\ more.over = inv.over
      /\ more.remaining = Pos(Cost(inv) - paid)
      /\ more.qty = inv.qty /\ more.price = inv.price /\ more.supplier = inv.supplier
  BY <1>1, <1>3, <1>4, <1>5 DEF Purchase
<1>7. Cost(more) = Cost(inv)
  BY <1>6 DEF Cost
<1>8. Spending(more) = credit2 - cash2
  <2>1. Spending(more) = inv.paid + amount + inv.over
    BY <1>2, <1>6 DEF Spending, paid
  <2>2. inv.paid + inv.over = credit - cash
    BY <1>1 DEF Spending
  <2> QED BY <1>1, <1>2, <2>1, <2>2
<1>9. FinePurchase(more, back, moved, cash2, credit2)
  BY <1>1, <1>3, <1>6, <1>7, <1>8 DEF FinePurchase
<1> QED BY <1>6, <1>9 DEF more

(* Credit taken off an invoice.                                            *)
LEMMA LessCreditFine ==
  ASSUME NEW inv, NEW back, NEW moved, NEW cash, NEW credit,
         FinePurchase(inv, back, moved, cash, credit),
         NEW loss \in Nat, loss <= inv.over
  PROVE  /\ FinePurchase([inv EXCEPT !.over = @ - loss], back, moved, cash, credit - loss)
         /\ [inv EXCEPT !.over = @ - loss].supplier = inv.supplier
<1> DEFINE less == [inv EXCEPT !.over = @ - loss]
<1>1. /\ inv \in Purchase /\ back \in Nat /\ moved \in Int /\ cash \in Int /\ credit \in Int
      /\ Spending(inv) = credit - cash /\ moved = inv.qty + back
      /\ inv.remaining = 0 \/ inv.over = 0
      /\ inv.remaining = Pos(Cost(inv) - inv.paid)
  BY DEF FinePurchase
<1>2. /\ inv.paid \in Nat /\ inv.over \in Nat /\ inv.over - loss \in Nat
      /\ inv.over = 0 => inv.over - loss = 0
  BY <1>1, PurchaseFields
<1>3. /\ less \in Purchase /\ less.paid = inv.paid /\ less.over = inv.over - loss
      /\ less.remaining = inv.remaining /\ less.qty = inv.qty /\ less.price = inv.price
      /\ less.supplier = inv.supplier
  BY <1>1, <1>2 DEF Purchase
<1> HIDE DEF less
<1>4. Cost(less) = Cost(inv)
  BY <1>3 DEF Cost
<1>5. Spending(less) = (credit - loss) - cash
  BY <1>1, <1>2, <1>3 DEF Spending
<1>6. credit - loss \in Int
  BY <1>1
<1>7. FinePurchase(less, back, moved, cash, credit - loss)
  BY <1>1, <1>2, <1>3, <1>4, <1>5, <1>6 DEF FinePurchase
<1> QED BY <1>3, <1>7 DEF less

---------------------------------------------------------------------------
(* What the invariant says of the whole ledger                             *)

(* The numbers of the purchase invoices are finitely many integers.        *)
LEMMA PurchaseNumbersFinite ==
  IsFiniteSet(PurchaseNumbers) /\ PurchaseNumbers \subseteq Int /\ MaxPurchases \in Nat
<1>1. MaxPurchases \in Nat
  BY PurchaseAssumption
<1> QED BY <1>1, FS_Interval DEF PurchaseNumbers

(* What the invariant says of each number: of one on file, of one whose    *)
(* deletion can be undone and of one not yet issued.                       *)
LEMMA WellFiledCases ==
  ASSUME PurchaseInv
  PROVE  /\ \A n \in PurchasesOnFile : n \in PurchaseNumbers /\ OnFileWell(n)
         /\ \A n \in DOMAIN undoable : n \in PurchaseNumbers /\ UndoableWell(n)
         /\ 1 .. numbered = PurchasesOnFile \cup DOMAIN undoable
         /\ PurchasesOnFile \cap DOMAIN undoable = {}
<1>1. /\ PurchasesOnFile \subseteq PurchaseNumbers /\ DOMAIN undoable \subseteq PurchaseNumbers
      /\ numbered \in 0 .. MaxPurchases
      /\ \A n \in PurchaseNumbers : WellFiled(n)
  BY DEF PurchaseInv, PurchaseTypes
<1>2. \A n \in PurchasesOnFile : OnFileWell(n)
  BY <1>1 DEF WellFiled, UndoableWell, NeverIssued
<1>3. \A n \in DOMAIN undoable : UndoableWell(n)
  BY <1>1 DEF WellFiled, OnFileWell, NeverIssued
<1>4. \A n \in PurchaseNumbers : n <= numbered <=> n \in PurchasesOnFile \cup DOMAIN undoable
  <2> SUFFICES ASSUME NEW n \in PurchaseNumbers
               PROVE  n <= numbered <=> n \in PurchasesOnFile \cup DOMAIN undoable
    OBVIOUS
  <2>1. n \in Int /\ numbered \in Int
    BY <1>1, PurchaseNumbersFinite
  <2>2. CASE OnFileWell(n)
    BY <2>2 DEF OnFileWell
  <2>3. CASE UndoableWell(n)
    BY <2>3 DEF UndoableWell
  <2>4. CASE NeverIssued(n)
    BY <2>1, <2>4 DEF NeverIssued
  <2> QED BY <1>1, <2>2, <2>3, <2>4 DEF WellFiled
<1>5. 1 .. numbered = {n \in PurchaseNumbers : n <= numbered}
  BY <1>1, PurchaseNumbersFinite DEF PurchaseNumbers
<1>6. 1 .. numbered = PurchasesOnFile \cup DOMAIN undoable
  BY <1>1, <1>4, <1>5
<1>7. PurchasesOnFile \cap DOMAIN undoable = {}
  BY <1>2 DEF OnFileWell
<1> QED BY <1>1, <1>2, <1>3, <1>6, <1>7

(* The invariant implies the types.                                        *)
LEMMA InvPurchaseTypeOK == PurchaseInv => PurchaseTypeOK
<1> SUFFICES ASSUME PurchaseInv PROVE PurchaseTypeOK
  OBVIOUS
<1>1. numbered \in 0 .. MaxPurchases /\ quantity \in Nat /\ sold \in 0 .. MaxSold
  BY DEF PurchaseInv, PurchaseTypes
<1>2. \A n \in PurchasesOnFile : /\ purchases[n] \in Purchase
                                 /\ purchases[n].remaining = 0 \/ purchases[n].over = 0
  BY WellFiledCases DEF OnFileWell, FinePurchase
<1>3. \A n \in DOMAIN undoable : n \notin PurchasesOnFile /\ sentBack[n] = 0
  BY WellFiledCases DEF UndoableWell, NothingFiled
<1> QED BY <1>1, <1>2, <1>3 DEF PurchaseTypeOK

(* The invariant implies that what each invoice was paid is in the cash    *)
(* book or came as credit.                                                 *)
LEMMA InvSpending == PurchaseInv => SpendingAccounted
BY WellFiledCases DEF SpendingAccounted, OnFileWell, UndoableWell, FinePurchase

(* The invariant implies that the purchases and sales explain the stock.   *)
LEMMA InvPurchasesExplain == PurchaseInv => PurchasesExplainStock
BY DEF PurchaseInv

(* The invariant implies that moving credit between a supplier's invoices  *)
(* neither makes nor loses any.                                            *)
LEMMA InvSupplierCredit == PurchaseInv => SupplierCreditConserved
<1> SUFFICES ASSUME PurchaseInv, NEW s \in Suppliers
             PROVE  SumFunctionOnSet(creditMoved, From(s))
                      + SumFunctionOnSet(creditMoved,
                          {n \in DOMAIN undoable : undoable[n].invoice.supplier = s}) = 0
  BY DEF SupplierCreditConserved
<1> DEFINE A == From(s)
           B == {n \in DOMAIN undoable : undoable[n].invoice.supplier = s}
           S == BilledBy(s)
<1>1. /\ 1 .. numbered = PurchasesOnFile \cup DOMAIN undoable
      /\ PurchasesOnFile \cap DOMAIN undoable = {}
      /\ PurchasesOnFile \cup DOMAIN undoable \subseteq PurchaseNumbers
  BY WellFiledCases
<1>2. /\ creditMoved \in [PurchaseNumbers -> Int]
      /\ SumFunctionOnSet(creditMoved, S) = 0
  BY DEF PurchaseInv, PurchaseTypes, SuppliersBalance
<1>3. A \cup B = S /\ A \cap B = {}
  BY <1>1 DEF BilledBy, Billed, From
<1>4. IsFiniteSet(S) /\ \A n \in S : creditMoved[n] \in Int
  <2>1. S \subseteq PurchaseNumbers
    BY <1>1 DEF BilledBy
  <2> HIDE DEF S
  <2> QED BY <1>2, <2>1, PurchaseNumbersFinite, FS_Subset
<1> HIDE DEF A, B, S
<1>5. SumFunctionOnSet(creditMoved, S)
        = SumFunctionOnSet(creditMoved, A) + SumFunctionOnSet(creditMoved, B)
  BY <1>3, <1>4, SumParts
<1> QED BY <1>2, <1>5 DEF A, B

---------------------------------------------------------------------------
(* Actions that touch one number                                           *)

(* The shop before its first purchase satisfies the invariant.             *)
LEMMA InitPurchaseInv == PurchaseInit => PurchaseInv
<1> SUFFICES ASSUME PurchaseInit PROVE PurchaseInv
  OBVIOUS
<1>1. /\ PurchasesOnFile = {} /\ DOMAIN undoable = {} /\ numbered = 0
      /\ quantity = OpeningUnits /\ sold = 0
      /\ sentBack = [n \in PurchaseNumbers |-> 0]
      /\ stockMovements = [n \in PurchaseNumbers |-> 0]
      /\ cashEntries = [n \in PurchaseNumbers |-> 0]
      /\ creditMoved = [n \in PurchaseNumbers |-> 0]
  BY DEF PurchaseInit, PurchasesOnFile
<1>2. OpeningUnits \in Nat /\ MaxPurchases \in Nat /\ MaxSold \in Nat
  BY PurchaseAssumption
<1>3. PurchaseTypes
  BY <1>1, <1>2 DEF PurchaseTypes
<1>4. \A n \in PurchaseNumbers : WellFiled(n)
  BY <1>1, <1>2 DEF WellFiled, NeverIssued, NothingFiled, PurchaseNumbers
<1>5. PurchasesExplainStock
  <2>1. \A n \in PurchaseNumbers : stockMovements[n] = 0 /\ sentBack[n] = 0
    BY <1>1
  <2>2. /\ SumFunctionOnSet(stockMovements, PurchaseNumbers) = 0
        /\ SumFunctionOnSet(sentBack, PurchaseNumbers) = 0
    BY <2>1, PurchaseNumbersFinite, SumZero
  <2> QED BY <1>1, <1>2, <2>2 DEF PurchasesExplainStock
<1>6. SuppliersBalance
  <2> SUFFICES ASSUME NEW s \in Suppliers
               PROVE  SumFunctionOnSet(creditMoved, BilledBy(s)) = 0
    BY DEF SuppliersBalance
  <2>1. BilledBy(s) = {}
    BY <1>1 DEF BilledBy
  <2> QED BY <2>1, SumEmpty
<1> QED BY <1>3, <1>4, <1>5, <1>6 DEF PurchaseInv

(* SumChange in the form the actions use it.                               *)
LEMMA PurchaseSumRewritten ==
  \A n \in PurchaseNumbers : \A f, g :
    /\ \A m \in PurchaseNumbers : f[m] \in Int /\ g[m] \in Int
    /\ \A m \in PurchaseNumbers : m # n => g[m] = f[m]
    => SumFunctionOnSet(g, PurchaseNumbers)
         = SumFunctionOnSet(f, PurchaseNumbers) + g[n] - f[n]
<1> SUFFICES ASSUME NEW n \in PurchaseNumbers, NEW f, NEW g,
                    \A m \in PurchaseNumbers : f[m] \in Int /\ g[m] \in Int,
                    \A m \in PurchaseNumbers : m # n => g[m] = f[m]
             PROVE  SumFunctionOnSet(g, PurchaseNumbers)
                      = SumFunctionOnSet(f, PurchaseNumbers) + g[n] - f[n]
  OBVIOUS
<1>1. /\ \A m \in PurchaseNumbers : f[m] \in Int
      /\ \A m \in PurchaseNumbers : g[m] \in Int
      /\ \A m \in PurchaseNumbers \ {n} : f[m] = g[m]
  OBVIOUS
<1> QED BY <1>1, PurchaseNumbersFinite, SumChange

(* What is filed under a number an action does not touch.                  *)
Untouched(m) ==
  /\ m \in PurchasesOnFile' <=> m \in PurchasesOnFile
  /\ m \in PurchasesOnFile => purchases'[m] = purchases[m]
  /\ m \in DOMAIN undoable' <=> m \in DOMAIN undoable
  /\ m \in DOMAIN undoable => undoable'[m] = undoable[m]
  /\ sentBack'[m] = sentBack[m] /\ stockMovements'[m] = stockMovements[m]
  /\ cashEntries'[m] = cashEntries[m] /\ creditMoved'[m] = creditMoved[m]

(* A number whose records a step leaves alone stays well filed.            *)
LEMMA UntouchedWell ==
  ASSUME NEW m, WellFiled(m), Untouched(m), m <= numbered <=> m <= numbered',
         m > numbered <=> m > numbered'
  PROVE  WellFiled(m)'
<1>1. CASE OnFileWell(m)
  BY <1>1 DEF OnFileWell, Untouched, WellFiled, FinePurchase
<1>2. CASE UndoableWell(m)
  BY <1>2 DEF UndoableWell, Untouched, WellFiled, FinePurchase, NothingFiled
<1>3. CASE NeverIssued(m)
  BY <1>3 DEF NeverIssued, Untouched, WellFiled, NothingFiled
<1> QED BY <1>1, <1>2, <1>3 DEF WellFiled

(* The purchase itself, credit apart: a sum changes by what one number's   *)
(* entry does, and as long as numbers keep their supplier, credit stays    *)
(* balanced.                                                               *)
LEMMA OneNumber ==
  ASSUME PurchaseInv, NEW n \in PurchaseNumbers, PurchaseTypes',
         numbered' = numbered \/ (n = numbered + 1 /\ numbered' = n),
         \A m \in PurchaseNumbers : m # n => Untouched(m),
         WellFiled(n)', creditMoved' = creditMoved, sold' = sold,
         n <= numbered => Billed(n)' = Billed(n),
         quantity' = quantity + (stockMovements'[n] - sentBack'[n])
                              - (stockMovements[n] - sentBack[n])
  PROVE  PurchaseInv'
<1>1. /\ numbered \in 0 .. MaxPurchases /\ quantity \in Nat /\ sold \in 0 .. MaxSold
      /\ sentBack \in [PurchaseNumbers -> Nat] /\ stockMovements \in [PurchaseNumbers -> Int]
      /\ creditMoved \in [PurchaseNumbers -> Int]
      /\ \A m \in PurchaseNumbers : WellFiled(m)
      /\ PurchasesExplainStock
  BY DEF PurchaseInv, PurchaseTypes
<1>2. /\ sentBack' \in [PurchaseNumbers -> Nat]
      /\ stockMovements' \in [PurchaseNumbers -> Int]
  BY DEF PurchaseTypes, PurchaseNumbers
<1>3. \A m \in PurchaseNumbers : WellFiled(m)'
  <2> SUFFICES ASSUME NEW m \in PurchaseNumbers PROVE WellFiled(m)'
    OBVIOUS
  <2>1. CASE m = n
    BY <2>1
  <2>2. CASE m # n
    <3>1. m \in Int /\ numbered \in Int
      BY <1>1, PurchaseNumbersFinite
    <3>2. /\ m <= numbered <=> m <= numbered'
          /\ m > numbered <=> m > numbered'
      BY <2>2, <3>1
    <3>3. WellFiled(m) /\ Untouched(m)
      BY <1>1, <2>2
    <3> QED BY <3>2, <3>3, UntouchedWell
  <2> QED BY <2>1, <2>2
<1>4. PurchasesExplainStock'
  <2>1. /\ \A m \in PurchaseNumbers : /\ stockMovements[m] \in Int /\ stockMovements'[m] \in Int
                                      /\ sentBack[m] \in Int /\ sentBack'[m] \in Int
        /\ \A m \in PurchaseNumbers : m # n => /\ stockMovements'[m] = stockMovements[m]
                                               /\ sentBack'[m] = sentBack[m]
    BY <1>1, <1>2 DEF Untouched
  <2>2. SumFunctionOnSet(stockMovements', PurchaseNumbers)
          = SumFunctionOnSet(stockMovements, PurchaseNumbers)
              + stockMovements'[n] - stockMovements[n]
    BY <2>1, PurchaseSumRewritten
  <2>3. SumFunctionOnSet(sentBack', PurchaseNumbers)
          = SumFunctionOnSet(sentBack, PurchaseNumbers) + sentBack'[n] - sentBack[n]
    BY <2>1, PurchaseSumRewritten
  <2>4. /\ SumFunctionOnSet(stockMovements, PurchaseNumbers) \in Int
        /\ SumFunctionOnSet(sentBack, PurchaseNumbers) \in Int
    <3>1. \A m \in PurchaseNumbers : stockMovements[m] \in Int
      BY <2>1
    <3>2. \A m \in PurchaseNumbers : sentBack[m] \in Int
      BY <2>1
    <3> QED BY <3>1, <3>2, PurchaseNumbersFinite, SumInt
  <2>5. quantity = OpeningUnits + SumFunctionOnSet(stockMovements, PurchaseNumbers)
                   - SumFunctionOnSet(sentBack, PurchaseNumbers) - sold
    BY <1>1 DEF PurchasesExplainStock
  <2>6. /\ stockMovements[n] \in Int /\ stockMovements'[n] \in Int
        /\ sentBack[n] \in Int /\ sentBack'[n] \in Int
        /\ OpeningUnits \in Int /\ sold \in Int /\ sold' = sold
    BY <1>1, <2>1, PurchaseAssumption
  <2>7. quantity' = OpeningUnits + SumFunctionOnSet(stockMovements', PurchaseNumbers)
                    - SumFunctionOnSet(sentBack', PurchaseNumbers) - sold'
    BY <2>2, <2>3, <2>4, <2>5, <2>6
  <2> QED BY <2>7 DEF PurchasesExplainStock, PurchaseNumbers
<1>5. SuppliersBalance'
  <2> SUFFICES ASSUME NEW s \in Suppliers
               PROVE  SumFunctionOnSet(creditMoved, BilledBy(s)') = 0
    BY DEF SuppliersBalance
  <2> DEFINE S == BilledBy(s)'
             T == BilledBy(s)
  <2>1. S = {m \in 1 .. numbered' : Billed(m)' = s} /\ T = {m \in 1 .. numbered : Billed(m) = s}
    BY DEF BilledBy
  <2>2. \A m \in 1 .. numbered : Billed(m)' = Billed(m)
    <3> SUFFICES ASSUME NEW m \in 1 .. numbered PROVE Billed(m)' = Billed(m)
      OBVIOUS
    <3>1. m \in PurchaseNumbers
      BY <1>1, PurchaseNumbersFinite DEF PurchaseNumbers
    <3>2. CASE m = n
      BY <3>2
    <3>3. CASE m # n
      <4>1. Untouched(m) /\ m \in PurchasesOnFile \cup DOMAIN undoable
        BY <3>1, <3>3, WellFiledCases
      <4> QED BY <4>1 DEF Billed, Untouched
    <3> QED BY <3>2, <3>3
  <2>3. T \subseteq S /\ S \subseteq PurchaseNumbers
        /\ \A m \in S \ T : m = n /\ n > numbered
    <3>1. numbered \in Nat /\ numbered' \in 0 .. MaxPurchases
      BY <1>1 DEF PurchaseTypes
    <3>2. /\ 1 .. numbered \subseteq 1 .. numbered'
          /\ 1 .. numbered' \subseteq PurchaseNumbers
          /\ \A m \in 1 .. numbered' : m \notin 1 .. numbered => m = n /\ n > numbered
      BY <3>1, PurchaseNumbersFinite DEF PurchaseNumbers
    <3> QED BY <2>1, <2>2, <3>2
  <2>4. IsFiniteSet(S) /\ \A m \in S : creditMoved[m] \in Int
    <3> HIDE DEF S
    <3> QED BY <1>1, <2>3, PurchaseNumbersFinite, FS_Subset
  <2>5. \A m \in S \ T : creditMoved[m] = 0
    <3>1. n > numbered => creditMoved[n] = 0
      BY <1>1, PurchaseNumbersFinite DEF WellFiled, OnFileWell, UndoableWell, NeverIssued
    <3> QED BY <2>3, <3>1
  <2>6. SumFunctionOnSet(creditMoved, T) = 0
    BY DEF PurchaseInv, SuppliersBalance
  <2> HIDE DEF S, T
  <2>7. SumFunctionOnSet(creditMoved, S) = SumFunctionOnSet(creditMoved, T)
    BY <2>3, <2>4, <2>5, SumOfNonZeros
  <2> QED BY <2>6, <2>7 DEF S
<1>6. PurchaseInv' = /\ PurchaseTypes' /\ (\A m \in PurchaseNumbers : WellFiled(m)')
                     /\ PurchasesExplainStock' /\ SuppliersBalance'
  BY DEF PurchaseInv, PurchaseNumbers
<1> QED BY <1>3, <1>4, <1>5, <1>6

---------------------------------------------------------------------------
(* The handlers                                                            *)

(* The types of the counters the handlers read.                            *)
LEMMA PurchaseTyped ==
  ASSUME PurchaseInv
  PROVE  /\ numbered \in 0 .. MaxPurchases /\ numbered \in Nat
         /\ quantity \in Nat /\ sold \in 0 .. MaxSold
         /\ sentBack \in [PurchaseNumbers -> Nat]
         /\ stockMovements \in [PurchaseNumbers -> Int]
         /\ cashEntries \in [PurchaseNumbers -> Int]
         /\ creditMoved \in [PurchaseNumbers -> Int]
         /\ PurchasesOnFile \subseteq PurchaseNumbers
         /\ DOMAIN undoable \subseteq PurchaseNumbers
         /\ \A n \in PurchaseNumbers : WellFiled(n)
BY DEF PurchaseInv, PurchaseTypes

(* Saving a new purchase keeps the invariant.                              *)
LEMMA BuyKeeps ==
  ASSUME PurchaseInv, NEW s \in Suppliers, NEW qty \in Nat, NEW price \in Prices,
         NEW paid \in Nat, Buy(s, qty, price, paid)
  PROVE  PurchaseInv'
<1> PICK n : n = numbered + 1
  OBVIOUS
<1> DEFINE cost == qty * price
           inv == [supplier |-> s, qty |-> qty, price |-> price, paid |-> paid,
                   over |-> 0, remaining |-> cost - paid,
                   status |-> ComputeStatus(cost, paid)]
<1>1. /\ n \in PurchaseNumbers /\ paid <= cost /\ numbered' = n
      /\ purchases' = [m \in PurchasesOnFile \cup {n} |-> IF m = n THEN inv ELSE purchases[m]]
      /\ Restock(Nothing, Batch(qty, price))
      /\ stockMovements' = [stockMovements EXCEPT ![n] = qty]
      /\ cashEntries' = [cashEntries EXCEPT ![n] = -paid]
      /\ UNCHANGED <<sentBack, undoable, sold, costOfSales, creditMoved>>
  BY DEF Buy
<1>2. price \in Nat /\ price # 0
  BY PurchaseAssumption
<1>3. cost \in Nat
  BY <1>2, CostNat
<1>4. NeverIssued(n)
  <2>1. WellFiled(n)
    BY <1>1, PurchaseTyped
  <2>2. ~ (n <= numbered)
    BY PurchaseTyped
  <2> QED BY <2>1, <2>2 DEF WellFiled, OnFileWell, UndoableWell
<1>5. FinePurchase(inv, 0, qty, -paid, 0)
  <2>1. ComputeStatus(cost, paid) \in Status
    BY <1>3, StatusTyped
  <2>2. cost - paid \in Nat /\ cost - paid = Pos(cost - paid)
    BY <1>1, <1>3 DEF Pos
  <2> HIDE DEF cost
  <2>3. inv \in Purchase
    BY <2>1, <2>2 DEF Purchase
  <2>4. /\ Spending(inv) = 0 - (-paid) /\ Cost(inv) = cost /\ inv.paid = paid /\ inv.over = 0
        /\ inv.remaining = cost - paid /\ qty = inv.qty + 0
    BY DEF Spending, Cost, cost
  <2>5. qty \in Int /\ -paid \in Int /\ 0 \in Nat /\ 0 \in Int
    OBVIOUS
  <2> HIDE DEF inv
  <2> QED BY <2>2, <2>3, <2>4, <2>5 DEF FinePurchase
<1> HIDE DEF inv, cost
<1>6. /\ sentBack[n] = 0 /\ stockMovements[n] = 0 /\ creditMoved[n] = 0
      /\ n \notin PurchasesOnFile /\ n \notin DOMAIN undoable
  BY <1>4 DEF NeverIssued, NothingFiled
<1>7. quantity' = quantity + qty /\ quantity' \in Nat
  BY <1>1, PurchaseTyped DEF Restock, Nothing, Batch, Pos
<1>8. /\ PurchasesOnFile' = PurchasesOnFile \cup {n} /\ purchases'[n] = inv
      /\ \A m \in PurchasesOnFile : purchases'[m] = purchases[m]
  BY <1>1, <1>6 DEF PurchasesOnFile
<1>9. /\ stockMovements' \in [PurchaseNumbers -> Int] /\ stockMovements'[n] = qty
      /\ cashEntries' \in [PurchaseNumbers -> Int] /\ cashEntries'[n] = -paid
      /\ \A m \in PurchaseNumbers : m # n => /\ stockMovements'[m] = stockMovements[m]
                                             /\ cashEntries'[m] = cashEntries[m]
  BY <1>1, PurchaseTyped
<1>10. PurchaseTypes'
  <2>1. numbered' \in 0 .. MaxPurchases
    BY <1>1, PurchaseNumbersFinite DEF PurchaseNumbers
  <2> QED BY <1>1, <1>7, <1>8, <1>9, <2>1, PurchaseTyped DEF PurchaseTypes, PurchaseNumbers
<1>11. \A m \in PurchaseNumbers : m # n => Untouched(m)
  BY <1>1, <1>8, <1>9 DEF Untouched
<1>12. WellFiled(n)'
  <2>1. /\ n \in PurchasesOnFile' /\ n \notin DOMAIN undoable' /\ n <= numbered'
        /\ sentBack'[n] = 0 /\ creditMoved'[n] = 0
    BY <1>1, <1>6, <1>8, PurchaseNumbersFinite
  <2>2. FinePurchase(purchases'[n], sentBack'[n], stockMovements'[n], cashEntries'[n],
                     creditMoved'[n])
    BY <1>5, <1>8, <1>9, <2>1
  <2> QED BY <2>1, <2>2 DEF WellFiled, OnFileWell, FinePurchase
<1>13. quantity' = quantity + (stockMovements'[n] - sentBack'[n])
                            - (stockMovements[n] - sentBack[n])
  BY <1>1, <1>6, <1>7, <1>9, PurchaseTyped
<1>14. n <= numbered => Billed(n)' = Billed(n)
  BY PurchaseTyped
<1> QED BY <1>1, <1>10, <1>11, <1>12, <1>13, <1>14, OneNumber

(* What rewrites an invoice on file leaves it fine and files the rest.     *)
LEMMA OneOnFile ==
  ASSUME PurchaseInv, NEW n \in PurchasesOnFile, NEW inv, NEW back, NEW moved, NEW cash,
         FinePurchase(inv, back, moved, cash, creditMoved[n]),
         inv.supplier = purchases[n].supplier,
         purchases' = [purchases EXCEPT ![n] = inv],
         sentBack' = [sentBack EXCEPT ![n] = back],
         stockMovements' = [stockMovements EXCEPT ![n] = moved],
         cashEntries' = [cashEntries EXCEPT ![n] = cash],
         quantity' = quantity + (moved - back) - (stockMovements[n] - sentBack[n]),
         quantity' \in Nat,
         UNCHANGED <<numbered, undoable, sold, creditMoved>>
  PROVE  PurchaseInv'
<1>1. n \in PurchaseNumbers /\ OnFileWell(n)
  BY WellFiledCases
<1>2. back \in Nat /\ moved \in Int /\ cash \in Int
  BY DEF FinePurchase
<1>3. /\ PurchasesOnFile' = PurchasesOnFile /\ purchases'[n] = inv
      /\ \A m \in PurchasesOnFile : m # n => purchases'[m] = purchases[m]
  BY DEF PurchasesOnFile
<1>4. /\ sentBack' \in [PurchaseNumbers -> Nat] /\ sentBack'[n] = back
      /\ stockMovements' \in [PurchaseNumbers -> Int] /\ stockMovements'[n] = moved
      /\ cashEntries' \in [PurchaseNumbers -> Int] /\ cashEntries'[n] = cash
      /\ \A m \in PurchaseNumbers : m # n => /\ stockMovements'[m] = stockMovements[m]
                                             /\ cashEntries'[m] = cashEntries[m]
                                             /\ sentBack'[m] = sentBack[m]
  BY <1>1, <1>2, PurchaseTyped
<1>5. PurchaseTypes'
  BY <1>3, <1>4, PurchaseTyped DEF PurchaseTypes, PurchaseNumbers
<1>6. \A m \in PurchaseNumbers : m # n => Untouched(m)
  BY <1>3, <1>4 DEF Untouched
<1>7. WellFiled(n)'
  <2>1. n \in PurchasesOnFile' /\ n \notin DOMAIN undoable' /\ n <= numbered'
    BY <1>1, <1>3 DEF OnFileWell
  <2>2. FinePurchase(purchases'[n], sentBack'[n], stockMovements'[n], cashEntries'[n],
                     creditMoved'[n])
    BY <1>3, <1>4
  <2> QED BY <2>1, <2>2 DEF WellFiled, OnFileWell, FinePurchase
<1>8. Billed(n)' = Billed(n)
  BY <1>3 DEF Billed
<1>9. quantity' = quantity + (stockMovements'[n] - sentBack'[n])
                           - (stockMovements[n] - sentBack[n])
  BY <1>4
<1> QED BY <1>1, <1>5, <1>6, <1>7, <1>8, <1>9, OneNumber

(* What a handler may rely on for an invoice that is on file.              *)
LEMMA OnFileFacts ==
  ASSUME PurchaseInv, NEW n \in PurchasesOnFile
  PROVE  /\ FinePurchase(purchases[n], sentBack[n], stockMovements[n], cashEntries[n],
                         creditMoved[n])
         /\ n \in PurchaseNumbers /\ n <= numbered /\ n \notin DOMAIN undoable
         /\ purchases[n] \in Purchase /\ purchases[n].qty \in Nat
         /\ purchases[n].remaining \in Nat /\ purchases[n].over \in Nat
         /\ sentBack[n] \in Nat /\ cashEntries[n] \in Int /\ creditMoved[n] \in Int
         /\ stockMovements[n] = purchases[n].qty + sentBack[n]
<1>1. n \in PurchaseNumbers /\ OnFileWell(n)
  BY WellFiledCases
<1>2. FinePurchase(purchases[n], sentBack[n], stockMovements[n], cashEntries[n], creditMoved[n])
  BY <1>1 DEF OnFileWell
<1>3. /\ purchases[n] \in Purchase
      /\ sentBack[n] \in Nat /\ cashEntries[n] \in Int /\ creditMoved[n] \in Int
      /\ stockMovements[n] = purchases[n].qty + sentBack[n]
  BY <1>2 DEF FinePurchase
<1> QED BY <1>1, <1>2, <1>3, PurchaseFields DEF OnFileWell

(* Paying an invoice keeps the invariant.                                  *)
LEMMA PayKeeps ==
  ASSUME PurchaseInv, NEW n \in PurchasesOnFile, NEW amount \in Nat, Pay(n, amount)
  PROVE  PurchaseInv'
<1> DEFINE inv == purchases[n]
           cash == cashEntries[n] - amount
<1>1. /\ amount > 0 /\ amount <= inv.remaining
      /\ purchases' = [purchases EXCEPT ![n] = PaidMore(inv, amount)]
      /\ cashEntries' = [cashEntries EXCEPT ![n] = cash]
      /\ UNCHANGED <<numbered, undoable, sold, creditMoved>>
      /\ UNCHANGED <<sentBack, quantity, stockMovements>>
  BY DEF Pay, PaidMore
<1>2. /\ FinePurchase(inv, sentBack[n], stockMovements[n], cashEntries[n], creditMoved[n])
      /\ n \in PurchaseNumbers /\ inv.remaining \in Nat
      /\ cashEntries[n] \in Int /\ creditMoved[n] \in Int
  BY OnFileFacts
<1>3. /\ cash \in Int /\ creditMoved[n] - cash = creditMoved[n] - cashEntries[n] + amount
      /\ inv.remaining > 0
  BY <1>1, <1>2
<1>4. FinePurchase(PaidMore(inv, amount), sentBack[n], stockMovements[n], cash, creditMoved[n])
  BY <1>2, <1>3, PaidMoreFine
<1>5. PaidMore(inv, amount).supplier = inv.supplier
  BY <1>2, <1>3, PaidMoreFine
<1>6. /\ sentBack' = [sentBack EXCEPT ![n] = sentBack[n]]
      /\ stockMovements' = [stockMovements EXCEPT ![n] = stockMovements[n]]
      /\ quantity' = quantity + (stockMovements[n] - sentBack[n])
                              - (stockMovements[n] - sentBack[n])
      /\ quantity' \in Nat
  BY <1>1, <1>2, PurchaseTyped
<1> HIDE DEF cash
<1> QED BY <1>1, <1>4, <1>5, <1>6, OneOnFile

(* Editing an invoice of which nothing was sent back keeps the invariant.  *)
LEMMA EditPurchaseKeeps ==
  ASSUME PurchaseInv, NEW n \in PurchasesOnFile, NEW qty \in Nat, NEW price \in Prices,
         sentBack[n] = 0,
         Unwinds(Batch(purchases[n].qty, purchases[n].price), Batch(qty, price)),
         EditPurchase(n, qty, price)
  PROVE  PurchaseInv'
<1> DEFINE inv == purchases[n]
           other == [inv EXCEPT !.qty = qty, !.price = price]
<1>1. /\ purchases' = [purchases EXCEPT ![n] = SplitSpending(other)]
      /\ Restock(Batch(inv.qty, inv.price), Batch(qty, price))
      /\ stockMovements' = [stockMovements EXCEPT ![n] = qty]
      /\ UNCHANGED <<numbered, undoable, sold, creditMoved>>
      /\ UNCHANGED <<sentBack, cashEntries>>
  BY DEF EditPurchase, Edited, Replaced
<1>2. /\ FinePurchase(inv, sentBack[n], stockMovements[n], cashEntries[n], creditMoved[n])
      /\ n \in PurchaseNumbers /\ inv \in Purchase /\ inv.qty \in Nat
      /\ cashEntries[n] \in Int /\ creditMoved[n] \in Int
      /\ stockMovements[n] = inv.qty + sentBack[n]
  BY OnFileFacts
<1>3. /\ other \in Purchase /\ other.qty = qty /\ other.supplier = inv.supplier
      /\ Spending(other) = creditMoved[n] - cashEntries[n]
  BY <1>2 DEF Purchase, Spending, FinePurchase
<1> HIDE DEF other
<1>4. qty = other.qty + 0 /\ 0 \in Nat
  BY <1>3
<1>5. FinePurchase(SplitSpending(other), 0, qty, cashEntries[n], creditMoved[n])
  BY <1>2, <1>3, <1>4, SplitFine
<1>6. SplitSpending(other).supplier = inv.supplier
  BY <1>3, SplitKeepsSupplier
<1>7. inv.qty <= quantity
  BY DEF Unwinds, Batch
<1>8. quantity' = quantity - inv.qty + qty /\ quantity' \in Nat
  BY <1>1, <1>2, <1>7, PurchaseTyped DEF Restock, Batch, Pos
<1>9. /\ sentBack' = [sentBack EXCEPT ![n] = 0]
      /\ cashEntries' = [cashEntries EXCEPT ![n] = cashEntries[n]]
      /\ quantity' = quantity + (qty - 0) - (stockMovements[n] - sentBack[n])
  BY <1>1, <1>2, <1>8, PurchaseTyped
<1> QED BY <1>1, <1>5, <1>6, <1>8, <1>9, OneOnFile

(* Sending goods back to the supplier keeps the invariant.                 *)
LEMMA ReturnPurchaseKeeps ==
  ASSUME PurchaseInv, NEW n \in PurchasesOnFile, NEW qty \in Nat, ReturnPurchase(n, qty)
  PROVE  PurchaseInv'
<1> DEFINE inv == purchases[n]
           other == [inv EXCEPT !.qty = Pos(@ - qty)]
           back == sentBack[n] + qty
<1>1. /\ qty > 0 /\ qty <= inv.qty /\ qty <= quantity
      /\ purchases' = [purchases EXCEPT ![n] = SplitSpending(other)]
      /\ sentBack' = [sentBack EXCEPT ![n] = back]
      /\ Restock(Batch(qty, inv.price), Nothing)
      /\ UNCHANGED <<numbered, undoable, sold, creditMoved>>
      /\ UNCHANGED <<stockMovements, cashEntries>>
  BY DEF ReturnPurchase, Kept
<1>2. /\ FinePurchase(inv, sentBack[n], stockMovements[n], cashEntries[n], creditMoved[n])
      /\ n \in PurchaseNumbers /\ inv \in Purchase /\ inv.qty \in Nat /\ sentBack[n] \in Nat
      /\ cashEntries[n] \in Int /\ creditMoved[n] \in Int
      /\ stockMovements[n] = inv.qty + sentBack[n]
  BY OnFileFacts
<1>3. Pos(inv.qty - qty) = inv.qty - qty /\ inv.qty - qty \in Nat
  BY <1>1, <1>2 DEF Pos
<1>4. /\ other \in Purchase /\ other.qty = inv.qty - qty /\ other.supplier = inv.supplier
      /\ Spending(other) = creditMoved[n] - cashEntries[n]
  BY <1>2, <1>3 DEF Purchase, Spending, FinePurchase
<1> HIDE DEF other
<1>5. stockMovements[n] = other.qty + back /\ back \in Nat
  BY <1>2, <1>4
<1> HIDE DEF back
<1>6. FinePurchase(SplitSpending(other), back, stockMovements[n], cashEntries[n], creditMoved[n])
  BY <1>2, <1>4, <1>5, SplitFine
<1>7. SplitSpending(other).supplier = inv.supplier
  BY <1>4, SplitKeepsSupplier
<1>8. quantity' = quantity - qty /\ quantity' \in Nat
  BY <1>1, PurchaseTyped DEF Restock, Batch, Nothing, Pos
<1>9. /\ stockMovements' = [stockMovements EXCEPT ![n] = stockMovements[n]]
      /\ cashEntries' = [cashEntries EXCEPT ![n] = cashEntries[n]]
      /\ quantity' = quantity + (stockMovements[n] - back) - (stockMovements[n] - sentBack[n])
  BY <1>1, <1>2, <1>8, PurchaseTyped DEF back
<1> QED BY <1>1, <1>6, <1>7, <1>8, <1>9, OneOnFile

(* Deleting an invoice, with the snapshot that can undo it, keeps the      *)
(* invariant.                                                              *)
LEMMA DeletePurchaseKeeps ==
  ASSUME PurchaseInv, NEW n \in PurchasesOnFile,
         Unwinds(Batch(purchases[n].qty, purchases[n].price), Nothing), DeletePurchase(n)
  PROVE  PurchaseInv'
<1> DEFINE inv == purchases[n]
           snap == [invoice |-> inv, stockMovements |-> stockMovements[n],
                    cashEntries |-> cashEntries[n]]
<1>1. /\ sentBack[n] = 0
      /\ purchases' = Restrict(purchases, PurchasesOnFile \ {n})
      /\ undoable' = [m \in DOMAIN undoable \cup {n} |-> IF m = n THEN snap ELSE undoable[m]]
      /\ Restock(Batch(inv.qty, inv.price), Nothing)
      /\ stockMovements' = [stockMovements EXCEPT ![n] = 0]
      /\ cashEntries' = [cashEntries EXCEPT ![n] = 0]
      /\ UNCHANGED <<numbered, sentBack, sold, costOfSales, creditMoved>>
  BY DEF DeletePurchase
<1>2. /\ FinePurchase(inv, sentBack[n], stockMovements[n], cashEntries[n], creditMoved[n])
      /\ n \in PurchaseNumbers /\ n <= numbered /\ n \notin DOMAIN undoable
      /\ inv.qty \in Nat /\ stockMovements[n] = inv.qty + sentBack[n]
  BY OnFileFacts
<1>3. /\ PurchasesOnFile' = PurchasesOnFile \ {n} /\ DOMAIN undoable' = DOMAIN undoable \cup {n}
      /\ undoable'[n] = snap
      /\ \A m \in PurchasesOnFile : m # n => purchases'[m] = purchases[m]
      /\ \A m \in DOMAIN undoable : undoable'[m] = undoable[m]
  BY <1>1, <1>2 DEF PurchasesOnFile, Restrict
<1>4. /\ stockMovements' \in [PurchaseNumbers -> Int] /\ stockMovements'[n] = 0
      /\ cashEntries' \in [PurchaseNumbers -> Int] /\ cashEntries'[n] = 0
      /\ \A m \in PurchaseNumbers : m # n => /\ stockMovements'[m] = stockMovements[m]
                                             /\ cashEntries'[m] = cashEntries[m]
  BY <1>1, <1>2, PurchaseTyped
<1>5. inv.qty <= quantity
  BY DEF Unwinds, Batch
<1>6. quantity' = quantity - inv.qty /\ quantity' \in Nat
  BY <1>1, <1>2, <1>5, PurchaseTyped DEF Restock, Batch, Nothing, Pos
<1>7. PurchaseTypes'
  BY <1>1, <1>2, <1>3, <1>4, <1>6, PurchaseTyped DEF PurchaseTypes, PurchaseNumbers
<1>8. \A m \in PurchaseNumbers : m # n => Untouched(m)
  BY <1>1, <1>3, <1>4 DEF Untouched
<1>9. WellFiled(n)'
  <2>1. /\ n \notin PurchasesOnFile' /\ n \in DOMAIN undoable' /\ n <= numbered'
        /\ sentBack'[n] = 0 /\ stockMovements'[n] = 0 /\ cashEntries'[n] = 0
        /\ creditMoved'[n] = creditMoved[n]
    BY <1>1, <1>2, <1>3, <1>4
  <2>2. FinePurchase(inv, 0, stockMovements[n], cashEntries[n], creditMoved[n])
    BY <1>1, <1>2
  <2>3. FinePurchase(undoable'[n].invoice, 0, undoable'[n].stockMovements,
                     undoable'[n].cashEntries, creditMoved'[n])
    BY <1>3, <2>1, <2>2
  <2> QED BY <2>1, <2>3 DEF WellFiled, UndoableWell, NothingFiled, FinePurchase
<1>10. Billed(n)' = Billed(n)
  BY <1>2, <1>3 DEF Billed
<1>11. quantity' = quantity + (stockMovements'[n] - sentBack'[n])
                            - (stockMovements[n] - sentBack[n])
  BY <1>1, <1>2, <1>4, <1>6, PurchaseTyped
<1> QED BY <1>1, <1>2, <1>7, <1>8, <1>9, <1>10, <1>11, OneNumber

(* Undoing a deletion keeps the invariant.                                 *)
LEMMA RestorePurchaseKeeps ==
  ASSUME PurchaseInv, NEW n \in DOMAIN undoable, RestorePurchase(n)
  PROVE  PurchaseInv'
<1> DEFINE snap == undoable[n]
<1>1. /\ n \notin PurchasesOnFile
      /\ purchases' = [m \in PurchasesOnFile \cup {n} |->
                         IF m = n THEN snap.invoice ELSE purchases[m]]
      /\ undoable' = Restrict(undoable, DOMAIN undoable \ {n})
      /\ quantity' = quantity + snap.invoice.qty
      /\ stockMovements' = [stockMovements EXCEPT ![n] = stockMovements[n] + snap.stockMovements]
      /\ cashEntries' = [cashEntries EXCEPT ![n] = cashEntries[n] + snap.cashEntries]
      /\ UNCHANGED <<numbered, sentBack, sold, creditMoved>>
  BY DEF RestorePurchase
<1>2. /\ n \in PurchaseNumbers /\ n <= numbered
      /\ FinePurchase(snap.invoice, 0, snap.stockMovements, snap.cashEntries, creditMoved[n])
      /\ sentBack[n] = 0 /\ stockMovements[n] = 0 /\ cashEntries[n] = 0
  BY WellFiledCases DEF UndoableWell, NothingFiled
<1>3. /\ snap.invoice.qty \in Nat /\ snap.cashEntries \in Int
      /\ snap.stockMovements = snap.invoice.qty /\ snap.stockMovements \in Int
  <2>1. /\ snap.invoice \in Purchase /\ snap.cashEntries \in Int /\ snap.stockMovements \in Int
        /\ snap.stockMovements = snap.invoice.qty + 0
    BY <1>2 DEF FinePurchase
  <2>2. snap.invoice.qty \in Nat
    BY <2>1, PurchaseFields
  <2> QED BY <2>1, <2>2
<1>4. /\ PurchasesOnFile' = PurchasesOnFile \cup {n} /\ DOMAIN undoable' = DOMAIN undoable \ {n}
      /\ purchases'[n] = snap.invoice
      /\ \A m \in PurchasesOnFile : purchases'[m] = purchases[m]
      /\ \A m \in DOMAIN undoable : m # n => undoable'[m] = undoable[m]
  BY <1>1 DEF PurchasesOnFile, Restrict
<1>5. /\ stockMovements' \in [PurchaseNumbers -> Int]
      /\ stockMovements'[n] = snap.stockMovements
      /\ cashEntries' \in [PurchaseNumbers -> Int] /\ cashEntries'[n] = snap.cashEntries
      /\ \A m \in PurchaseNumbers : m # n => /\ stockMovements'[m] = stockMovements[m]
                                             /\ cashEntries'[m] = cashEntries[m]
  <2>1. /\ stockMovements[n] + snap.stockMovements = snap.stockMovements
        /\ cashEntries[n] + snap.cashEntries = snap.cashEntries
    BY <1>2, <1>3
  <2> HIDE DEF snap
  <2> QED BY <1>1, <1>2, <1>3, <2>1, PurchaseTyped
<1>6. PurchaseTypes'
  <2>1. quantity' \in Nat
    BY <1>1, <1>3, PurchaseTyped
  <2> QED BY <1>1, <1>2, <1>4, <1>5, <2>1, PurchaseTyped DEF PurchaseTypes, PurchaseNumbers
<1>7. \A m \in PurchaseNumbers : m # n => Untouched(m)
  BY <1>1, <1>4, <1>5 DEF Untouched
<1>8. WellFiled(n)'
  <2>1. /\ n \in PurchasesOnFile' /\ n \notin DOMAIN undoable' /\ n <= numbered'
        /\ sentBack'[n] = 0 /\ creditMoved'[n] = creditMoved[n]
    BY <1>1, <1>2, <1>4
  <2>2. FinePurchase(purchases'[n], sentBack'[n], stockMovements'[n], cashEntries'[n],
                     creditMoved'[n])
    BY <1>2, <1>4, <1>5, <2>1
  <2> QED BY <2>1, <2>2 DEF WellFiled, OnFileWell, FinePurchase
<1>9. Billed(n)' = Billed(n)
  BY <1>1, <1>4 DEF Billed
<1>10. quantity' = quantity + (stockMovements'[n] - sentBack'[n])
                            - (stockMovements[n] - sentBack[n])
  BY <1>1, <1>2, <1>3, <1>5, PurchaseTyped
<1> QED BY <1>1, <1>2, <1>6, <1>7, <1>8, <1>9, <1>10, OneNumber

(* A sale of one unit keeps the invariant.                                 *)
LEMMA SellOneKeeps == PurchaseInv /\ SellOne => PurchaseInv'
<1> SUFFICES ASSUME PurchaseInv, SellOne PROVE PurchaseInv'
  OBVIOUS
<1>1. /\ quantity > 0 /\ sold < MaxSold /\ quantity' = quantity - 1 /\ sold' = sold + 1
      /\ UNCHANGED <<numbered, purchases, sentBack, stockMovements, cashEntries, undoable,
                     creditMoved>>
  BY DEF SellOne
<1>2. PurchaseTypes'
  <2>1. quantity' \in Nat /\ sold' \in 0 .. MaxSold
    BY <1>1, PurchaseTyped, PurchaseAssumption
  <2> QED BY <1>1, <2>1, PurchaseTyped DEF PurchaseTypes, PurchaseNumbers, PurchasesOnFile
<1>3. \A n \in PurchaseNumbers : WellFiled(n)'
  BY <1>1, PurchaseTyped DEF WellFiled, OnFileWell, UndoableWell, NeverIssued, NothingFiled,
     PurchasesOnFile, FinePurchase
<1>4. PurchasesExplainStock'
  <2> DEFINE came == SumFunctionOnSet(stockMovements, PurchaseNumbers)
             left == SumFunctionOnSet(sentBack, PurchaseNumbers)
  <2>1. /\ \A n \in PurchaseNumbers : stockMovements[n] \in Int
        /\ \A n \in PurchaseNumbers : sentBack[n] \in Int
    BY PurchaseTyped
  <2>2. came \in Int /\ left \in Int
    BY <2>1, PurchaseNumbersFinite, SumInt
  <2>3. quantity = OpeningUnits + came - left - sold
    BY DEF PurchaseInv, PurchasesExplainStock
  <2> HIDE DEF came, left
  <2>4. quantity' = OpeningUnits + came - left - sold'
    BY <1>1, <2>2, <2>3, PurchaseTyped, PurchaseAssumption
  <2> QED BY <1>1, <2>4 DEF PurchasesExplainStock, PurchaseNumbers, came, left
<1>5. SuppliersBalance'
  BY <1>1 DEF PurchaseInv, SuppliersBalance, BilledBy, Billed, PurchasesOnFile
<1> QED BY <1>2, <1>3, <1>4, <1>5 DEF PurchaseInv, PurchaseNumbers

(* Settling a supplier's dues from the supplier's credit keeps the         *)
(* invariant.                                                              *)
LEMMA SettleSupplierKeeps ==
  ASSUME PurchaseInv, NEW s \in Suppliers, SettleSupplierDues(s)
  PROVE  PurchaseInv'
<1> DEFINE sources == CreditFrom(s)
           targets == OwedTo(s)
           pool == SumFunctionOnSet(Credit(purchases), sources)
           gain == Applied(purchases, targets, pool)
           amount == SumFunctionOnSet(gain, targets)
           loss == Spent(purchases, sources, amount)
           moved == [n \in PurchaseNumbers |->
                       creditMoved[n] + (IF n \in PurchasesOnFile THEN gain[n] - loss[n] ELSE 0)]
<1>1. /\ purchases' = [n \in PurchasesOnFile |->
                         IF n \in targets THEN PaidMore(purchases[n], gain[n])
                         ELSE [purchases[n] EXCEPT !.over = @ - loss[n]]]
      /\ creditMoved' = moved
      /\ UNCHANGED <<numbered, sentBack, quantity, stockMovements, cashEntries, undoable, sold>>
  BY DEF SettleSupplierDues, PaidMore
<1>2. \A n \in PurchasesOnFile :
        /\ FinePurchase(purchases[n], sentBack[n], stockMovements[n], cashEntries[n],
                        creditMoved[n])
        /\ n \in PurchaseNumbers /\ n <= numbered /\ n \notin DOMAIN undoable
        /\ purchases[n].remaining \in Nat /\ purchases[n].over \in Nat
        /\ cashEntries[n] \in Int /\ creditMoved[n] \in Int
  BY OnFileFacts
<1>3. /\ sources \subseteq PurchasesOnFile /\ targets \subseteq PurchasesOnFile
      /\ \A n \in sources \cup targets : purchases[n].supplier = s
      /\ \A n \in targets : purchases[n].remaining > 0
      /\ \A n \in sources : purchases[n].over > 0
  BY DEF CreditFrom, OwedTo, From
<1>4. \A n \in targets : n \notin sources
  <2> SUFFICES ASSUME NEW n \in targets, n \in sources PROVE FALSE
    OBVIOUS
  <2>1. purchases[n].remaining = 0 \/ purchases[n].over = 0
    BY <1>2, <1>3 DEF FinePurchase
  <2> QED BY <1>2, <1>3, <2>1
<1> HIDE DEF sources, targets
<1>5. /\ DOMAIN purchases = PurchasesOnFile /\ PurchasesOnFile \subseteq PurchaseNumbers
      /\ IsFiniteSet(DOMAIN purchases) /\ DOMAIN purchases \subseteq Int
      /\ IsFiniteSet(sources)
      /\ sources \subseteq DOMAIN purchases /\ targets \subseteq DOMAIN purchases
  <2>1. DOMAIN purchases = PurchasesOnFile
    BY DEF PurchasesOnFile
  <2>2. PurchasesOnFile \subseteq PurchaseNumbers
    BY PurchaseTyped
  <2>3. IsFiniteSet(PurchasesOnFile)
    BY <2>2, PurchaseNumbersFinite, FS_Subset
  <2>4. IsFiniteSet(sources)
    BY <1>3, <2>3, FS_Subset
  <2> QED BY <1>3, <2>1, <2>2, <2>3, <2>4, PurchaseNumbersFinite
<1>6. pool \in Nat
  <2> DEFINE f == Credit(purchases)
  <2>1. \A n \in sources : f[n] \in Nat
    BY <1>2, <1>3, <1>5 DEF Credit
  <2> HIDE DEF f
  <2>2. SumFunctionOnSet(f, sources) \in Nat
    BY <1>5, <2>1, SumNat
  <2> QED BY <2>2 DEF f
<1> HIDE DEF pool
<1>7. /\ amount \in Nat /\ amount <= pool
      /\ \A n \in PurchasesOnFile : gain[n] \in Nat
      /\ \A n \in PurchasesOnFile \ targets : gain[n] = 0
  <2>1. \A n \in targets : purchases[n].remaining \in Nat
    BY <1>2, <1>3
  <2>2. /\ SumFunctionOnSet(Applied(purchases, targets, pool), targets) \in Nat
        /\ SumFunctionOnSet(Applied(purchases, targets, pool), targets) <= pool
        /\ \A n \in DOMAIN purchases : Applied(purchases, targets, pool)[n] \in Nat
        /\ \A n \in DOMAIN purchases \ targets : Applied(purchases, targets, pool)[n] = 0
    BY <1>5, <1>6, <2>1, AppliedAtMost
  <2> QED BY <1>5, <2>2
<1> HIDE DEF amount
<1>8. /\ SumFunctionOnSet(loss, sources) = amount
      /\ \A n \in PurchasesOnFile : loss[n] \in Nat
      /\ \A n \in sources : loss[n] <= purchases[n].over
      /\ \A n \in PurchasesOnFile \ sources : loss[n] = 0
  <2>1. \A n \in sources : purchases[n].over \in Nat
    BY <1>2, <1>3
  <2>2. amount <= SumFunctionOnSet(Credit(purchases), sources)
    BY <1>7 DEF pool
  <2>3. /\ SumFunctionOnSet(Spent(purchases, sources, amount), sources) = amount
        /\ \A n \in DOMAIN purchases : Spent(purchases, sources, amount)[n] \in Nat
        /\ \A n \in sources : Spent(purchases, sources, amount)[n] <= purchases[n].over
        /\ \A n \in DOMAIN purchases \ sources : Spent(purchases, sources, amount)[n] = 0
    BY <1>5, <1>7, <2>1, <2>2, SpentInFull
  <2> QED BY <1>5, <2>3
<1>9. SumFunctionOnSet(gain, targets) = SumFunctionOnSet(loss, sources)
  BY <1>8 DEF amount
<1> HIDE DEF gain, loss
<1>10. moved \in [PurchaseNumbers -> Int]
  <2>1. \A n \in PurchasesOnFile : gain[n] \in Int /\ loss[n] \in Int
    BY <1>7, <1>8
  <2> QED BY <2>1, PurchaseTyped
<1>11. \A n \in PurchasesOnFile :
         /\ moved[n] = creditMoved[n] + (gain[n] - loss[n])
         /\ n \in targets => loss[n] = 0
         /\ n \notin targets => gain[n] = 0
  BY <1>4, <1>5, <1>7, <1>8
<1>12. \A n \in PurchaseNumbers : n \notin PurchasesOnFile => moved[n] = creditMoved[n]
  BY PurchaseTyped
<1> HIDE DEF moved
<1>13. PurchasesOnFile' = PurchasesOnFile
  BY <1>1 DEF PurchasesOnFile
<1>14. \A n \in PurchasesOnFile :
         /\ FinePurchase(purchases'[n], sentBack[n], stockMovements[n], cashEntries[n], moved[n])
         /\ purchases'[n].supplier = purchases[n].supplier
  <2> SUFFICES ASSUME NEW n \in PurchasesOnFile
               PROVE  /\ FinePurchase(purchases'[n], sentBack[n], stockMovements[n],
                                      cashEntries[n], moved[n])
                      /\ purchases'[n].supplier = purchases[n].supplier
    OBVIOUS
  <2>1. /\ FinePurchase(purchases[n], sentBack[n], stockMovements[n], cashEntries[n],
                        creditMoved[n])
        /\ purchases[n].over \in Nat
        /\ cashEntries[n] \in Int /\ creditMoved[n] \in Int
        /\ gain[n] \in Nat /\ loss[n] \in Nat
        /\ moved[n] = creditMoved[n] + (gain[n] - loss[n])
    BY <1>2, <1>7, <1>8, <1>11
  <2>2. CASE n \in targets
    <3>1. purchases[n].remaining > 0 /\ loss[n] = 0
      BY <1>3, <1>11, <2>2
    <3>2. moved[n] \in Int /\ moved[n] - cashEntries[n] = creditMoved[n] - cashEntries[n] + gain[n]
      BY <2>1, <3>1
    <3>3. FinePurchase(PaidMore(purchases[n], gain[n]), sentBack[n], stockMovements[n],
                       cashEntries[n], moved[n])
      BY <2>1, <3>1, <3>2, PaidMoreFine
    <3>4. PaidMore(purchases[n], gain[n]).supplier = purchases[n].supplier
      BY <2>1, <3>1, <3>2, PaidMoreFine
    <3>5. purchases'[n] = PaidMore(purchases[n], gain[n])
      BY <1>1, <2>2
    <3> QED BY <3>3, <3>4, <3>5
  <2>3. CASE n \notin targets
    <3>1. gain[n] = 0 /\ moved[n] = creditMoved[n] - loss[n]
      BY <1>11, <2>1, <2>3
    <3>2. loss[n] <= purchases[n].over
      <4>1. CASE n \in sources
        BY <1>8, <4>1
      <4>2. CASE n \notin sources
        BY <1>8, <2>1, <4>2
      <4> QED BY <4>1, <4>2
    <3>3. FinePurchase([purchases[n] EXCEPT !.over = @ - loss[n]], sentBack[n],
                       stockMovements[n], cashEntries[n], creditMoved[n] - loss[n])
      BY <2>1, <3>2, LessCreditFine
    <3>4. [purchases[n] EXCEPT !.over = @ - loss[n]].supplier = purchases[n].supplier
      BY <2>1, <3>2, LessCreditFine
    <3>5. purchases'[n] = [purchases[n] EXCEPT !.over = @ - loss[n]]
      BY <1>1, <2>3
    <3> QED BY <3>1, <3>3, <3>4, <3>5
  <2> QED BY <2>2, <2>3
<1>15. PurchaseTypes'
  BY <1>1, <1>10, <1>13, PurchaseTyped DEF PurchaseTypes, PurchaseNumbers
<1>16. \A n \in PurchaseNumbers : WellFiled(n)'
  <2> SUFFICES ASSUME NEW n \in PurchaseNumbers PROVE WellFiled(n)'
    OBVIOUS
  <2>1. CASE n \in PurchasesOnFile
    <3>1. /\ n \in PurchasesOnFile' /\ n \notin DOMAIN undoable' /\ n <= numbered'
          /\ FinePurchase(purchases'[n], sentBack'[n], stockMovements'[n], cashEntries'[n],
                          creditMoved'[n])
      BY <1>1, <1>2, <1>13, <1>14, <2>1
    <3> QED BY <3>1 DEF WellFiled, OnFileWell, FinePurchase
  <2>2. CASE n \notin PurchasesOnFile
    <3>1. Untouched(n)
      BY <1>1, <1>12, <1>13, <2>2 DEF Untouched
    <3>2. WellFiled(n)
      BY PurchaseTyped
    <3>3. /\ n <= numbered <=> n <= numbered'
          /\ n > numbered <=> n > numbered'
      BY <1>1
    <3> QED BY <3>1, <3>2, <3>3, UntouchedWell
  <2> QED BY <2>1, <2>2
<1>17. PurchasesExplainStock'
  BY <1>1 DEF PurchaseInv, PurchasesExplainStock, PurchaseNumbers
<1>18. SuppliersBalance'
  <2> SUFFICES ASSUME NEW t \in Suppliers
               PROVE  SumFunctionOnSet(moved, BilledBy(t)') = 0
    BY <1>1 DEF SuppliersBalance
  <2> DEFINE S == BilledBy(t)
  <2>1. BilledBy(t)' = S
    <3>1. \A n \in 1 .. numbered : Billed(n)' = Billed(n)
      BY <1>1, <1>13, <1>14 DEF Billed
    <3> QED BY <1>1, <3>1 DEF BilledBy
  <2>2. S \subseteq PurchaseNumbers /\ IsFiniteSet(S)
    <3>1. S \subseteq PurchaseNumbers
      BY WellFiledCases DEF BilledBy
    <3> HIDE DEF S
    <3> QED BY <3>1, PurchaseNumbersFinite, FS_Subset
  <2>3. \A n \in sources \cup targets : n \in 1 .. numbered /\ Billed(n) = s
    BY <1>3, WellFiledCases DEF Billed
  <2> DEFINE A == targets \cap S
             B == sources \cap S
             up == [n \in PurchaseNumbers |-> IF n \in PurchasesOnFile THEN gain[n] ELSE 0]
             down == [n \in PurchaseNumbers |-> IF n \in PurchasesOnFile THEN loss[n] ELSE 0]
  <2>4. /\ t = s => A = targets /\ B = sources
        /\ t # s => A = {} /\ B = {}
    BY <2>3 DEF BilledBy
  <2>5. SumFunctionOnSet(up, A) = SumFunctionOnSet(down, B)
    <3>1. CASE t = s
      <4>1. IsFiniteSet(targets) /\ IsFiniteSet(sources)
        BY <1>5, FS_Subset
      <4>2. /\ \A n \in targets : up[n] = gain[n]
            /\ \A n \in sources : down[n] = loss[n]
        BY <1>3, <1>5
      <4> HIDE DEF up, down
      <4>3. SumFunctionOnSet(up, targets) = SumFunctionOnSet(gain, targets)
        BY <4>1, <4>2, SumSame
      <4>4. SumFunctionOnSet(down, sources) = SumFunctionOnSet(loss, sources)
        BY <4>1, <4>2, SumSame
      <4> QED BY <1>9, <2>4, <3>1, <4>3, <4>4
    <3>2. CASE t # s
      <4> HIDE DEF up, down, A, B
      <4> QED BY <2>4, <3>2, SumEmpty
    <3> QED BY <3>1, <3>2
  <2>6. /\ \A n \in S : up[n] \in Int
        /\ \A n \in S : down[n] \in Int
        /\ \A n \in S \ A : up[n] = 0
        /\ \A n \in S \ B : down[n] = 0
    BY <1>7, <1>8, <2>2
  <2>7. \A n \in S : moved[n] = creditMoved[n] + (up[n] - down[n])
    <3> SUFFICES ASSUME NEW n \in S PROVE moved[n] = creditMoved[n] + (up[n] - down[n])
      OBVIOUS
    <3>1. n \in PurchaseNumbers /\ creditMoved[n] \in Int
      BY <2>2, PurchaseTyped
    <3>2. CASE n \in PurchasesOnFile
      BY <1>11, <3>1, <3>2
    <3>3. CASE n \notin PurchasesOnFile
      BY <1>12, <3>1, <3>3
    <3> QED BY <3>2, <3>3
  <2>8. A \subseteq S /\ B \subseteq S /\ \A n \in S : creditMoved[n] \in Int
    BY <2>2, PurchaseTyped
  <2>9. SumFunctionOnSet(creditMoved, S) = 0
    BY DEF PurchaseInv, SuppliersBalance
  <2> HIDE DEF S, A, B, up, down
  <2>10. SumFunctionOnSet(moved, S) = SumFunctionOnSet(creditMoved, S)
    BY <2>2, <2>5, <2>6, <2>7, <2>8, SumOfTransfer
  <2> QED BY <2>1, <2>9, <2>10
<1> QED BY <1>15, <1>16, <1>17, <1>18 DEF PurchaseInv, PurchaseNumbers

---------------------------------------------------------------------------
(* Fractions                                                               *)

(* A number that leaves no remainder is the divisor times its quotient.    *)
LEMMA Divided ==
  \A n \in Nat, k \in Nat \ {0} : n % k = 0 => n \div k \in Nat /\ n = k * (n \div k)
OBVIOUS

(* A factor that is not zero can be cancelled.                             *)
LEMMA CancelFactor ==
  \A x, y \in Int, k \in Nat \ {0} : k * x = k * y => x = y
OBVIOUS

(* The common factor is one, and no other is greater.                      *)
LEMMA CommonFactor ==
  ASSUME NEW num \in Nat, NEW den \in Nat \ {0}
  PROVE  LET common == {k \in 1 .. den : num % k = 0 /\ den % k = 0}
         IN  Max(common) \in common /\ \A k \in common : k <= Max(common)
<1> DEFINE common == {k \in 1 .. den : num % k = 0 /\ den % k = 0}
<1>1. IsFiniteSet(common)
  <2>1. IsFiniteSet(1 .. den) /\ common \subseteq 1 .. den
    BY FS_Interval
  <2> HIDE DEF common
  <2> QED BY <2>1, FS_Subset
<1>2. common \subseteq Int /\ common # {}
  <2>1. num % 1 = 0 /\ den % 1 = 0
    OBVIOUS
  <2>2. 1 \in common
    BY <2>1
  <2> QED BY <2>2
<1>3. \E m \in common : \A k \in common : k <= m
  <2> HIDE DEF common
  <2> QED BY <1>1, <1>2, GreatestNumber
<1>4. Max(common) \in common /\ \A k \in common : k <= Max(common)
  <2> HIDE DEF common
  <2>1. Max(common) = CHOOSE m \in common : \A k \in common : m >= k
    BY DEF Max
  <2>2. \E m \in common : \A k \in common : m >= k
    BY <1>2, <1>3
  <2>3. Max(common) \in common /\ \A k \in common : Max(common) >= k
    BY <2>1, <2>2
  <2> QED BY <1>2, <2>3
<1> QED BY <1>4

(* A fraction in lowest terms is worth what it was made of.                *)
LEMMA FractionWorth ==
  ASSUME NEW num \in Nat, NEW den \in Nat \ {0}
  PROVE  /\ Fraction(num, den).num \in Nat /\ Fraction(num, den).den \in Nat \ {0}
         /\ Fraction(num, den).num * den = num * Fraction(num, den).den
<1> DEFINE common == {k \in 1 .. den : num % k = 0 /\ den % k = 0}
           g == Max(common)
           a == num \div g
           b == den \div g
<1>1. g \in common
  <2> HIDE DEF g
  <2> QED BY CommonFactor DEF g
<1>2. g \in Nat \ {0} /\ num % g = 0 /\ den % g = 0
  <2> HIDE DEF g
  <2> QED BY <1>1
<1>3. Fraction(num, den) = [num |-> a, den |-> b]
  BY DEF Fraction
<1> HIDE DEF g
<1>4. a \in Nat /\ num = g * a /\ b \in Nat /\ den = g * b
  BY <1>2, Divided
<1> HIDE DEF a, b
<1>5. b # 0
  BY <1>2, <1>4
<1>6. a * den = num * b
  <2>1. a * (g * b) = (g * a) * b
    BY <1>2, <1>4
  <2> QED BY <1>4, <2>1
<1> QED BY <1>3, <1>4, <1>5, <1>6

(* A fraction worth a whole number is that number over one.                *)
LEMMA WholeFraction ==
  ASSUME NEW whole \in Nat, NEW den \in Nat \ {0}
  PROVE  Fraction(whole * den, den) = [num |-> whole, den |-> 1]
<1> DEFINE num == whole * den
           common == {k \in 1 .. den : num % k = 0 /\ den % k = 0}
           g == Max(common)
<1>1. num \in Nat
  BY CostNat
<1>2. num % den = 0 /\ den % den = 0 /\ num \div den = whole /\ den \div den = 1
  <2>1. num = den * whole + 0
    OBVIOUS
  <2> QED OBVIOUS
<1> HIDE DEF num
<1>3. den \in common
  BY <1>2
<1>4. g \in common /\ \A k \in common : k <= g
  <2> HIDE DEF g
  <2> QED BY <1>1, CommonFactor DEF g
<1>5. g = den
  <2> HIDE DEF g
  <2> QED BY <1>3, <1>4
<1>6. Fraction(num, den) = [num |-> num \div g, den |-> den \div g]
  BY DEF Fraction
<1> HIDE DEF g
<1> QED BY <1>2, <1>5, <1>6 DEF num

---------------------------------------------------------------------------
(* The value of the shelf and of what was sold                             *)

Proper(f) == f.num \in Nat /\ f.den \in Nat \ {0}

(* Units at a cost, and the cost of units sold, come to a whole total.     *)
Worth(units, cost, spent, total) ==
  (units * cost.num) * spent.den + spent.num * cost.den = total * (cost.den * spent.den)

CostOnFile ==
  [n \in PurchaseNumbers |-> IF n \in PurchasesOnFile THEN Cost(purchases[n]) ELSE 0]

Bought == OpeningUnits * OpeningCost + SumFunctionOnSet(CostOnFile, PurchaseNumbers)

CostInv ==
  /\ Proper(avgCost) /\ Proper(costOfSales)
  /\ Worth(quantity, avgCost, costOfSales, Bought)

(* What was bought, and what it cost, are numbers that are not negative.   *)
LEMMA BoughtNat ==
  ASSUME PurchaseInv
  PROVE  /\ \A n \in PurchaseNumbers : CostOnFile[n] \in Nat
         /\ SumFunctionOnSet(CostOnFile, PurchaseNumbers) \in Nat
         /\ OpeningUnits * OpeningCost \in Nat
         /\ Bought \in Nat
<1>1. \A n \in PurchasesOnFile : Cost(purchases[n]) \in Nat
  BY OnFileFacts, PurchaseFields
<1> DEFINE f == CostOnFile
<1>2. \A n \in PurchaseNumbers : f[n] \in Nat
  BY <1>1 DEF CostOnFile
<1> HIDE DEF f
<1>3. SumFunctionOnSet(f, PurchaseNumbers) \in Nat
  BY <1>2, PurchaseNumbersFinite, SumNat
<1>4. OpeningUnits * OpeningCost \in Nat
  BY PurchaseAssumption, CostNat
<1>5. Bought = OpeningUnits * OpeningCost + SumFunctionOnSet(f, PurchaseNumbers)
  BY DEF Bought, f
<1>6. Bought \in Nat
  BY <1>3, <1>4, <1>5
<1> QED BY <1>2, <1>3, <1>4, <1>6 DEF f


(* applyWeightedAverageCostDelta keeps the worth of the books.             *)
LEMMA RestockWorth ==
  ASSUME PurchaseInv, CostInv, NEW remove, NEW add,
         remove.qty \in Nat, remove.value \in Nat, add.qty \in Nat, add.value \in Nat,
         add.qty = 0 => add.value = 0,
         Unwinds(remove, add), Restock(remove, add), costOfSales' = costOfSales,
         Bought' = Bought - remove.value + add.value
  PROVE  CostInv'
<1> DEFINE q == quantity
           a == avgCost.num
           b == avgCost.den
           c == costOfSales.num
           d == costOfSales.den
           value == q * a - remove.value * b + add.value * b
           after == q - remove.qty + add.qty
<1>1. /\ q \in Nat /\ a \in Nat /\ b \in Nat \ {0} /\ c \in Nat /\ d \in Nat \ {0}
      /\ Bought \in Int
      /\ (q * a) * d + c * b = Bought * (b * d)
      /\ remove.value \in Int /\ add.value \in Int
  BY PurchaseTyped, BoughtNat DEF CostInv, Proper, Worth
<1>2. /\ remove.qty <= q /\ q * a - remove.value * b >= 0
      /\ remove.qty = q /\ add.qty = 0 => q * a - remove.value * b = 0
  BY DEF Unwinds
<1>3. quantity' = after /\ after \in Nat
  <2>1. quantity' = Pos(after)
    BY DEF Restock
  <2>2. \A n \in Nat : Pos(n) = n
    BY DEF Pos
  <2> HIDE DEF q
  <2>3. after \in Nat
    BY <1>1, <1>2
  <2> HIDE DEF after
  <2> QED BY <2>1, <2>2, <2>3
<1>4. /\ Pos(q - remove.qty) = q - remove.qty
      /\ Pos(q * a - remove.value * b) = q * a - remove.value * b
  <2>1. q * a \in Int /\ remove.value * b \in Int
    BY <1>1
  <2>2. q * a - remove.value * b \in Int
    BY <2>1
  <2>3. q - remove.qty >= 0 /\ q - remove.qty \in Int
    BY <1>1, <1>2
  <2>4. \A n \in Int : n >= 0 => Pos(n) = n
    BY DEF Pos
  <2> QED BY <1>2, <2>2, <2>3, <2>4
<1>5. avgCost' = IF after > 0 THEN Fraction(value, b * after) ELSE avgCost
  BY <1>4 DEF Restock, AverageCost
<1>6. value \in Nat
  <2>1. add.value * b \in Nat
    BY <1>1, CostNat
  <2>2. q * a - remove.value * b \in Int
    BY <1>1
  <2> QED BY <1>2, <2>1, <2>2
<1>7. Proper(costOfSales')
  BY DEF CostInv
<1> HIDE DEF q, a, b, c, d, value, after
<1>8. CASE after > 0
  <2> DEFINE f == Fraction(value, b * after)
  <2>1. b * after \in Nat \ {0} /\ after \in Nat \ {0}
    BY <1>1, <1>3, <1>8
  <2>2. /\ f.num \in Nat /\ f.den \in Nat \ {0}
        /\ f.num * (b * after) = value * f.den
    BY <1>6, <2>1, FractionWorth
  <2> HIDE DEF f
  <2>3. (after * f.num) * d + c * f.den = (Bought - remove.value + add.value) * (f.den * d)
    <3> DEFINE out == remove.value
               in == add.value
               x == f.num
               y == f.den
               total == Bought
    <3>1. /\ q \in Int /\ a \in Int /\ b \in Int /\ c \in Int /\ d \in Int /\ total \in Int
          /\ out \in Int /\ in \in Int /\ x \in Int /\ y \in Int /\ after \in Int /\ value \in Int
      BY <1>1, <1>6, <2>1, <2>2
    <3>2. /\ value = q * a - out * b + in * b /\ x * (b * after) = value * y
          /\ (q * a) * d + c * b = total * (b * d) /\ b \in Nat \ {0}
      BY <1>1, <2>2 DEF value
    <3> HIDE DEF out, in, x, y, total
    <3>3. b * ((after * x) * d) = (x * (b * after)) * d
      BY <3>1
    <3>4. (x * (b * after)) * d = (value * y) * d
      BY <3>2
    <3>5. (value * y) * d = ((q * a) * d) * y + ((in - out) * b) * (y * d)
      <4>1. (q * a - out * b + in * b) * y * d = ((q * a) * d) * y + ((in - out) * b) * (y * d)
        BY <3>1
      <4> QED BY <3>2, <4>1
    <3>6. ((q * a) * d) * y = (total * (b * d) - c * b) * y
      <4>1. (q * a) * d \in Int /\ c * b \in Int /\ total * (b * d) \in Int
        BY <3>1
      <4>2. (q * a) * d = total * (b * d) - c * b
        BY <3>2, <4>1
      <4> QED BY <4>2
    <3>7. (total * (b * d) - c * b) * y = b * (total * (y * d)) - b * (c * y)
      BY <3>1
    <3>8. ((in - out) * b) * (y * d) = b * ((in - out) * (y * d))
      BY <3>1
    <3>9. b * ((after * x) * d) = b * (total * (y * d)) - b * (c * y) + b * ((in - out) * (y * d))
      BY <3>3, <3>4, <3>5, <3>6, <3>7, <3>8
    <3>10. /\ b * ((after * x) * d + c * y) = b * ((after * x) * d) + b * (c * y)
           /\ b * ((total - out + in) * (y * d)) = b * (total * (y * d)) + b * ((in - out) * (y * d))
      BY <3>1
    <3>11. /\ b * ((after * x) * d) \in Int /\ b * (total * (y * d)) \in Int
           /\ b * (c * y) \in Int /\ b * ((in - out) * (y * d)) \in Int
      BY <3>1
    <3>12. b * ((after * x) * d + c * y) = b * ((total - out + in) * (y * d))
      BY <3>9, <3>10, <3>11
    <3>13. (after * x) * d + c * y \in Int /\ (total - out + in) * (y * d) \in Int
      BY <3>1
    <3>14. (after * x) * d + c * y = (total - out + in) * (y * d)
      BY <3>2, <3>12, <3>13, CancelFactor
    <3> QED BY <3>14 DEF out, in, x, y, total
  <2>4. avgCost' = f
    BY <1>5, <1>8 DEF f
  <2>5. Proper(avgCost')
    BY <2>2, <2>4 DEF Proper
  <2>6. Worth(quantity', avgCost', costOfSales', Bought')
    BY <1>3, <2>3, <2>4 DEF Worth, c, d
  <2> QED BY <1>7, <2>5, <2>6 DEF CostInv
<1>9. CASE ~(after > 0)
  <2>1. after = 0
    BY <1>3, <1>9
  <2>2. add.qty = 0 /\ remove.qty = q
    <3>1. q - remove.qty + add.qty = 0
      BY <2>1 DEF after
    <3>2. q \in Nat
      BY <1>1
    <3>3. remove.qty <= q
      BY <1>2
    <3>4. \A m, k, l \in Nat : k <= m /\ m - k + l = 0 => l = 0 /\ k = m
      OBVIOUS
    <3> QED BY <3>1, <3>2, <3>3, <3>4
  <2>3. q * a = remove.value * b /\ add.value = 0
    <3>1. q * a \in Int /\ remove.value * b \in Int
      BY <1>1
    <3> QED BY <1>2, <2>2, <3>1
  <2>4. avgCost' = avgCost
    BY <1>5, <1>9
  <2>5. (0 * a) * d + c * b = (Bought - remove.value + 0) * (b * d)
    <3>1. (remove.value * b) * d + c * b = Bought * (b * d)
      BY <1>1, <2>3
    <3>2. (remove.value * b) * d = remove.value * (b * d)
      BY <1>1
    <3>3. (Bought - remove.value) * (b * d) = Bought * (b * d) - remove.value * (b * d)
      BY <1>1
    <3>4. /\ b * d \in Int /\ c * b \in Int /\ remove.value * (b * d) \in Int
          /\ Bought * (b * d) \in Int
      BY <1>1
    <3>5. (0 * a) * d = 0 /\ Bought - remove.value + 0 = Bought - remove.value
      BY <1>1
    <3> QED BY <3>1, <3>2, <3>3, <3>4, <3>5
  <2>6. Worth(quantity', avgCost', costOfSales', Bought')
    BY <1>3, <2>1, <2>3, <2>4, <2>5 DEF Worth, a, b, c, d
  <2>7. Proper(avgCost')
    BY <2>4 DEF CostInv
  <2> QED BY <1>7, <2>6, <2>7 DEF CostInv
<1> QED BY <1>8, <1>9

(* What the purchases on file came to changes by what one of them does.    *)
LEMMA BoughtMoves ==
  ASSUME PurchaseInv, PurchaseInv', NEW n \in PurchaseNumbers,
         \A m \in PurchaseNumbers : m # n =>
           /\ m \in PurchasesOnFile' <=> m \in PurchasesOnFile
           /\ m \in PurchasesOnFile => Cost(purchases'[m]) = Cost(purchases[m]),
         NEW before \in Nat,
         before = IF n \in PurchasesOnFile THEN Cost(purchases[n]) ELSE 0,
         NEW after \in Nat,
         after = IF n \in PurchasesOnFile' THEN Cost(purchases'[n]) ELSE 0
  PROVE  Bought' = Bought - before + after
<1> DEFINE f == CostOnFile
           g == CostOnFile'
<1>1. /\ \A m \in PurchaseNumbers : f[m] = IF m \in PurchasesOnFile THEN Cost(purchases[m]) ELSE 0
      /\ \A m \in PurchaseNumbers :
           g[m] = IF m \in PurchasesOnFile' THEN Cost(purchases'[m]) ELSE 0
  BY DEF CostOnFile, Cost, PurchaseNumbers
<1>2. \A m \in PurchaseNumbers : f[m] \in Nat
  BY BoughtNat
<1>3. Bought = OpeningUnits * OpeningCost + SumFunctionOnSet(f, PurchaseNumbers)
  BY DEF Bought
<1>4. Bought' = OpeningUnits * OpeningCost + SumFunctionOnSet(g, PurchaseNumbers)
  BY DEF Bought, PurchaseNumbers
<1>5. SumFunctionOnSet(f, PurchaseNumbers) \in Nat /\ OpeningUnits * OpeningCost \in Nat
  BY BoughtNat
<1> HIDE DEF f, g
<1>6. f[n] = before /\ g[n] = after /\ \A m \in PurchaseNumbers : m # n => g[m] = f[m]
  BY <1>1
<1>7. \A m \in PurchaseNumbers : f[m] \in Int /\ g[m] \in Int
  <2> SUFFICES ASSUME NEW m \in PurchaseNumbers PROVE f[m] \in Int /\ g[m] \in Int
    OBVIOUS
  <2>1. f[m] \in Int
    BY <1>2
  <2>2. g[m] \in Int
    BY <1>6, <2>1
  <2> QED BY <2>1, <2>2
<1>8. SumFunctionOnSet(g, PurchaseNumbers)
        = SumFunctionOnSet(f, PurchaseNumbers) + g[n] - f[n]
  BY <1>6, <1>7, PurchaseSumRewritten
<1> QED BY <1>3, <1>4, <1>5, <1>6, <1>8

(* The units and the value of a batch of goods.                            *)
LEMMA BatchFields ==
  ASSUME NEW qty \in Nat, NEW price \in Nat
  PROVE  /\ Batch(qty, price).qty = qty /\ Batch(qty, price).value = qty * price
         /\ Batch(qty, price).qty \in Nat /\ Batch(qty, price).value \in Nat
         /\ Batch(qty, price).qty = 0 => Batch(qty, price).value = 0
<1>1. qty * price \in Nat /\ (qty = 0 => qty * price = 0)
  BY CostNat
<1> QED BY <1>1 DEF Batch

(* The batch that stands for no goods at all.                              *)
LEMMA NothingFields ==
  /\ Nothing.qty = 0 /\ Nothing.value = 0 /\ 0 \in Nat
BY DEF Nothing, Batch

(* A purchase on file is rewritten.                                        *)
LEMMA BoughtOnFile ==
  ASSUME PurchaseInv, PurchaseInv', NEW n \in PurchasesOnFile, NEW inv,
         purchases' = [purchases EXCEPT ![n] = inv]
  PROVE  /\ Cost(purchases[n]) \in Nat /\ Cost(inv) \in Nat
         /\ Bought' = Bought - Cost(purchases[n]) + Cost(inv)
<1>1. PurchasesOnFile' = PurchasesOnFile /\ purchases'[n] = inv /\ n \in PurchaseNumbers
  BY OnFileFacts DEF PurchasesOnFile
<1>2. Cost(purchases[n]) \in Nat
  BY OnFileFacts, PurchaseFields
<1>3. Cost(inv) \in Nat
  <2>1. \A m \in PurchasesOnFile' : purchases'[m] \in Purchase
    BY InvPurchaseTypeOK DEF PurchaseInv, WellFiled, OnFileWell, UndoableWell, NeverIssued,
       FinePurchase, PurchaseTypes, PurchaseNumbers
  <2>2. inv \in Purchase
    BY <1>1, <2>1
  <2> QED BY <2>2, PurchaseFields
<1>4. \A m \in PurchaseNumbers : m # n =>
        /\ m \in PurchasesOnFile' <=> m \in PurchasesOnFile
        /\ m \in PurchasesOnFile => Cost(purchases'[m]) = Cost(purchases[m])
  BY <1>1 DEF PurchasesOnFile
<1>5. Cost(purchases[n]) = IF n \in PurchasesOnFile THEN Cost(purchases[n]) ELSE 0
  OBVIOUS
<1>6. Cost(inv) = IF n \in PurchasesOnFile' THEN Cost(purchases'[n]) ELSE 0
  BY <1>1
<1>7. Bought' = Bought - Cost(purchases[n]) + Cost(inv)
  BY <1>1, <1>2, <1>3, <1>4, <1>5, <1>6, BoughtMoves
<1> QED BY <1>2, <1>3, <1>7

(* Nothing a purchase costs, the shelf or what was sold changes.           *)
LEMMA CostsKept ==
  ASSUME PurchaseInv, CostInv, PurchasesOnFile' = PurchasesOnFile,
         \A n \in PurchasesOnFile : Cost(purchases'[n]) = Cost(purchases[n]),
         quantity' = quantity, avgCost' = avgCost, costOfSales' = costOfSales
  PROVE  CostInv'
<1>1. CostOnFile' = CostOnFile
  BY DEF CostOnFile, Cost, PurchaseNumbers
<1>2. Bought' = Bought
  BY <1>1 DEF Bought, PurchaseNumbers
<1> QED BY <1>2 DEF CostInv, Worth, Proper

---------------------------------------------------------------------------
(* The value action by action                                              *)

(* A new purchase keeps the average cost explained.                        *)
LEMMA BuyCost ==
  ASSUME PurchaseInv, PurchaseInv', CostInv, NEW s \in Suppliers, NEW qty \in Nat,
         NEW price \in Prices, NEW paid \in Nat, Buy(s, qty, price, paid)
  PROVE  CostInv'
<1> PICK n : n = numbered + 1
  OBVIOUS
<1> DEFINE inv == [supplier |-> s, qty |-> qty, price |-> price, paid |-> paid,
                   over |-> 0, remaining |-> qty * price - paid,
                   status |-> ComputeStatus(qty * price, paid)]
<1>1. /\ n \in PurchaseNumbers
      /\ purchases' = [m \in PurchasesOnFile \cup {n} |-> IF m = n THEN inv ELSE purchases[m]]
      /\ Restock(Nothing, Batch(qty, price)) /\ costOfSales' = costOfSales
  BY DEF Buy
<1>2. /\ PurchasesOnFile' = PurchasesOnFile \cup {n} /\ purchases'[n] = inv
      /\ \A m \in PurchasesOnFile : m # n => purchases'[m] = purchases[m]
  BY <1>1 DEF PurchasesOnFile
<1>3. n \notin PurchasesOnFile
  <2>1. \A m \in PurchasesOnFile : m <= numbered
    BY OnFileFacts
  <2> QED BY <2>1, PurchaseTyped
<1>4. price \in Nat /\ qty * price \in Nat
  BY PurchaseAssumption, CostNat
<1>5. Cost(inv) = qty * price
  BY DEF Cost
<1>6. Bought' = Bought - 0 + qty * price
  <2>1. \A m \in PurchaseNumbers : m # n =>
          /\ m \in PurchasesOnFile' <=> m \in PurchasesOnFile
          /\ m \in PurchasesOnFile => Cost(purchases'[m]) = Cost(purchases[m])
    BY <1>2
  <2>2. /\ 0 = IF n \in PurchasesOnFile THEN Cost(purchases[n]) ELSE 0
        /\ 0 \in Nat
    BY <1>3
  <2>3. qty * price = IF n \in PurchasesOnFile' THEN Cost(purchases'[n]) ELSE 0
    BY <1>2, <1>5
  <2> HIDE DEF inv
  <2> QED BY <1>1, <1>4, <2>1, <2>2, <2>3, BoughtMoves
<1> DEFINE add == Batch(qty, price)
<1>7. /\ add.qty \in Nat /\ add.value \in Nat /\ (add.qty = 0 => add.value = 0)
      /\ add.value = qty * price /\ add.qty = qty
  BY <1>4, BatchFields
<1>8. Unwinds(Nothing, add)
  <2>1. quantity \in Nat /\ avgCost.num \in Nat /\ avgCost.den \in Nat
    BY PurchaseTyped DEF CostInv, Proper
  <2>2. /\ quantity * avgCost.num - 0 * avgCost.den >= 0
        /\ 0 = quantity => quantity * avgCost.num - 0 * avgCost.den = 0
    BY <2>1
  <2> HIDE DEF add
  <2> QED BY <2>1, <2>2, NothingFields DEF Unwinds
<1> HIDE DEF add
<1> QED BY <1>1, <1>6, <1>7, <1>8, NothingFields, RestockWorth DEF add

(* Paying an invoice leaves the cost of the stock alone.                   *)
LEMMA PayCost ==
  ASSUME PurchaseInv, CostInv, NEW n \in PurchasesOnFile, NEW amount \in Nat, Pay(n, amount)
  PROVE  CostInv'
<1>1. /\ purchases' = [purchases EXCEPT ![n] = PaidMore(purchases[n], amount)]
      /\ quantity' = quantity /\ avgCost' = avgCost /\ costOfSales' = costOfSales
  BY DEF Pay, PaidMore
<1>2. Cost(PaidMore(purchases[n], amount)) = Cost(purchases[n])
  BY OnFileFacts DEF PaidMore, Cost, Purchase
<1>3. /\ PurchasesOnFile' = PurchasesOnFile
      /\ \A m \in PurchasesOnFile : Cost(purchases'[m]) = Cost(purchases[m])
  <2>1. purchases'[n] = PaidMore(purchases[n], amount)
    BY <1>1 DEF PurchasesOnFile
  <2>2. \A m \in PurchasesOnFile : m # n => purchases'[m] = purchases[m]
    BY <1>1 DEF PurchasesOnFile
  <2>3. PurchasesOnFile' = PurchasesOnFile
    BY <1>1 DEF PurchasesOnFile
  <2> QED BY <1>2, <2>1, <2>2, <2>3
<1> QED BY <1>1, <1>3, CostsKept

(* Settling dues leaves the cost of the stock alone.                       *)
LEMMA SettleSupplierCost ==
  ASSUME PurchaseInv, CostInv, NEW s \in Suppliers, SettleSupplierDues(s)
  PROVE  CostInv'
<1> DEFINE pool == SumFunctionOnSet(Credit(purchases), CreditFrom(s))
           gain == Applied(purchases, OwedTo(s), pool)
           loss == Spent(purchases, CreditFrom(s), SumFunctionOnSet(gain, OwedTo(s)))
<1>1. /\ purchases' = [n \in PurchasesOnFile |->
                         IF n \in OwedTo(s) THEN PaidMore(purchases[n], gain[n])
                         ELSE [purchases[n] EXCEPT !.over = @ - loss[n]]]
      /\ quantity' = quantity /\ avgCost' = avgCost /\ costOfSales' = costOfSales
  BY DEF SettleSupplierDues, PaidMore
<1> HIDE DEF gain, loss
<1>2. \A n \in PurchasesOnFile :
        /\ Cost(PaidMore(purchases[n], gain[n])) = Cost(purchases[n])
        /\ Cost([purchases[n] EXCEPT !.over = @ - loss[n]]) = Cost(purchases[n])
  BY OnFileFacts DEF PaidMore, Cost, Purchase
<1>3. /\ PurchasesOnFile' = PurchasesOnFile
      /\ \A n \in PurchasesOnFile : Cost(purchases'[n]) = Cost(purchases[n])
  <2>1. PurchasesOnFile' = PurchasesOnFile
    BY <1>1 DEF PurchasesOnFile
  <2>2. \A n \in PurchasesOnFile :
          purchases'[n] = IF n \in OwedTo(s) THEN PaidMore(purchases[n], gain[n])
                          ELSE [purchases[n] EXCEPT !.over = @ - loss[n]]
    BY <1>1
  <2> QED BY <1>2, <2>1, <2>2
<1> QED BY <1>1, <1>3, CostsKept

(* Splitting an invoice's money again does not change what its goods cost. *)
LEMMA SplitKeepsCost ==
  \A inv \in Purchase : Cost(SplitSpending(inv)) = Cost(inv)
BY DEF SplitSpending, Cost, Purchase

(* An edit that unwinds exactly what the invoice put in keeps the average  *)
(* cost explained.                                                         *)
LEMMA EditPurchaseCost ==
  ASSUME PurchaseInv, PurchaseInv', CostInv, NEW n \in PurchasesOnFile, NEW qty \in Nat,
         NEW price \in Prices,
         Unwinds(Batch(purchases[n].qty, purchases[n].price), Batch(qty, price)),
         EditPurchase(n, qty, price)
  PROVE  CostInv'
<1> DEFINE inv == purchases[n]
           other == [inv EXCEPT !.qty = qty, !.price = price]
           remove == Batch(inv.qty, inv.price)
           add == Batch(qty, price)
<1>1. /\ purchases' = [purchases EXCEPT ![n] = SplitSpending(other)]
      /\ Restock(remove, add) /\ costOfSales' = costOfSales
  BY DEF EditPurchase, Edited
<1>2. inv \in Purchase /\ inv.qty \in Nat /\ inv.price \in Nat /\ price \in Nat
  BY OnFileFacts, PurchaseFields, PurchaseAssumption
<1>3. other \in Purchase /\ Cost(other) = qty * price
  BY <1>2 DEF Purchase, Cost
<1>4. Cost(SplitSpending(other)) = qty * price
  BY <1>3, SplitKeepsCost
<1>5. /\ remove.qty \in Nat /\ remove.value \in Nat /\ remove.value = Cost(inv)
      /\ add.qty \in Nat /\ add.value \in Nat /\ add.value = qty * price
      /\ (add.qty = 0 => add.value = 0)
  BY <1>2, BatchFields DEF Cost
<1>6. Bought' = Bought - Cost(inv) + Cost(SplitSpending(other))
  <2> HIDE DEF other
  <2> QED BY <1>1, BoughtOnFile
<1>7. Bought' = Bought - remove.value + add.value
  BY <1>4, <1>5, <1>6
<1>8. Unwinds(remove, add)
  OBVIOUS
<1> HIDE DEF remove, add
<1> QED BY <1>1, <1>5, <1>7, <1>8, RestockWorth

(* A return that unwinds exactly the batch sent back keeps the average     *)
(* cost explained.                                                         *)
LEMMA ReturnPurchaseCost ==
  ASSUME PurchaseInv, PurchaseInv', CostInv, NEW n \in PurchasesOnFile, NEW qty \in Nat,
         Unwinds(Batch(qty, purchases[n].price), Nothing), ReturnPurchase(n, qty)
  PROVE  CostInv'
<1> DEFINE inv == purchases[n]
           other == [inv EXCEPT !.qty = Pos(@ - qty)]
           remove == Batch(qty, inv.price)
<1>1. /\ qty <= inv.qty /\ purchases' = [purchases EXCEPT ![n] = SplitSpending(other)]
      /\ Restock(remove, Nothing) /\ costOfSales' = costOfSales
  BY DEF ReturnPurchase, Kept
<1>2. inv \in Purchase /\ inv.qty \in Nat /\ inv.price \in Nat
  BY OnFileFacts, PurchaseFields
<1>3. Pos(inv.qty - qty) = inv.qty - qty /\ Pos(inv.qty - qty) \in Nat
  BY <1>1, <1>2 DEF Pos
<1>4. other \in Purchase /\ other.qty = inv.qty - qty /\ other.price = inv.price
  BY <1>2, <1>3 DEF Purchase
<1>5. Cost(SplitSpending(other)) = Cost(inv) - qty * inv.price
  <2>1. Cost(other) = (inv.qty - qty) * inv.price
    BY <1>4 DEF Cost
  <2>2. \A k, l, p \in Nat : (k - l) * p = k * p - l * p
    OBVIOUS
  <2>3. Cost(other) = Cost(inv) - qty * inv.price
    BY <1>2, <2>1, <2>2 DEF Cost
  <2> QED BY <1>4, <2>3, SplitKeepsCost
<1>6. /\ remove.qty \in Nat /\ remove.value \in Nat /\ remove.value = qty * inv.price
  BY <1>2, BatchFields
<1>7. /\ Bought' = Bought - Cost(inv) + Cost(SplitSpending(other))
      /\ Cost(inv) \in Nat
  <2> HIDE DEF other
  <2> QED BY <1>1, BoughtOnFile
<1>8. Bought' = Bought - remove.value + Nothing.value
  BY <1>5, <1>6, <1>7, BoughtNat, NothingFields
<1>9. Unwinds(remove, Nothing)
  OBVIOUS
<1> HIDE DEF remove
<1> QED BY <1>1, <1>6, <1>8, <1>9, NothingFields, RestockWorth

(* A deletion that unwinds exactly what the invoice put in keeps the       *)
(* average cost explained.                                                 *)
LEMMA DeletePurchaseCost ==
  ASSUME PurchaseInv, PurchaseInv', CostInv, NEW n \in PurchasesOnFile,
         Unwinds(Batch(purchases[n].qty, purchases[n].price), Nothing), DeletePurchase(n)
  PROVE  CostInv'
<1> DEFINE inv == purchases[n]
           remove == Batch(inv.qty, inv.price)
<1>1. /\ purchases' = Restrict(purchases, PurchasesOnFile \ {n})
      /\ Restock(remove, Nothing) /\ costOfSales' = costOfSales
  BY DEF DeletePurchase
<1>2. /\ PurchasesOnFile' = PurchasesOnFile \ {n}
      /\ \A m \in PurchasesOnFile : m # n => purchases'[m] = purchases[m]
  BY <1>1 DEF PurchasesOnFile, Restrict
<1>3. inv.qty \in Nat /\ inv.price \in Nat /\ Cost(inv) \in Nat /\ n \in PurchaseNumbers
  BY OnFileFacts, PurchaseFields
<1>4. /\ remove.qty \in Nat /\ remove.value \in Nat /\ remove.value = Cost(inv)
  BY <1>3, BatchFields DEF Cost
<1>5. Bought' = Bought - Cost(inv) + 0
  <2>1. \A m \in PurchaseNumbers : m # n =>
          /\ m \in PurchasesOnFile' <=> m \in PurchasesOnFile
          /\ m \in PurchasesOnFile => Cost(purchases'[m]) = Cost(purchases[m])
    BY <1>2
  <2>2. Cost(inv) = IF n \in PurchasesOnFile THEN Cost(purchases[n]) ELSE 0
    OBVIOUS
  <2>3. /\ 0 = IF n \in PurchasesOnFile' THEN Cost(purchases'[n]) ELSE 0
        /\ 0 \in Nat
    BY <1>2
  <2> QED BY <1>3, <2>1, <2>2, <2>3, BoughtMoves
<1>6. Bought' = Bought - remove.value + Nothing.value
  BY <1>4, <1>5, NothingFields
<1>7. Unwinds(remove, Nothing)
  OBVIOUS
<1> HIDE DEF remove
<1> QED BY <1>1, <1>4, <1>6, <1>7, NothingFields, RestockWorth

(* Units come back at a price that is the average cost.                    *)
LEMMA RestorePurchaseCost ==
  ASSUME PurchaseInv, PurchaseInv', CostInv, NEW n \in DOMAIN undoable,
         avgCost = Fraction(undoable[n].invoice.price, 1), RestorePurchase(n)
  PROVE  CostInv'
<1> DEFINE inv == undoable[n].invoice
           k == inv.qty
           p == inv.price
           q == quantity
           a == avgCost.num
           b == avgCost.den
           c == costOfSales.num
           d == costOfSales.den
           total == Bought
<1>1. /\ n \notin PurchasesOnFile
      /\ purchases' = [m \in PurchasesOnFile \cup {n} |-> IF m = n THEN inv ELSE purchases[m]]
      /\ quantity' = q + k /\ avgCost' = avgCost /\ costOfSales' = costOfSales
  BY DEF RestorePurchase
<1>2. n \in PurchaseNumbers /\ inv \in Purchase
  BY WellFiledCases DEF UndoableWell, FinePurchase
<1>3. k \in Nat /\ p \in Nat /\ Cost(inv) \in Nat /\ Cost(inv) = k * p
  BY <1>2, PurchaseFields DEF Cost
<1>4. /\ PurchasesOnFile' = PurchasesOnFile \cup {n} /\ purchases'[n] = inv
      /\ \A m \in PurchasesOnFile : purchases'[m] = purchases[m]
  BY <1>1 DEF PurchasesOnFile
<1>5. Bought' = Bought - 0 + Cost(inv)
  <2>1. \A m \in PurchaseNumbers : m # n =>
          /\ m \in PurchasesOnFile' <=> m \in PurchasesOnFile
          /\ m \in PurchasesOnFile => Cost(purchases'[m]) = Cost(purchases[m])
    BY <1>4
  <2>2. /\ 0 = IF n \in PurchasesOnFile THEN Cost(purchases[n]) ELSE 0
        /\ 0 \in Nat
    BY <1>1
  <2>3. Cost(inv) = IF n \in PurchasesOnFile' THEN Cost(purchases'[n]) ELSE 0
    BY <1>4
  <2> HIDE DEF inv
  <2> QED BY <1>2, <1>3, <2>1, <2>2, <2>3, BoughtMoves
<1>6. /\ q \in Int /\ a \in Int /\ b \in Int /\ c \in Int /\ d \in Int /\ total \in Int
      /\ k \in Int /\ p \in Int
      /\ (q * a) * d + c * b = total * (b * d)
  BY <1>3, PurchaseTyped, BoughtNat DEF CostInv, Proper, Worth
<1>7. a = p * b
  <2>1. Fraction(p, 1).num * 1 = p * Fraction(p, 1).den
    <3>1. 1 \in Nat \ {0}
      OBVIOUS
    <3> QED BY <1>3, <3>1, FractionWorth
  <2> HIDE DEF p
  <2>2. avgCost = Fraction(p, 1)
    BY DEF p
  <2> QED BY <1>6, <2>1, <2>2
<1>8. Bought' = total + k * p
  BY <1>3, <1>5, <1>6
<1> HIDE DEF k, p, q, a, b, c, d, total
<1>9. ((q + k) * a) * d + c * b = (total + k * p) * (b * d)
  <2>1. ((q + k) * a) * d = (q * a) * d + (k * a) * d
    BY <1>6
  <2>2. (k * a) * d = (k * p) * (b * d)
    <3>1. (k * (p * b)) * d = (k * p) * (b * d)
      BY <1>6
    <3> QED BY <1>7, <3>1
  <2>3. (total + k * p) * (b * d) = total * (b * d) + (k * p) * (b * d)
    BY <1>6
  <2>4. /\ (q * a) * d \in Int /\ c * b \in Int /\ total * (b * d) \in Int
        /\ (k * p) * (b * d) \in Int
    BY <1>6
  <2> QED BY <1>6, <2>1, <2>2, <2>3, <2>4
<1>10. Worth(quantity', avgCost', costOfSales', Bought')
  BY <1>1, <1>8, <1>9 DEF Worth, a, b, c, d
<1> QED BY <1>1, <1>10 DEF CostInv, Proper

(* The unit sold takes the average cost off the shelf.                     *)
LEMMA SellOneCost ==
  ASSUME PurchaseInv, CostInv, SellOne
  PROVE  CostInv'
<1> DEFINE q == quantity
           a == avgCost.num
           b == avgCost.den
           c == costOfSales.num
           d == costOfSales.den
           total == Bought
           sum == c * b + a * d
           f == Fraction(sum, d * b)
           x == f.num
           y == f.den
<1>1. /\ quantity' = q - 1 /\ avgCost' = avgCost /\ purchases' = purchases
      /\ costOfSales' = f
  BY DEF SellOne, Plus
<1>2. Bought' = Bought
  <2>1. CostOnFile' = CostOnFile
    BY <1>1 DEF CostOnFile, Cost, PurchaseNumbers, PurchasesOnFile
  <2> QED BY <2>1 DEF Bought, PurchaseNumbers
<1>3. /\ q \in Nat /\ a \in Nat /\ b \in Nat \ {0} /\ c \in Nat /\ d \in Nat \ {0}
      /\ total \in Int /\ (q * a) * d + c * b = total * (b * d)
  BY PurchaseTyped, BoughtNat DEF CostInv, Proper, Worth
<1> HIDE DEF q, a, b, c, d, total, f
<1>4. sum \in Nat /\ d * b \in Nat \ {0}
  <2>1. \A k, l \in Nat : k * l \in Nat
    OBVIOUS
  <2>2. \A k, l \in Nat \ {0} : k * l # 0
    OBVIOUS
  <2>3. c * b \in Nat /\ a * d \in Nat /\ d * b \in Nat
    BY <1>3, <2>1
  <2> QED BY <1>3, <2>2, <2>3
<1> HIDE DEF sum
<1>5. x \in Nat /\ y \in Nat \ {0} /\ x * (d * b) = sum * y
  BY <1>4, FractionWorth DEF f
<1> HIDE DEF x, y
<1>6. /\ q \in Int /\ a \in Int /\ b \in Int /\ c \in Int /\ d \in Int /\ x \in Int /\ y \in Int
      /\ sum \in Int
  BY <1>3, <1>4, <1>5
<1>7. d * (((q - 1) * a) * y + x * b) = d * (total * (b * y))
  <2>1. d * (((q - 1) * a) * y + x * b) = ((q * a) * d) * y - (a * d) * y + x * (d * b)
    BY <1>6
  <2>2. sum * y = (c * b) * y + (a * d) * y
    <3>1. (c * b + a * d) * y = (c * b) * y + (a * d) * y
      BY <1>6
    <3> QED BY <3>1 DEF sum
  <2>3. /\ ((q * a) * d) * y \in Int /\ (a * d) * y \in Int /\ (c * b) * y \in Int
    BY <1>6
  <2>4. d * (((q - 1) * a) * y + x * b) = ((q * a) * d) * y + (c * b) * y
    BY <1>5, <2>1, <2>2, <2>3
  <2>5. ((q * a) * d) * y + (c * b) * y = ((q * a) * d + c * b) * y
    BY <1>6
  <2>6. ((q * a) * d + c * b) * y = (total * (b * d)) * y
    BY <1>3
  <2>7. (total * (b * d)) * y = d * (total * (b * y))
    BY <1>3, <1>6
  <2> QED BY <2>4, <2>5, <2>6, <2>7
<1>8. ((q - 1) * a) * y + x * b = total * (b * y)
  <2>1. ((q - 1) * a) * y + x * b \in Int /\ total * (b * y) \in Int
    BY <1>3, <1>6
  <2> QED BY <1>3, <1>7, <2>1, CancelFactor
<1>9. Worth(quantity', avgCost', costOfSales', Bought')
  BY <1>1, <1>2, <1>8 DEF Worth, a, b, x, y, total
<1>10. Proper(costOfSales')
  BY <1>1, <1>5 DEF Proper, x, y
<1> QED BY <1>1, <1>9, <1>10 DEF CostInv, Proper

---------------------------------------------------------------------------
(* The start, and what the invariant says                                  *)

(* The opening stock's cost is explained.                                  *)
LEMMA InitCost == PurchaseInit => CostInv
<1> SUFFICES ASSUME PurchaseInit PROVE CostInv
  OBVIOUS
<1>1. /\ PurchasesOnFile = {} /\ quantity = OpeningUnits
      /\ avgCost = Fraction(OpeningCost, 1) /\ costOfSales = Fraction(0, 1)
  BY DEF PurchaseInit, PurchasesOnFile
<1>2. OpeningUnits \in Nat /\ OpeningCost \in Nat /\ 1 \in Nat \ {0} /\ 0 \in Nat
  BY PurchaseAssumption
<1> DEFINE a == avgCost.num
           b == avgCost.den
           c == costOfSales.num
           d == costOfSales.den
<1>3. a \in Nat /\ b \in Nat \ {0} /\ a * 1 = OpeningCost * b
  BY <1>1, <1>2, FractionWorth
<1>4. c \in Nat /\ d \in Nat \ {0} /\ c * 1 = 0 * d
  BY <1>1, <1>2, FractionWorth
<1> HIDE DEF a, b, c, d
<1>5. a = OpeningCost * b /\ c = 0
  BY <1>3, <1>4
<1>6. Bought = OpeningUnits * OpeningCost
  <2>1. \A n \in PurchaseNumbers : CostOnFile[n] = 0
    BY <1>1 DEF CostOnFile
  <2> DEFINE f == CostOnFile
  <2>2. SumFunctionOnSet(f, PurchaseNumbers) = 0
    <3> HIDE DEF f
    <3>1. \A n \in PurchaseNumbers : f[n] = 0
      BY <2>1 DEF f
    <3> QED BY <3>1, PurchaseNumbersFinite, SumZero
  <2>3. OpeningUnits * OpeningCost \in Nat
    BY <1>2, CostNat
  <2> QED BY <2>2, <2>3 DEF Bought
<1>7. (OpeningUnits * (OpeningCost * b)) * d + 0 * b = (OpeningUnits * OpeningCost) * (b * d)
  BY <1>2, <1>3, <1>4
<1>8. Worth(quantity, avgCost, costOfSales, Bought)
  BY <1>1, <1>5, <1>6, <1>7 DEF Worth, a, b, c, d
<1> QED BY <1>3, <1>4, <1>8 DEF CostInv, Proper, a, b, c, d

(* The strengthened invariant implies that the purchases explain the       *)
(* average cost.                                                           *)
LEMMA InvCost == PurchaseInv /\ CostInv => CostExplained
<1> SUFFICES ASSUME PurchaseInv, CostInv PROVE CostExplained
  OBVIOUS
<1> DEFINE q == quantity
           a == avgCost.num
           b == avgCost.den
           c == costOfSales.num
           d == costOfSales.den
           total == Bought
           f == Fraction(q * a, b)
           x == f.num
           y == f.den
<1>1. /\ q \in Nat /\ a \in Nat /\ b \in Nat \ {0} /\ c \in Nat /\ d \in Nat \ {0}
      /\ total \in Nat /\ (q * a) * d + c * b = total * (b * d)
  BY PurchaseTyped, BoughtNat DEF CostInv, Proper, Worth
<1>2. Plus(Times(quantity, avgCost), costOfSales) = Fraction(x * d + c * y, y * d)
  BY DEF Plus, Times
<1> HIDE DEF q, a, b, c, d, total, f
<1>3. x \in Nat /\ y \in Nat \ {0} /\ x * b = (q * a) * y
  <2>1. q * a \in Nat
    BY <1>1, CostNat
  <2> QED BY <1>1, <2>1, FractionWorth DEF f
<1> HIDE DEF x, y
<1>4. x * d + c * y = total * (y * d)
  <2>0. /\ q \in Int /\ a \in Int /\ b \in Int /\ c \in Int /\ d \in Int /\ total \in Int
        /\ x \in Int /\ y \in Int
    BY <1>1, <1>3
  <2>1. b * (x * d + c * y) = (x * b) * d + (c * b) * y
    BY <2>0
  <2>2. (x * b) * d = ((q * a) * d) * y
    <3>1. ((q * a) * y) * d = ((q * a) * d) * y
      BY <2>0
    <3> QED BY <1>3, <3>1
  <2>3. ((q * a) * d) * y + (c * b) * y = ((q * a) * d + c * b) * y
    BY <2>0
  <2>4. ((q * a) * d + c * b) * y = (total * (b * d)) * y
    BY <1>1
  <2>5. (total * (b * d)) * y = b * (total * (y * d))
    BY <2>0
  <2>6. b * (x * d + c * y) = b * (total * (y * d))
    BY <2>1, <2>2, <2>3, <2>4, <2>5
  <2>7. x * d + c * y \in Int /\ total * (y * d) \in Int
    BY <2>0
  <2> QED BY <1>1, <2>6, <2>7, CancelFactor
<1>5. y * d \in Nat \ {0}
  <2>1. \A k, l \in Nat \ {0} : k * l \in Nat \ {0}
    OBVIOUS
  <2> QED BY <1>1, <1>3, <2>1
<1>6. Fraction(total * (y * d), y * d) = [num |-> total, den |-> 1]
  BY <1>1, <1>5, WholeFraction
<1>7. Fraction(total, 1) = [num |-> total, den |-> 1]
  <2>1. Fraction(total * 1, 1) = [num |-> total, den |-> 1]
    <3>1. 1 \in Nat \ {0}
      OBVIOUS
    <3> QED BY <1>1, <3>1, WholeFraction
  <2>2. total * 1 = total
    BY <1>1
  <2> QED BY <2>1, <2>2
<1> DEFINE g == [n \in PurchasesOnFile |-> Cost(purchases[n])]
<1>8. SumFunction(g) = SumFunctionOnSet(CostOnFile, PurchaseNumbers)
  <2> DEFINE h == CostOnFile
  <2>1. /\ PurchasesOnFile \subseteq PurchaseNumbers
        /\ \A n \in PurchaseNumbers : h[n] \in Int
        /\ \A n \in PurchaseNumbers \ PurchasesOnFile : h[n] = 0
        /\ \A n \in PurchasesOnFile : g[n] = h[n]
        /\ DOMAIN g = PurchasesOnFile
    BY PurchaseTyped, BoughtNat DEF CostOnFile
  <2>2. IsFiniteSet(PurchasesOnFile)
    BY <2>1, PurchaseNumbersFinite, FS_Subset
  <2>3. SumFunction(g) = SumFunctionOnSet(g, PurchasesOnFile)
    <3> HIDE DEF g
    <3> QED BY <2>1 DEF SumFunction
  <2> HIDE DEF g, h
  <2>4. SumFunctionOnSet(h, PurchaseNumbers) = SumFunctionOnSet(h, PurchasesOnFile)
    BY <2>1, PurchaseNumbersFinite, SumOfNonZeros
  <2>5. SumFunctionOnSet(g, PurchasesOnFile) = SumFunctionOnSet(h, PurchasesOnFile)
    BY <2>1, <2>2, SumSame
  <2> QED BY <2>3, <2>4, <2>5 DEF h
<1>9. OpeningUnits * OpeningCost + SumFunction(g) = total
  BY <1>8 DEF Bought, total
<1> QED BY <1>2, <1>4, <1>6, <1>7, <1>9 DEF CostExplained

---------------------------------------------------------------------------
(* The ledger                                                              *)

PurchaseIInv == PurchaseInv /\ CostInv

(* A step that leaves the purchases alone keeps both invariants.           *)
LEMMA PurchaseStutter == PurchaseIInv /\ UNCHANGED purchaseVars => PurchaseIInv'
<1> SUFFICES ASSUME PurchaseIInv, UNCHANGED purchaseVars PROVE PurchaseIInv'
  OBVIOUS
<1>1. UNCHANGED <<numbered, purchases, sentBack, quantity, avgCost, stockMovements,
                  cashEntries, undoable, sold, costOfSales, creditMoved>>
  BY DEF purchaseVars
<1>2. PurchaseTypes'
  BY <1>1 DEF PurchaseIInv, PurchaseInv, PurchaseTypes, PurchaseNumbers, PurchasesOnFile
<1>3. (\A n \in PurchaseNumbers : WellFiled(n))'
  BY <1>1 DEF PurchaseIInv, PurchaseInv, WellFiled, OnFileWell, UndoableWell, NeverIssued,
     NothingFiled, PurchasesOnFile, FinePurchase, PurchaseNumbers
<1>4. PurchasesExplainStock' /\ SuppliersBalance'
  BY <1>1 DEF PurchaseIInv, PurchaseInv, PurchasesExplainStock, SuppliersBalance, BilledBy,
     Billed, PurchasesOnFile, PurchaseNumbers
<1>5. CostInv'
  <2>1. CostOnFile' = CostOnFile
    BY <1>1 DEF CostOnFile, Cost, PurchaseNumbers, PurchasesOnFile
  <2>2. Bought' = Bought
    BY <2>1 DEF Bought, PurchaseNumbers
  <2> QED BY <1>1, <2>2 DEF PurchaseIInv, CostInv, Worth, Proper
<1> QED BY <1>2, <1>3, <1>4, <1>5 DEF PurchaseIInv, PurchaseInv

(* Every handler of the purchases keeps both invariants.                   *)
LEMMA PurchaseNextKeeps == PurchaseIInv /\ PurchaseNext => PurchaseIInv'
<1> SUFFICES ASSUME PurchaseInv, CostInv, PurchaseNext PROVE PurchaseIInv'
  BY DEF PurchaseIInv
<1>1. PurchaseQuantities \subseteq Nat
  BY PurchaseAssumption DEF PurchaseQuantities
<1>2. CASE BuyAny
  <2>1. PICK s \in Suppliers, qty \in PurchaseQuantities, price \in Prices :
          \E paid \in {0, price, qty * price} : Buy(s, qty, price, paid)
    BY <1>2 DEF BuyAny
  <2>2. PICK paid \in {0, price, qty * price} : Buy(s, qty, price, paid)
    BY <2>1
  <2>3. qty \in Nat /\ price \in Nat
    BY <1>1, PurchaseAssumption
  <2>4. paid \in Nat
    BY <2>2, <2>3, CostNat
  <2>5. PurchaseInv'
    BY <2>2, <2>3, <2>4, BuyKeeps
  <2>6. CostInv'
    BY <2>2, <2>3, <2>4, <2>5, BuyCost
  <2> QED BY <2>5, <2>6 DEF PurchaseIInv
<1>3. CASE PayAnyPurchase
  <2>1. PICK n \in PurchasesOnFile : \E amount \in {1, Due(n)} : Pay(n, amount)
    BY <1>3 DEF PayAnyPurchase
  <2>2. PICK amount \in {1, Due(n)} : Pay(n, amount)
    BY <2>1
  <2>3. amount \in Nat
    BY <2>2, OnFileFacts DEF Due
  <2> QED BY <2>2, <2>3, PayKeeps, PayCost DEF PurchaseIInv
<1>4. CASE EditFresh
  <2>1. PICK n \in PurchasesOnFile, qty \in PurchaseQuantities, price \in Prices :
          /\ sentBack[n] = 0
          /\ Unwinds(Batch(purchases[n].qty, purchases[n].price), Batch(qty, price))
          /\ EditPurchase(n, qty, price)
    BY <1>4 DEF EditFresh
  <2>2. qty \in Nat
    BY <1>1
  <2>3. PurchaseInv'
    BY <2>1, <2>2, EditPurchaseKeeps
  <2>4. CostInv'
    BY <2>1, <2>2, <2>3, EditPurchaseCost
  <2> QED BY <2>3, <2>4 DEF PurchaseIInv
<1>5. CASE ReturnAnyPurchase
  <2>1. PICK n \in PurchasesOnFile, qty \in PurchaseQuantities :
          Unwinds(Batch(qty, purchases[n].price), Nothing) /\ ReturnPurchase(n, qty)
    BY <1>5 DEF ReturnAnyPurchase
  <2>2. qty \in Nat
    BY <1>1
  <2>3. PurchaseInv'
    BY <2>1, <2>2, ReturnPurchaseKeeps
  <2>4. CostInv'
    BY <2>1, <2>2, <2>3, ReturnPurchaseCost
  <2> QED BY <2>3, <2>4 DEF PurchaseIInv
<1>6. CASE DeleteAnyPurchase
  <2>1. PICK n \in PurchasesOnFile :
          /\ Unwinds(Batch(purchases[n].qty, purchases[n].price), Nothing)
          /\ DeletePurchase(n)
    BY <1>6 DEF DeleteAnyPurchase
  <2>2. PurchaseInv'
    BY <2>1, DeletePurchaseKeeps
  <2>3. CostInv'
    BY <2>1, <2>2, DeletePurchaseCost
  <2> QED BY <2>2, <2>3 DEF PurchaseIInv
<1>7. CASE RestoreAnyPurchase
  <2>1. PICK n \in DOMAIN undoable :
          avgCost = Fraction(undoable[n].invoice.price, 1) /\ RestorePurchase(n)
    BY <1>7 DEF RestoreAnyPurchase
  <2>2. PurchaseInv'
    BY <2>1, RestorePurchaseKeeps
  <2>3. CostInv'
    BY <2>1, <2>2, RestorePurchaseCost
  <2> QED BY <2>2, <2>3 DEF PurchaseIInv
<1>8. CASE SettleAnySupplier
  <2>1. PICK s \in Suppliers : SettleSupplierDues(s)
    BY <1>8 DEF SettleAnySupplier
  <2> QED BY <2>1, SettleSupplierKeeps, SettleSupplierCost DEF PurchaseIInv
<1>9. CASE SellOne
  BY <1>9, SellOneKeeps, SellOneCost DEF PurchaseIInv
<1> QED BY <1>2, <1>3, <1>4, <1>5, <1>6, <1>7, <1>8, <1>9 DEF PurchaseNext

(* The invariant holds of every state the purchase handlers can reach on   *)
(* an ordinary day.                                                        *)
THEOREM PurchasesAlwaysInv == PurchaseSpec => []PurchaseIInv
<1>1. PurchaseInit => PurchaseIInv
  BY InitPurchaseInv, InitCost DEF PurchaseIInv
<1>2. PurchaseIInv /\ [PurchaseNext]_purchaseVars => PurchaseIInv'
  BY PurchaseNextKeeps, PurchaseStutter
<1> QED BY <1>1, <1>2, PTL DEF PurchaseSpec

(* Every purchase invoice and every undo snapshot is well formed, no       *)
(* invoice is owed and in credit at once, and none that had a return was   *)
(* ever deleted.                                                           *)
THEOREM PurchasesTypeCorrect == PurchaseSpec => []PurchaseTypeOK
<1>1. PurchaseIInv => PurchaseTypeOK
  BY InvPurchaseTypeOK DEF PurchaseIInv
<1> QED BY <1>1, PurchasesAlwaysInv, PTL

(* The drawer and the credit moved explain what every purchase says was    *)
(* spent on it, across payments, edits, returns, deletions, undo and       *)
(* settlements.                                                            *)
THEOREM SpendingAlwaysAccounted == PurchaseSpec => []SpendingAccounted
<1>1. PurchaseIInv => SpendingAccounted
  BY InvSpending DEF PurchaseIInv
<1> QED BY <1>1, PurchasesAlwaysInv, PTL

(* settleSupplierDues makes no credit and loses none, and moves it only    *)
(* among one supplier's invoices.                                          *)
THEOREM SupplierCreditAlwaysConserved == PurchaseSpec => []SupplierCreditConserved
<1>1. PurchaseIInv => SupplierCreditConserved
  BY InvSupplierCredit DEF PurchaseIInv
<1> QED BY <1>1, PurchasesAlwaysInv, PTL

(* The movements and returns on record explain the shelf purchases fill.   *)
THEOREM PurchasesAlwaysExplainStock == PurchaseSpec => []PurchasesExplainStock
<1>1. PurchaseIInv => PurchasesExplainStock
  BY InvPurchasesExplain DEF PurchaseIInv
<1> QED BY <1>1, PurchasesAlwaysInv, PTL

(* The weighted average loses nothing: the shelf at average cost and the   *)
(* cost of what was sold come to what was bought, in every order of        *)
(* purchases, edits, returns, deletions and sales that meets no clamp.     *)
THEOREM CostAlwaysExplained == PurchaseSpec => []CostExplained
<1>1. PurchaseIInv => CostExplained
  BY InvCost DEF PurchaseIInv
<1> QED BY <1>1, PurchasesAlwaysInv, PTL

---------------------------------------------------------------------------
(* Backups                                                                 *)


(* buildBackupData and checkAndBackup read the stock of a signed-in shop.  *)
StockIsExplained == Shop!SignedIn => stock = InStock + ledger

(* A sign-in and an unlock read the disk, where no flush is due any more.  *)
DiskIsExplained == (Shop!Hydrated /\ dirty) \/ saved = InStock + ledger

(* The end of an unlock loads what the flush before it has saved.          *)
UnlockIsClean == session = "unlocking" => saved = InStock + ledger

BackupIInv == BackupTypeOK /\ StockIsExplained /\ DiskIsExplained /\ UnlockIsClean /\ BackupsReconcile

(* adjustStock never clamps a sale of at most what is on the shelf.        *)
LEMMA SaleNeverClamped ==
  ASSUME NEW q \in Nat, NEW n \in Nat, n <= q
  PROVE  Shop!AdjustBy(q, -n) = q - n /\ q - n \in Nat
  BY DEF Shop!AdjustBy

(* A file whose movements explain its stock leaves every backup reconciled. *)
LEMMA StoredReconciles ==
  ASSUME NEW kind \in Kinds, NEW file \in File, file.stock = InStock + file.ledger,
         BackupTypeOK, BackupsReconcile, Store(kind, file)
  PROVE  /\ files' \in [Kinds -> File \cup {NoFile}]
         /\ BackupsReconcile'
  BY DEF BackupTypeOK, BackupsReconcile, Store

(* What is left alone stays reconciled.                                    *)
LEMMA UntouchedReconciles ==
  ASSUME BackupTypeOK, BackupsReconcile, UNCHANGED files
  PROVE  /\ files' \in [Kinds -> File \cup {NoFile}]
         /\ BackupsReconcile'
  BY DEF BackupTypeOK, BackupsReconcile

(* buildBackupData of an explained stock and its ledger is such a file.    *)
LEMMA BackupDataReconciles ==
  ASSUME NEW moved \in Int, NEW sealed \in BOOLEAN, stock \in Nat,
         stock = InStock + moved
  PROVE  /\ BackupData(moved, sealed) \in File
         /\ BackupData(moved, sealed).stock = InStock + BackupData(moved, sealed).ledger
  BY DEF BackupData, File

(* The types of what a step leaves in every variable but the files.        *)
Typed ==
  /\ session \in {"off", "signedOut", "ready", "locked", "unlocking"}
  /\ stock \in Nat /\ saved \in Nat /\ ledger \in Int /\ dirty \in BOOLEAN
  /\ list \in Int /\ reloading \in BOOLEAN

(* The opening stock on disk, an empty ledger and no backup.               *)
LEMMA InitBackupIInv == BackupInit => BackupIInv
<1> SUFFICES ASSUME BackupInit PROVE BackupIInv
  OBVIOUS
<1>1. /\ session = "off" /\ stock = 0 /\ saved = InStock /\ ledger = 0
      /\ dirty = FALSE /\ list = 0 /\ reloading = FALSE
  BY DEF BackupInit, Shop!ShopInit, Shop!Seed
<1>2. files = [k \in Kinds |-> NoFile]
  BY DEF BackupInit
<1>3. InStock \in Nat
  BY BackupAssumption
<1>4. dirty \in BOOLEAN /\ reloading \in BOOLEAN
  BY <1>1
<1>5. BackupTypeOK
  BY <1>1, <1>2, <1>3, <1>4 DEF BackupTypeOK, Shop!ShopTypeOK
<1>6. BackupsReconcile
  BY <1>2 DEF BackupsReconcile
<1>7. StockIsExplained /\ DiskIsExplained /\ UnlockIsClean
  BY <1>1, <1>3 DEF StockIsExplained, DiskIsExplained, UnlockIsClean, Shop!SignedIn
<1> QED
  BY <1>5, <1>6, <1>7 DEF BackupIInv

(* Steps that make no backup keep stock and disk explained: sales, flushes, *)
(* sign-ins, locks, unlocks, sign-outs, crashes and reloads.               *)
LEMMA ShopSteps ==
  ASSUME BackupIInv,
         \/ \E n \in 1 .. MaxSale : Trade(n)
         \/ Launch \/ SignIn \/ Hydrate \/ DebouncedFlush \/ Lock \/ Unlock
         \/ ~dirty /\ (UnlockBegin \/ SignOut \/ Crash)
         \/ (Shop!Hydrated /\ dirty => Whole) /\ Reload
  PROVE  Typed' /\ StockIsExplained' /\ DiskIsExplained' /\ UnlockIsClean' /\ UNCHANGED files
<1> DEFINE Goal == Typed' /\ StockIsExplained' /\ DiskIsExplained' /\ UnlockIsClean' /\ UNCHANGED files
<1>0. Typed /\ InStock \in Nat /\ MaxSale \in Nat
  BY BackupAssumption DEF BackupIInv, BackupTypeOK, Shop!ShopTypeOK, Typed
<1>i. StockIsExplained /\ DiskIsExplained /\ UnlockIsClean
  BY DEF BackupIInv
<1> USE <1>0, <1>i DEF Typed, StockIsExplained, DiskIsExplained, UnlockIsClean,
        Shop!SignedIn, Shop!Hydrated
<1>1. CASE \E n \in 1 .. MaxSale : Trade(n)
  <2>1. PICK n \in 1 .. MaxSale : Trade(n)
    BY <1>1
  <2>2. n \in Nat /\ n <= stock /\ session = "ready"
    BY <2>1 DEF Trade, Shop!Sell
  <2>3. stock' = stock - n /\ stock' \in Nat
    BY <2>1, <2>2, SaleNeverClamped DEF Trade, Shop!Sell
  <2>4. /\ ledger' = ledger - n /\ dirty' = TRUE /\ session' = session /\ saved' = saved
        /\ list' = Listed(n) /\ UNCHANGED <<files, reloading>>
    BY <2>1 DEF Trade, Shop!Sell
  <2>5. dirty' \in BOOLEAN
    BY <2>4
  <2>6. ledger' \in Int /\ stock' = InStock + ledger' /\ list' \in Int
    BY <2>2, <2>3, <2>4 DEF Listed
  <2>7. Typed'
    BY <2>3, <2>4, <2>5, <2>6
  <2> QED
    BY <2>2, <2>4, <2>6, <2>7
<1>2. CASE Launch
  <2>1. dirty' \in BOOLEAN /\ reloading' \in BOOLEAN
    BY <1>2 DEF Launch, Shop!Launch, Shop!Seed, FreshList
  <2>2. StockIsExplained' /\ DiskIsExplained' /\ UnlockIsClean' /\ UNCHANGED files
    BY <1>2 DEF Launch, Shop!Launch, Shop!Seed, FreshList
  <2>3. /\ session' \in {"off", "signedOut", "ready", "locked", "unlocking"}
        /\ stock' \in Nat /\ saved' \in Nat /\ ledger' \in Int /\ list' \in Int
    BY <1>2 DEF Launch, Shop!Launch, Shop!Seed, FreshList
  <2> QED
    BY <2>1, <2>2, <2>3
<1>3. CASE SignIn
  <2>1. dirty' \in BOOLEAN /\ reloading' \in BOOLEAN
    BY <1>3 DEF SignIn, Shop!SignIn, FreshList
  <2>2. StockIsExplained' /\ DiskIsExplained' /\ UnlockIsClean' /\ UNCHANGED files
    BY <1>3 DEF SignIn, Shop!SignIn, FreshList
  <2>3. /\ session' \in {"off", "signedOut", "ready", "locked", "unlocking"}
        /\ stock' \in Nat /\ saved' \in Nat /\ ledger' \in Int /\ list' \in Int
    BY <1>3 DEF SignIn, Shop!SignIn, FreshList
  <2> QED
    BY <2>1, <2>2, <2>3
<1>4. CASE Hydrate
  <2>1. dirty' \in BOOLEAN /\ reloading' \in BOOLEAN
    BY <1>4 DEF Hydrate
  <2>2. StockIsExplained' /\ DiskIsExplained' /\ UnlockIsClean' /\ UNCHANGED files
    BY <1>4 DEF Hydrate
  <2>3. /\ session' \in {"off", "signedOut", "ready", "locked", "unlocking"}
        /\ stock' \in Nat /\ saved' \in Nat /\ ledger' \in Int /\ list' \in Int
    BY <1>4 DEF Hydrate
  <2> QED
    BY <2>1, <2>2, <2>3
<1>5. CASE DebouncedFlush
  <2>1. dirty' \in BOOLEAN /\ reloading' \in BOOLEAN
    BY <1>5 DEF DebouncedFlush, Shop!Flush
  <2>2. StockIsExplained' /\ DiskIsExplained' /\ UnlockIsClean' /\ UNCHANGED files
    BY <1>5 DEF DebouncedFlush, Shop!Flush
  <2>3. /\ session' \in {"off", "signedOut", "ready", "locked", "unlocking"}
        /\ stock' \in Nat /\ saved' \in Nat /\ ledger' \in Int /\ list' \in Int
    BY <1>5 DEF DebouncedFlush, Shop!Flush
  <2> QED
    BY <2>1, <2>2, <2>3
<1>6. CASE Lock
  <2>1. dirty' \in BOOLEAN /\ reloading' \in BOOLEAN
    BY <1>6 DEF Lock, Shop!Lock
  <2>2. StockIsExplained' /\ DiskIsExplained' /\ UnlockIsClean' /\ UNCHANGED files
    BY <1>6 DEF Lock, Shop!Lock
  <2>3. /\ session' \in {"off", "signedOut", "ready", "locked", "unlocking"}
        /\ stock' \in Nat /\ saved' \in Nat /\ ledger' \in Int /\ list' \in Int
    BY <1>6 DEF Lock, Shop!Lock
  <2> QED
    BY <2>1, <2>2, <2>3
<1>7. CASE Unlock
  <2>1. dirty' \in BOOLEAN /\ reloading' \in BOOLEAN
    BY <1>7 DEF Unlock, Shop!UnlockEnd, FreshList
  <2>2. StockIsExplained' /\ DiskIsExplained' /\ UnlockIsClean' /\ UNCHANGED files
    BY <1>7 DEF Unlock, Shop!UnlockEnd, FreshList
  <2>3. /\ session' \in {"off", "signedOut", "ready", "locked", "unlocking"}
        /\ stock' \in Nat /\ saved' \in Nat /\ ledger' \in Int /\ list' \in Int
    BY <1>7 DEF Unlock, Shop!UnlockEnd, FreshList
  <2> QED
    BY <2>1, <2>2, <2>3
<1>8. CASE ~dirty /\ UnlockBegin
  <2>1. dirty' \in BOOLEAN /\ reloading' \in BOOLEAN
    BY <1>8 DEF UnlockBegin, Shop!UnlockBegin
  <2>2. StockIsExplained' /\ DiskIsExplained' /\ UnlockIsClean' /\ UNCHANGED files
    BY <1>8 DEF UnlockBegin, Shop!UnlockBegin
  <2>3. /\ session' \in {"off", "signedOut", "ready", "locked", "unlocking"}
        /\ stock' \in Nat /\ saved' \in Nat /\ ledger' \in Int /\ list' \in Int
    BY <1>8 DEF UnlockBegin, Shop!UnlockBegin
  <2> QED
    BY <2>1, <2>2, <2>3
<1>9. CASE ~dirty /\ SignOut
  <2>1. dirty' \in BOOLEAN /\ reloading' \in BOOLEAN
    BY <1>9 DEF SignOut, Shop!SignOut, Shop!Seed, FreshList
  <2>2. StockIsExplained' /\ DiskIsExplained' /\ UnlockIsClean' /\ UNCHANGED files
    BY <1>9 DEF SignOut, Shop!SignOut, Shop!Seed, FreshList
  <2>3. /\ session' \in {"off", "signedOut", "ready", "locked", "unlocking"}
        /\ stock' \in Nat /\ saved' \in Nat /\ ledger' \in Int /\ list' \in Int
    BY <1>9 DEF SignOut, Shop!SignOut, Shop!Seed, FreshList
  <2> QED
    BY <2>1, <2>2, <2>3
<1>10. CASE ~dirty /\ Crash
  <2>1. dirty' \in BOOLEAN /\ reloading' \in BOOLEAN
    BY <1>10 DEF Crash, Shop!Crash, Shop!Seed, FreshList
  <2>2. StockIsExplained' /\ DiskIsExplained' /\ UnlockIsClean' /\ UNCHANGED files
    BY <1>10 DEF Crash, Shop!Crash, Shop!Seed, FreshList
  <2>3. /\ session' \in {"off", "signedOut", "ready", "locked", "unlocking"}
        /\ stock' \in Nat /\ saved' \in Nat /\ ledger' \in Int /\ list' \in Int
    BY <1>10 DEF Crash, Shop!Crash, Shop!Seed, FreshList
  <2> QED
    BY <2>1, <2>2, <2>3
<1>11. CASE (Shop!Hydrated /\ dirty => Whole) /\ Reload
  <2>1. dirty' \in BOOLEAN /\ reloading' \in BOOLEAN
    BY <1>11 DEF Reload, Shop!Seed, Whole
  <2>2. StockIsExplained' /\ DiskIsExplained' /\ UnlockIsClean' /\ UNCHANGED files
    BY <1>11 DEF Reload, Shop!Seed, Whole
  <2>3. /\ session' \in {"off", "signedOut", "ready", "locked", "unlocking"}
        /\ stock' \in Nat /\ saved' \in Nat /\ ledger' \in Int /\ list' \in Int
    BY <1>11 DEF Reload, Shop!Seed, Whole
  <2> QED
    BY <2>1, <2>2, <2>3
<1> QED
  BY <1>1, <1>2, <1>3, <1>4, <1>5, <1>6, <1>7, <1>8, <1>9, <1>10, <1>11

(* Every step keeps every backup reconciled.                               *)
LEMMA StepBackupIInv == BackupIInv /\ [BackupNext]_backupVars => BackupIInv'
<1> SUFFICES ASSUME BackupIInv, [BackupNext]_backupVars PROVE BackupIInv'
  OBVIOUS
<1>0. Typed /\ InStock \in Nat
  BY BackupAssumption DEF BackupIInv, BackupTypeOK, Shop!ShopTypeOK, Typed
<1>i. /\ BackupTypeOK /\ StockIsExplained /\ DiskIsExplained /\ UnlockIsClean
      /\ BackupsReconcile
  BY DEF BackupIInv
<1>q. ASSUME Typed', StockIsExplained', DiskIsExplained', UnlockIsClean',
             files' \in [Kinds -> File \cup {NoFile}], BackupsReconcile'
      PROVE  BackupIInv'
  BY <1>q DEF BackupIInv, BackupTypeOK, Shop!ShopTypeOK, Typed
<1>1. CASE \/ \E n \in 1 .. MaxSale : Trade(n)
           \/ Launch \/ SignIn \/ Hydrate \/ DebouncedFlush \/ Lock \/ Unlock
           \/ ~dirty /\ (UnlockBegin \/ SignOut \/ Crash)
           \/ (Shop!Hydrated /\ dirty => Whole) /\ Reload
  BY <1>1, <1>i, <1>q, ShopSteps, UntouchedReconciles
<1>2. ASSUME NEW sealed \in BOOLEAN, ExportBackup(sealed) PROVE BackupIInv'
  <2>1. /\ session = "ready" /\ dirty' = TRUE
        /\ UNCHANGED <<session, stock, saved, ledger, list, reloading>>
        /\ Store("export", BackupData(ledger, sealed))
    BY <1>2 DEF ExportBackup
  <2>2. stock = InStock + ledger
    BY <1>i, <2>1 DEF StockIsExplained, Shop!SignedIn
  <2>3. files' \in [Kinds -> File \cup {NoFile}] /\ BackupsReconcile'
    BY <1>0, <1>i, <2>1, <2>2, BackupDataReconciles, StoredReconciles DEF Typed, Kinds
  <2>4. dirty' \in BOOLEAN
    BY <2>1
  <2>5. Typed' /\ StockIsExplained' /\ DiskIsExplained' /\ UnlockIsClean'
    BY <1>0, <2>1, <2>2, <2>4 DEF Typed, StockIsExplained, DiskIsExplained, UnlockIsClean,
                             Shop!Hydrated
  <2> QED
    BY <1>q, <2>3, <2>5
<1>3. CASE BackupToPath
  <2>1. /\ session = "ready" /\ dirty' = TRUE
        /\ UNCHANGED <<session, stock, saved, ledger, list, reloading>>
        /\ Store("folder", BackupData(ledger, FALSE))
    BY <1>3 DEF BackupToPath
  <2>2. stock = InStock + ledger
    BY <1>i, <2>1 DEF StockIsExplained, Shop!SignedIn
  <2>3. files' \in [Kinds -> File \cup {NoFile}] /\ BackupsReconcile'
    BY <1>0, <1>i, <2>1, <2>2, BackupDataReconciles, StoredReconciles DEF Typed, Kinds
  <2>4. dirty' \in BOOLEAN
    BY <2>1
  <2>5. Typed' /\ StockIsExplained' /\ DiskIsExplained' /\ UnlockIsClean'
    BY <1>0, <2>1, <2>2, <2>4 DEF Typed, StockIsExplained, DiskIsExplained, UnlockIsClean,
                             Shop!Hydrated
  <2> QED
    BY <1>q, <2>3, <2>5
<1>4. CASE Whole /\ InternalBackup
  <2>1. /\ Shop!SignedIn /\ list = ledger /\ dirty' = Shop!Hydrated
        /\ UNCHANGED <<session, stock, saved, ledger, list, reloading>>
        /\ Store("internal", BackupData(ledger, FALSE))
    BY <1>4 DEF InternalBackup, Whole
  <2>2. stock = InStock + ledger
    BY <1>i, <2>1 DEF StockIsExplained
  <2>3. files' \in [Kinds -> File \cup {NoFile}] /\ BackupsReconcile'
    BY <1>0, <1>i, <2>1, <2>2, BackupDataReconciles, StoredReconciles DEF Typed, Kinds
  <2>4. dirty' \in BOOLEAN
    BY <2>1 DEF Shop!Hydrated
  <2>5. session = "ready" \/ session = "locked" \/ saved = InStock + ledger
    BY <1>0, <1>i, <2>1 DEF UnlockIsClean, Shop!SignedIn
  <2>6. DiskIsExplained'
    BY <2>1, <2>5 DEF DiskIsExplained, Shop!Hydrated
  <2>7. Typed' /\ StockIsExplained' /\ UnlockIsClean'
    BY <1>0, <1>i, <2>1, <2>2, <2>4 DEF Typed, StockIsExplained, UnlockIsClean
  <2> QED
    BY <1>q, <2>3, <2>6, <2>7
<1>5. ASSUME NEW backup \in BOOLEAN, Shop!Hydrated => Whole, Close(backup) PROVE BackupIInv'
  <2>1. /\ session' = "off" /\ stock' = 0 /\ list' = 0
        /\ dirty' = FALSE /\ reloading' = FALSE
    BY <1>5 DEF Close, Shop!Seed
  <2>2. ledger' = ledger
    BY <1>5 DEF Close, Whole
  <2>3. saved' = IF Shop!Hydrated THEN stock ELSE saved
    BY <1>5 DEF Close, Shop!LastFlush
  <2>4. saved' = InStock + ledger' /\ saved' \in Nat
    BY <1>0, <1>i, <2>2, <2>3 DEF Typed, StockIsExplained, DiskIsExplained,
       Shop!SignedIn, Shop!Hydrated
  <2>5. files' \in [Kinds -> File \cup {NoFile}] /\ BackupsReconcile'
    <3>1. CASE backup /\ Shop!SignedIn
      <4>1. Store("folder", BackupData(ledger, FALSE))
        BY <1>5, <2>2, <3>1 DEF Close
      <4>2. stock = InStock + ledger
        BY <1>i, <3>1 DEF StockIsExplained
      <4> QED
        BY <1>0, <1>i, <4>1, <4>2, BackupDataReconciles, StoredReconciles DEF Typed, Kinds
    <3>2. CASE ~(backup /\ Shop!SignedIn)
      <4>1. UNCHANGED files
        BY <1>5, <3>2 DEF Close
      <4> QED
        BY <1>i, <4>1, UntouchedReconciles
    <3> QED
      BY <3>1, <3>2
  <2>6. dirty' \in BOOLEAN /\ reloading' \in BOOLEAN
    BY <2>1
  <2>7. Typed' /\ StockIsExplained' /\ DiskIsExplained' /\ UnlockIsClean'
    BY <1>0, <2>1, <2>2, <2>4, <2>6 DEF Typed, StockIsExplained, DiskIsExplained,
       UnlockIsClean, Shop!SignedIn
  <2> QED
    BY <1>q, <2>5, <2>7
<1>6. ASSUME NEW kind \in Kinds, NEW refused \in BOOLEAN, ImportBackup(kind, refused)
      PROVE  BackupIInv'
  <2>1. /\ session = "ready" /\ session' = session /\ files[kind] # NoFile
        /\ stock' = files[kind].stock /\ saved' = files[kind].stock
        /\ ledger' = files[kind].ledger /\ list' = 0
        /\ dirty' = TRUE /\ reloading' = ~refused /\ UNCHANGED files
    BY <1>6 DEF ImportBackup, Opens
  <2>2. files[kind] \in File /\ files[kind].stock = InStock + files[kind].ledger
    BY <1>i, <2>1 DEF BackupTypeOK, BackupsReconcile
  <2>3. stock' \in Nat /\ ledger' \in Int
    BY <2>1, <2>2 DEF File
  <2>4. dirty' \in BOOLEAN /\ reloading' \in BOOLEAN
    BY <2>1
  <2>5. Typed' /\ StockIsExplained' /\ DiskIsExplained' /\ UnlockIsClean'
    BY <2>1, <2>2, <2>3, <2>4 DEF Typed, StockIsExplained, DiskIsExplained, UnlockIsClean
  <2>6. files' \in [Kinds -> File \cup {NoFile}] /\ BackupsReconcile'
    BY <1>i, <2>1, UntouchedReconciles
  <2> QED
    BY <1>q, <2>5, <2>6
<1>7. CASE UNCHANGED backupVars
  <2>1. UNCHANGED <<session, stock, saved, ledger, dirty, list, reloading>> /\ UNCHANGED files
    BY <1>7 DEF backupVars
  <2>2. Typed' /\ StockIsExplained' /\ DiskIsExplained' /\ UnlockIsClean'
    BY <1>0, <1>i, <2>1 DEF Typed, StockIsExplained, DiskIsExplained, UnlockIsClean,
       Shop!SignedIn, Shop!Hydrated
  <2> QED
    BY <1>i, <1>q, <2>1, <2>2, UntouchedReconciles
<1> QED
  BY <1>1, <1>2, <1>3, <1>4, <1>5, <1>6, <1>7 DEF BackupNext

(* The invariant holds of every state the shop and its backups can reach.  *)
THEOREM BackupsAlwaysIInv == BackupSpec => []BackupIInv
<1>1. BackupInit => BackupIInv
  BY InitBackupIInv
<1>2. BackupIInv /\ [BackupNext]_backupVars => BackupIInv'
  BY StepBackupIInv
<1> QED BY <1>1, <1>2, PTL DEF BackupSpec

(* What memory, disk and the files hold keeps its types, whatever was      *)
(* exported, restored, locked or lost in a crash.                          *)
THEOREM BackupsTypeCorrect == BackupSpec => []BackupTypeOK
<1>1. BackupIInv => BackupTypeOK
  BY DEF BackupIInv
<1> QED BY <1>1, BackupsAlwaysIInv, PTL

(* Exported by hand, to a folder or inside the program, before or after    *)
(* restores, reloads, locks and crashes: the movements of every backup     *)
(* explain its stock (buildBackupData, AppContext.tsx:3278-3310).          *)
THEOREM BackupsAlwaysReconcile == BackupSpec => []BackupsReconcile
<1>1. BackupIInv => BackupsReconcile
  BY DEF BackupIInv
<1> QED BY <1>1, BackupsAlwaysIInv, PTL

---------------------------------------------------------------------------
(* The three books side by side                                            *)

(* A step of the composed books is a step or a stutter of each of them.    *)
LEMMA BookSteps ==
  /\ [BooksNext]_booksVars => [Next]_vars
  /\ [BooksNext]_booksVars => [PurchaseNext]_purchaseVars
  /\ [BooksNext]_booksVars => [BackupNext]_backupVars
BY DEF BooksNext, booksVars

(* Each book runs as if it were alone.                                     *)
THEOREM EachBookAlone == BooksSpec => Spec /\ PurchaseSpec /\ BackupSpec
BY BookSteps, PTL DEF BooksSpec, BooksInit, Spec, PurchaseSpec, BackupSpec

(* Whatever any of the books does, the variables of all keep their types   *)
(* (MCBooks).                                                              *)
THEOREM BooksTypeCorrect == BooksSpec => []BooksTypeOK
<1>1. TypeOK /\ PurchaseTypeOK /\ BackupTypeOK => BooksTypeOK
  BY DEF BooksTypeOK
<1> QED BY <1>1, EachBookAlone, SalesTypeCorrect, PurchasesTypeCorrect, BackupsTypeCorrect, PTL
=============================================================================
