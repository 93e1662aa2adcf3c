-------------------------- MODULE SalesLedger_proofs --------------------------
(***************************************************************************)
(* The sales ledger adds up for any number of customers, invoices and      *)
(* units and any price: TypeOK, MoneyAccounted, OwedOnce, StockExplained,  *)
(* NoUnitTwice and CreditConserved of SalesLedger.                         *)
(*                                                                         *)
(* SalesInv is the inductive invariant.  Its heart is Fine, which relates  *)
(* one invoice to the returns, movements and cash entries filed under its  *)
(* number; every action but a sale and a settlement touches one number, so *)
(* it is enough to show that what it writes there is fine and that the     *)
(* shelf moves by as much as the ledger does.                              *)
(***************************************************************************)
EXTENDS SalesLedger, FiniteSums

---------------------------------------------------------------------------
(* What one party's credit comes to when it is spread over what the party  *)
(* owes: for customers here, for suppliers in Books_proofs.                *)

(* The positive part of a number is not negative.                          *)
LEMMA PosNat == \A n \in Int : Pos(n) \in Nat
BY DEF Pos

(* Credit that covers the amount is taken off the sources exactly once.    *)
LEMMA SpentInFull ==
  ASSUME NEW invs, IsFiniteSet(DOMAIN invs), DOMAIN invs \subseteq Int,
         NEW sources, sources \subseteq DOMAIN invs,
         \A n \in sources : invs[n].over \in Nat,
         NEW amount \in Nat, amount <= SumFunctionOnSet(Credit(invs), sources)
  PROVE  /\ SumFunctionOnSet(Spent(invs, sources, amount), sources) = amount
         /\ \A n \in DOMAIN invs : Spent(invs, sources, amount)[n] \in Nat
         /\ \A n \in sources : Spent(invs, sources, amount)[n] <= invs[n].over
         /\ \A n \in DOMAIN invs \ sources : Spent(invs, sources, amount)[n] = 0
<1> DEFINE f == Credit(invs)
           g == FromTheNewest(f, sources, amount)
           h == Spent(invs, sources, amount)
           left(n) == SumFunctionOnSet(f, {s \in sources : s > n})
<1>1. IsFiniteSet(sources) /\ sources \subseteq Int
  BY FS_Subset
<1>2. \A n \in sources : f[n] \in Nat /\ f[n] = invs[n].over
  BY DEF Credit
<1>3. \A n \in sources : left(n) \in Int
  <2> SUFFICES ASSUME NEW n \in sources PROVE left(n) \in Int
    OBVIOUS
  <2> DEFINE A == {s \in sources : s > n}
  <2>1. IsFiniteSet(A) /\ \A x \in A : f[x] \in Int
    BY <1>1, <1>2, FS_Subset
  <2> HIDE DEF A, f
  <2>2. SumFunctionOnSet(f, A) \in Int
    BY <2>1, SumInt
  <2> QED BY <2>2 DEF A
<1>4. \A n \in sources : /\ h[n] = Lesser(f[n], Pos(amount - left(n)))
                         /\ g[n] = Share(f[n], amount - left(n))
  BY <1>2 DEF Spent, FromTheNewest
<1>5. \A n \in DOMAIN invs \ sources : h[n] = 0
  BY DEF Spent
<1> HIDE DEF f, g, h, left
<1>6. \A n \in sources : h[n] = g[n] /\ h[n] \in Nat /\ h[n] <= f[n]
  BY <1>2, <1>3, <1>4 DEF Lesser, Pos, Share
<1>7. SumFunctionOnSet(h, sources) = SumFunctionOnSet(g, sources)
  BY <1>1, <1>6, SumSame
<1>8. SumFunctionOnSet(g, sources) = Share(SumFunctionOnSet(f, sources), amount)
  BY <1>1, <1>2, TotalFromTheNewest DEF g
<1>9. SumFunctionOnSet(f, sources) \in Nat
  BY <1>1, <1>2, SumNat
<1>10. amount <= SumFunctionOnSet(f, sources)
  BY DEF f
<1>11. SumFunctionOnSet(h, sources) = amount
  BY <1>7, <1>8, <1>9, <1>10 DEF Share
<1>12. \A n \in DOMAIN invs : h[n] \in Nat
  BY <1>5, <1>6
<1> QED BY <1>2, <1>5, <1>6, <1>11, <1>12 DEF h

(* The targets get no more than the pool holds and none gets more than it  *)
(* is owed.                                                                *)
LEMMA AppliedAtMost ==
  ASSUME NEW invs, IsFiniteSet(DOMAIN invs), DOMAIN invs \subseteq Int,
         NEW targets, targets \subseteq DOMAIN invs,
         \A n \in targets : invs[n].remaining \in Nat,
         NEW pool \in Nat
  PROVE  /\ SumFunctionOnSet(Applied(invs, targets, pool), targets) \in Nat
         /\ SumFunctionOnSet(Applied(invs, targets, pool), targets) <= pool
         /\ \A n \in DOMAIN invs : Applied(invs, targets, pool)[n] \in Nat
         /\ \A n \in targets : Applied(invs, targets, pool)[n] <= invs[n].remaining
         /\ \A n \in DOMAIN invs \ targets : Applied(invs, targets, pool)[n] = 0
<1> DEFINE f == Owed(invs)
           g == FromTheOldest(f, targets, pool)
           h == Applied(invs, targets, pool)
           left(n) == SumFunctionOnSet(f, {s \in targets : s < n})
<1>1. IsFiniteSet(targets) /\ targets \subseteq Int
  BY FS_Subset
<1>2. \A n \in targets : f[n] \in Nat /\ f[n] = invs[n].remaining
  BY DEF Owed
<1>3. \A n \in targets : left(n) \in Int
  <2> SUFFICES ASSUME NEW n \in targets PROVE left(n) \in Int
    OBVIOUS
  <2> DEFINE A == {s \in targets : s < n}
  <2>1. IsFiniteSet(A) /\ \A x \in A : f[x] \in Int
    BY <1>1, <1>2, FS_Subset
  <2> HIDE DEF A, f
  <2>2. SumFunctionOnSet(f, A) \in Int
    BY <2>1, SumInt
  <2> QED BY <2>2 DEF A
<1>4. \A n \in targets : /\ h[n] = Lesser(f[n], Pos(pool - left(n)))
                         /\ g[n] = Share(f[n], pool - left(n))
  BY <1>2 DEF Applied, FromTheOldest
<1>5. \A n \in DOMAIN invs \ targets : h[n] = 0
  BY DEF Applied
<1> HIDE DEF f, g, h, left
<1>6. \A n \in targets : h[n] = g[n] /\ h[n] \in Nat /\ h[n] <= f[n]
  BY <1>2, <1>3, <1>4 DEF Lesser, Pos, Share
<1>7. SumFunctionOnSet(h, targets) = SumFunctionOnSet(g, targets)
  BY <1>1, <1>6, SumSame
<1>8. SumFunctionOnSet(g, targets) = Share(SumFunctionOnSet(f, targets), pool)
  BY <1>1, <1>2, TotalFromTheOldest DEF g
<1>9. SumFunctionOnSet(f, targets) \in Nat
  BY <1>1, <1>2, SumNat
<1>10. /\ SumFunctionOnSet(h, targets) \in Nat
       /\ SumFunctionOnSet(h, targets) <= pool
  BY <1>7, <1>8, <1>9 DEF Share
<1>11. \A n \in DOMAIN invs : h[n] \in Nat
  BY <1>5, <1>6
<1> QED BY <1>2, <1>5, <1>6, <1>10, <1>11 DEF h

---------------------------------------------------------------------------
(* The inductive invariant                                                 *)

Fine(inv, back, refunded, moved, cash, credit) ==
  /\ inv \in Invoice /\ back \in Nat
  /\ refunded \in Int /\ moved \in Int /\ cash \in Int /\ credit \in Int
  /\ Collected(inv) = cash + refunded + credit
  /\ back <= inv.qty
  /\ moved = IF inv.cancelled THEN -back ELSE -inv.qty
  /\ ~inv.cancelled =>
       /\ inv.remaining = Pos((inv.qty - back) * Price - inv.received)
       /\ inv.status = "paid" <=> inv.remaining = 0
  /\ back = 0 => refunded = 0

SalesTypes ==
  /\ issued \in 0 .. MaxInvoices /\ shelf \in Nat
  /\ returned \in [Numbers -> Nat] /\ refunds \in [Numbers -> Int]
  /\ movements \in [Numbers -> Int] /\ drawer \in [Numbers -> Int]
  /\ transferred \in [Numbers -> Int]

(* Every number issued is on file or can be restored, never both.          *)
EachKeptOnce ==
  /\ OnFile \cup DOMAIN snapshots = 1 .. issued
  /\ OnFile \cap DOMAIN snapshots = {}

InvoicesFine ==
  \A n \in OnFile : Fine(invoices[n], returned[n], refunds[n], movements[n],
                         drawer[n], transferred[n])

SnapshotsFine ==
  \A n \in DOMAIN snapshots :
    Fine(snapshots[n].invoice, 0, 0, snapshots[n].movements, snapshots[n].drawer,
         transferred[n])

(* Nothing is filed under a number that is off file.                       *)
NothingLeftBehind ==
  \A n \in Numbers \ OnFile :
    returned[n] = 0 /\ refunds[n] = 0 /\ movements[n] = 0 /\ drawer[n] = 0

Owner(n) == IF n \in OnFile THEN invoices[n].customer ELSE snapshots[n].invoice.customer
NumbersOf(c) == {n \in 1 .. issued : Owner(n) = c}

CreditBalances ==
  \A c \in Customers : SumFunctionOnSet(transferred, NumbersOf(c)) = 0

SalesInv ==
  /\ SalesTypes /\ EachKeptOnce /\ InvoicesFine /\ SnapshotsFine
  /\ NothingLeftBehind /\ (\A n \in Numbers : n > issued => transferred[n] = 0)
  /\ StockExplained /\ CreditBalances

---------------------------------------------------------------------------
(* One invoice                                                             *)

(* Arithmetic of a quantity times a price.                                 *)
LEMMA Products ==
  /\ \A a, p \in Nat : a * p \in Nat
  /\ \A a, b, p \in Int : (a - b) * p = a * p - b * p
  /\ \A a, b, p \in Int : (a + b) * p = a * p + b * p
  /\ \A a, b \in Int, p \in Nat \ {0} : a * p <= b * p => a <= b
<1>1. \A a, p \in Nat : a * p \in Nat
  OBVIOUS
<1>2. \A a, b, p \in Int : (a - b) * p = a * p - b * p
  OBVIOUS
<1>3. \A a, b, p \in Int : (a + b) * p = a * p + b * p
  OBVIOUS
<1>4. \A a, b \in Int, p \in Nat \ {0} : a * p <= b * p => a <= b
  OBVIOUS
<1> QED BY <1>1, <1>2, <1>3, <1>4

(* The status says "paid" exactly when nothing is left to pay.             *)
LEMMA PaidStatus ==
  ASSUME NEW total \in Int, NEW paid \in Nat
  PROVE  /\ ComputeStatus(total, paid) \in Status
         /\ ComputeStatus(total, paid) = "paid" <=> Pos(total - paid) = 0
BY DEF ComputeStatus, Status, Pos

(* A payment, which only adds to what was received and overpaid.           *)
LEMMA FineReceipt ==
  ASSUME NEW inv, NEW back, NEW refunded, NEW moved, NEW cash, NEW credit,
         Fine(inv, back, refunded, moved, cash, credit),
         ~inv.cancelled, inv.remaining > 0, NEW amount \in Nat,
         NEW used, used = Lesser(amount, inv.remaining),
         NEW left, left = Pos(inv.remaining - used)
  PROVE  Fine([inv EXCEPT !.received = @ + used, !.over = @ + amount - used,
                          !.remaining = left,
                          !.status = IF left <= 0 THEN "paid" ELSE "partial"],
              back, refunded, moved, cash + amount, credit)
<1> DEFINE owed == (inv.qty - back) * Price
           paid == [inv EXCEPT !.received = @ + used, !.over = @ + amount - used,
                               !.remaining = left,
                               !.status = IF left <= 0 THEN "paid" ELSE "partial"]
<1>1. /\ inv \in Invoice /\ inv.received \in Nat /\ inv.over \in Nat /\ inv.remaining \in Nat
      /\ back \in Nat /\ refunded \in Int /\ moved \in Int /\ cash \in Int /\ credit \in Int
  BY DEF Fine, Invoice
<1>2. owed \in Int
  BY <1>1, SalesAssumption DEF Invoice
<1>3. /\ used \in Nat /\ left \in Nat
      /\ inv.received + used \in Nat /\ inv.over + amount - used \in Nat
  BY <1>1 DEF Lesser, Pos
<1>4. paid \in Invoice
  <2>1. (IF left <= 0 THEN "paid" ELSE "partial") \in Status
    BY DEF Status
  <2> QED BY <1>1, <1>3, <2>1 DEF Invoice
<1>5. Collected(paid) = (cash + amount) + refunded + credit
  BY <1>1, <1>3 DEF Fine, Collected, Invoice
<1>6. left = Pos(owed - (inv.received + used))
  <2>1. inv.remaining = Pos(owed - inv.received)
    BY DEF Fine
  <2> HIDE DEF owed
  <2> QED BY <1>1, <1>2, <1>3, <2>1 DEF Pos, Lesser
<1>7. /\ paid.qty = inv.qty /\ paid.cancelled = inv.cancelled
      /\ paid.remaining = left /\ paid.received = inv.received + used
      /\ paid.status = IF left <= 0 THEN "paid" ELSE "partial"
  BY <1>1 DEF Invoice
<1>8. /\ back <= inv.qty /\ moved = -inv.qty
      /\ back = 0 => refunded = 0
  BY DEF Fine
<1>9. paid.status = "paid" <=> paid.remaining = 0
  BY <1>3, <1>7
<1>10. paid.remaining = Pos((paid.qty - back) * Price - paid.received)
  BY <1>6, <1>7
<1>11. cash + amount \in Int
  BY <1>1
<1> HIDE DEF paid
<1>12. Fine(paid, back, refunded, moved, cash + amount, credit)
  BY <1>1, <1>4, <1>5, <1>7, <1>8, <1>9, <1>10, <1>11 DEF Fine
<1> QED BY <1>12 DEF paid

(* A new split keeps the customer, the quantity and all of the money.      *)
LEMMA ResplitKeeps ==
  \A inv \in Invoice, money \in Nat, owed \in Nat :
    /\ Collected(Resplit(inv, owed, money)) = money
    /\ Resplit(inv, owed, money).customer = inv.customer
<1> SUFFICES ASSUME NEW inv \in Invoice, NEW money \in Nat, NEW owed \in Nat
             PROVE  /\ Collected(Resplit(inv, owed, money)) = money
                    /\ Resplit(inv, owed, money).customer = inv.customer
  OBVIOUS
<1> DEFINE split == Resplit(inv, owed, money)
<1>1. /\ split.received = Lesser(money, owed) /\ split.over = Pos(money - owed)
      /\ split.customer = inv.customer
  BY DEF Resplit, Invoice
<1>2. Lesser(money, owed) + Pos(money - owed) = money
  BY DEF Lesser, Pos
<1> HIDE DEF split
<1>3. Collected(split) = money
  BY <1>1, <1>2 DEF Collected
<1> QED BY <1>1, <1>3 DEF split

(* What is owed after returns is never negative.                           *)
LEMMA NetTotalNat ==
  \A qty \in Nat, back \in Nat : NetTotal(qty, back) \in Nat
BY SalesAssumption DEF NetTotal, Pos

(* An invoice whose money is split again over what is owed now.            *)
LEMMA FineResplit ==
  ASSUME NEW inv \in Invoice, ~inv.cancelled, NEW back \in Nat, back <= inv.qty,
         NEW money \in Nat, NEW owed, owed = NetTotal(inv.qty, back),
         NEW refunded \in Int, NEW cash \in Int, NEW credit \in Int,
         money = cash + refunded + credit, back = 0 => refunded = 0,
         NEW moved, moved = -inv.qty
  PROVE  Fine(Resplit(inv, owed, money), back, refunded, moved, cash, credit)
<1> DEFINE split == Resplit(inv, owed, money)
<1>1. inv.qty \in Nat /\ back \in Int
  BY DEF Invoice
<1>2. /\ (inv.qty - back) * Price = inv.qty * Price - back * Price
      /\ (inv.qty - back) * Price \in Nat
  BY <1>1, Products, SalesAssumption
<1>3. owed = (inv.qty - back) * Price
  BY <1>1, <1>2 DEF NetTotal, Pos
<1>4. owed \in Nat
  BY <1>2, <1>3
<1>5. /\ Lesser(money, owed) \in Nat /\ Pos(money - owed) \in Nat
      /\ Pos(owed - Lesser(money, owed)) \in Nat
      /\ Lesser(money, owed) + Pos(money - owed) = money
  BY <1>4 DEF Lesser, Pos
<1>6. /\ ComputeStatus(owed, Lesser(money, owed)) \in Status
      /\ ComputeStatus(owed, Lesser(money, owed)) = "paid" <=>
           Pos(owed - Lesser(money, owed)) = 0
  <2> DEFINE kept == Lesser(money, owed)
  <2>1. kept \in Nat /\ owed \in Int
    BY <1>4, <1>5
  <2> HIDE DEF kept
  <2>2. /\ ComputeStatus(owed, kept) \in Status
        /\ ComputeStatus(owed, kept) = "paid" <=> Pos(owed - kept) = 0
    BY <2>1, PaidStatus
  <2> QED BY <2>2 DEF kept
<1>7. /\ split.received = Lesser(money, owed) /\ split.over = Pos(money - owed)
      /\ split.remaining = Pos(owed - Lesser(money, owed))
      /\ split.status = ComputeStatus(owed, Lesser(money, owed))
      /\ split.qty = inv.qty /\ split.cancelled = inv.cancelled
      /\ split.customer = inv.customer
  BY DEF Resplit, Invoice
<1>8. split \in Invoice
  BY <1>5, <1>6 DEF Resplit, Invoice
<1> HIDE DEF split
<1>9. Collected(split) = money
  BY <1>5, <1>7 DEF Collected
<1>10. split.remaining = Pos((split.qty - back) * Price - split.received)
  BY <1>3, <1>7
<1>11. split.status = "paid" <=> split.remaining = 0
  BY <1>6, <1>7
<1>12. moved \in Int /\ moved = -split.qty
  BY <1>1, <1>7
<1>13. Fine(split, back, refunded, moved, cash, credit)
  BY <1>7, <1>8, <1>9, <1>10, <1>11, <1>12 DEF Fine
<1> QED BY <1>13 DEF split

(* Cancelling an invoice leaves it fine, with its goods that were not      *)
(* returned back in stock and its money refunded as the mode says.         *)
LEMMA FineVoid ==
  ASSUME NEW inv, NEW back, NEW refunded, NEW moved, NEW cash, NEW credit,
         Fine(inv, back, refunded, moved, cash, credit), ~inv.cancelled,
         NEW mode \in {"none", "cash", "credit"}, mode = "none" <=> Collected(inv) = 0
  PROVE  /\ Fine(Voided(inv, mode), back, refunded, moved + Pos(inv.qty - back),
                 IF mode = "cash" THEN cash - Collected(inv) ELSE cash, credit)
         /\ Voided(inv, mode).customer = inv.customer
         /\ Pos(inv.qty - back) = inv.qty - back
<1> DEFINE void == Voided(inv, mode)
<1>1. /\ inv \in Invoice /\ inv.received \in Nat /\ inv.over \in Nat /\ inv.qty \in Nat
      /\ back \in Nat /\ refunded \in Int /\ moved \in Int /\ cash \in Int /\ credit \in Int
      /\ back <= inv.qty /\ moved = -inv.qty
  BY DEF Fine, Invoice
<1>2. void \in Invoice /\ void.cancelled /\ void.qty = inv.qty /\ void.customer = inv.customer
  <2>1. Collected(inv) \in Nat
    BY <1>1 DEF Collected
  <2> QED BY <1>1, <2>1 DEF Voided, Invoice
<1>3. Collected(void) = (IF mode = "cash" THEN 0 ELSE Collected(inv))
  BY <1>1 DEF Voided, Invoice, Collected
<1>4. Collected(inv) = cash + refunded + credit
  BY DEF Fine
<1>5. Pos(inv.qty - back) = inv.qty - back
  BY <1>1 DEF Pos
<1>6. Collected(void)
        = (IF mode = "cash" THEN cash - Collected(inv) ELSE cash) + refunded + credit
  BY <1>1, <1>3, <1>4
<1>7. (IF mode = "cash" THEN cash - Collected(inv) ELSE cash) \in Int
  BY <1>1, <1>4
<1>8. moved + Pos(inv.qty - back) = -back /\ -back \in Int
  BY <1>1, <1>5
<1>9. back = 0 => refunded = 0
  BY DEF Fine
<1> HIDE DEF void
<1>10. Fine(void, back, refunded, moved + Pos(inv.qty - back),
            IF mode = "cash" THEN cash - Collected(inv) ELSE cash, credit)
  BY <1>1, <1>2, <1>6, <1>7, <1>8, <1>9 DEF Fine
<1> QED BY <1>2, <1>5, <1>10 DEF void

(* An invoice that is given credit, or gives some of its own.              *)
Moved1(inv, gain, loss) ==
  LET before == [inv EXCEPT !.over = @ - loss]
      paid   == before.received + gain
  IN  IF gain = 0 THEN before
      ELSE [before EXCEPT !.received  = paid,
                          !.remaining = Pos(Total(before) - paid),
                          !.status    = ComputeStatus(Total(before), paid)]

(* An invoice stays fine when credit is moved onto it or taken off its     *)
(* overpayment.                                                            *)
LEMMA FineMoved ==
  ASSUME NEW inv, NEW back, NEW refunded, NEW moved, NEW cash, NEW credit,
         Fine(inv, back, refunded, moved, cash, credit),
         NEW gain \in Nat, NEW loss \in Nat, loss <= inv.over,
         gain # 0 => back = 0 /\ ~inv.cancelled
  PROVE  /\ Fine(Moved1(inv, gain, loss), back, refunded, moved, cash,
                 credit + (gain - loss))
         /\ Moved1(inv, gain, loss).customer = inv.customer
         /\ Moved1(inv, gain, loss).qty = inv.qty
         /\ Moved1(inv, gain, loss).cancelled = inv.cancelled
<1> DEFINE before == [inv EXCEPT !.over = @ - loss]
           after  == Moved1(inv, gain, loss)
           total  == Total(before)
           paid   == before.received + gain
<1>1. /\ inv \in Invoice /\ inv.received \in Nat /\ inv.over \in Nat /\ inv.qty \in Nat
      /\ back \in Nat /\ refunded \in Int /\ moved \in Int /\ cash \in Int /\ credit \in Int
      /\ back <= inv.qty
      /\ back = 0 => refunded = 0
      /\ Collected(inv) = cash + refunded + credit
      /\ inv.cancelled \in BOOLEAN
  BY DEF Fine, Invoice
<1>2. /\ moved = IF inv.cancelled THEN -back ELSE -inv.qty
      /\ ~inv.cancelled =>
           /\ inv.remaining = Pos((inv.qty - back) * Price - inv.received)
           /\ inv.status = "paid" <=> inv.remaining = 0
  BY DEF Fine
<1>3. inv.over - loss \in Nat
  BY <1>1
<1>4. /\ before \in Invoice /\ before.over = inv.over - loss
      /\ before.received = inv.received /\ before.qty = inv.qty
      /\ before.remaining = inv.remaining /\ before.status = inv.status
      /\ before.cancelled = inv.cancelled /\ before.customer = inv.customer
  BY <1>1, <1>3 DEF Invoice
<1>5. credit + (gain - loss) \in Int
  BY <1>1
<1> HIDE DEF before
<1>6. CASE gain = 0
  <2>1. after = before
    BY <1>6 DEF before, Moved1
  <2>2. Collected(before) = cash + refunded + (credit + (gain - loss))
    BY <1>1, <1>4, <1>6 DEF Collected
  <2>3. Fine(before, back, refunded, moved, cash, credit + (gain - loss))
    BY <1>1, <1>2, <1>4, <1>5, <2>2 DEF Fine
  <2> QED BY <1>4, <2>1, <2>3 DEF Collected
<1>7. CASE gain # 0
  <2>1. after = [before EXCEPT !.received = paid, !.remaining = Pos(total - paid),
                               !.status = ComputeStatus(total, paid)]
    BY <1>7 DEF before, Moved1
  <2>2. total \in Nat /\ paid \in Nat /\ total = (inv.qty - 0) * Price
    BY <1>1, <1>4, Products, SalesAssumption DEF Total
  <2> HIDE DEF total, paid
  <2>3. Pos(total - paid) \in Nat
    BY <2>2, PosNat
  <2>4. /\ ComputeStatus(total, paid) \in Status
        /\ ComputeStatus(total, paid) = "paid" <=> Pos(total - paid) = 0
    <3>1. total \in Int /\ paid \in Nat
      BY <2>2
    <3> QED BY <3>1, PaidStatus
  <2> HIDE DEF after
  <2>5. /\ after \in Invoice /\ after.received = paid /\ after.over = before.over
        /\ after.remaining = Pos(total - paid) /\ after.status = ComputeStatus(total, paid)
        /\ after.qty = inv.qty /\ after.cancelled = inv.cancelled
        /\ after.customer = inv.customer
    BY <1>4, <2>1, <2>2, <2>3, <2>4 DEF Invoice
  <2>6. Collected(after) = cash + refunded + (credit + (gain - loss))
    BY <1>1, <1>4, <2>5 DEF Collected, paid
  <2>7. back = 0 /\ ~inv.cancelled
    BY <1>7
  <2>8. Fine(after, back, refunded, moved, cash, credit + (gain - loss))
    BY <1>1, <1>2, <1>5, <2>2, <2>4, <2>5, <2>6, <2>7 DEF Fine
  <2> QED BY <2>5, <2>8 DEF after
<1> QED BY <1>6, <1>7

---------------------------------------------------------------------------
(* What the invariant says of the whole ledger                             *)

(* The invoice numbers are finitely many integers.                         *)
LEMMA NumbersFinite == IsFiniteSet(Numbers) /\ Numbers \subseteq Int
BY FS_Interval, SalesAssumption DEF Numbers

(* What is filed under a number while the invoice is off file or cancelled *)
(* cancels out; otherwise it is what the invoice has outstanding.          *)
LEMMA Booked ==
  ASSUME SalesInv
  PROVE  \A n \in Numbers :
           movements[n] + returned[n] = IF n \in OnFile THEN -Outstanding[n] ELSE 0
<1> SUFFICES ASSUME NEW n \in Numbers
             PROVE  movements[n] + returned[n] = IF n \in OnFile THEN -Outstanding[n] ELSE 0
  OBVIOUS
<1>1. CASE n \in OnFile
  <2>1. Fine(invoices[n], returned[n], refunds[n], movements[n], drawer[n], transferred[n])
    BY <1>1 DEF SalesInv, InvoicesFine
  <2>2. /\ invoices[n].qty \in Nat /\ returned[n] \in Nat /\ movements[n] \in Int
        /\ movements[n] = IF invoices[n].cancelled THEN -returned[n] ELSE -invoices[n].qty
    BY <2>1 DEF Fine, Invoice
  <2>3. Outstanding[n] = IF invoices[n].cancelled THEN 0 ELSE invoices[n].qty - returned[n]
    BY <1>1 DEF Outstanding
  <2> QED BY <1>1, <2>2, <2>3
<1>2. CASE n \notin OnFile
  BY <1>2 DEF SalesInv, NothingLeftBehind
<1> QED BY <1>1, <1>2

(* The properties that runs check follow from the invariant.               *)
LEMMA InvTypeOK == SalesInv => TypeOK
BY DEF SalesInv, SalesTypes, EachKeptOnce, InvoicesFine, SnapshotsFine, Fine, TypeOK

(* The invariant implies that the money of every invoice is accounted for. *)
LEMMA InvMoney == SalesInv => MoneyAccounted
<1> SUFFICES ASSUME SalesInv PROVE MoneyAccounted
  OBVIOUS
<1>1. ASSUME NEW n \in OnFile
      PROVE  Collected(invoices[n]) = drawer[n] + refunds[n] + transferred[n]
  BY DEF SalesInv, InvoicesFine, Fine
<1>2. ASSUME NEW n \in DOMAIN snapshots
      PROVE  Collected(snapshots[n].invoice) = snapshots[n].drawer + transferred[n]
  <2>1. Fine(snapshots[n].invoice, 0, 0, snapshots[n].movements, snapshots[n].drawer,
             transferred[n])
    BY DEF SalesInv, SnapshotsFine
  <2>2. Collected(snapshots[n].invoice) = snapshots[n].drawer + 0 + transferred[n]
        /\ snapshots[n].drawer \in Int
    BY <2>1 DEF Fine
  <2> QED BY <2>2
<1> QED BY <1>1, <1>2 DEF MoneyAccounted

(* The invariant implies that nothing is owed twice.                       *)
LEMMA InvOwed == SalesInv => OwedOnce
BY DEF SalesInv, InvoicesFine, Fine, OwedOnce

(* The invariant implies that a customer's credit is neither made nor      *)
(* lost.                                                                   *)
LEMMA InvCredit == SalesInv => CreditConserved
<1> SUFFICES ASSUME SalesInv, NEW c \in Customers
             PROVE  SumFunctionOnSet(transferred, {n \in OnFile : invoices[n].customer = c})
                      + SumFunctionOnSet(transferred,
                          {n \in DOMAIN snapshots : snapshots[n].invoice.customer = c})
                    = 0
  BY DEF CreditConserved
<1> DEFINE A == {n \in OnFile : invoices[n].customer = c}
           B == {n \in DOMAIN snapshots : snapshots[n].invoice.customer = c}
           S == NumbersOf(c)
<1>1. /\ OnFile \cup DOMAIN snapshots = 1 .. issued
      /\ OnFile \cap DOMAIN snapshots = {}
      /\ issued \in 0 .. MaxInvoices /\ transferred \in [Numbers -> Int]
      /\ SumFunctionOnSet(transferred, S) = 0
  BY DEF SalesInv, EachKeptOnce, SalesTypes, CreditBalances
<1>2. A \cup B = S /\ A \cap B = {}
  BY <1>1 DEF NumbersOf, Owner
<1>3. IsFiniteSet(S) /\ \A n \in S : transferred[n] \in Int
  <2>1. S \subseteq 1 .. issued /\ 1 .. issued \subseteq Numbers
    BY <1>1, SalesAssumption DEF NumbersOf, Numbers
  <2> HIDE DEF S
  <2> QED BY <1>1, <2>1, NumbersFinite, FS_Subset
<1> HIDE DEF A, B, S
<1>4. SumFunctionOnSet(transferred, S)
        = SumFunctionOnSet(transferred, A) + SumFunctionOnSet(transferred, B)
  BY <1>2, <1>3, SumParts
<1> QED BY <1>1, <1>4 DEF A, B

(* The invariant implies that the movements explain the stock.             *)
LEMMA InvStock == SalesInv => StockExplained
BY DEF SalesInv

(* The invariant implies that no unit is put back twice.                   *)
LEMMA InvUnits == SalesInv => NoUnitTwice
<1> SUFFICES ASSUME SalesInv PROVE NoUnitTwice
  OBVIOUS
<1> DEFINE filed == [n \in Numbers |-> movements[n] + returned[n]]
           out == [n \in Numbers |-> IF n \in OnFile THEN Outstanding[n] ELSE 0]
           zero == [n \in Numbers |-> 0]
<1>1. /\ returned \in [Numbers -> Nat] /\ movements \in [Numbers -> Int]
      /\ shelf \in Nat /\ issued \in 0 .. MaxInvoices
      /\ OnFile \subseteq Numbers
  BY SalesAssumption DEF SalesInv, SalesTypes, EachKeptOnce, Numbers
<1>2. \A n \in OnFile : Outstanding[n] \in Nat
  <2> SUFFICES ASSUME NEW n \in OnFile PROVE Outstanding[n] \in Nat
    OBVIOUS
  <2>1. Fine(invoices[n], returned[n], refunds[n], movements[n], drawer[n], transferred[n])
    BY DEF SalesInv, InvoicesFine
  <2>2. /\ invoices[n].qty \in Nat /\ returned[n] \in Nat /\ returned[n] <= invoices[n].qty
    BY <2>1 DEF Fine, Invoice
  <2> QED BY <2>2 DEF Outstanding
<1>3. \A n \in Numbers : out[n] \in Nat /\ filed[n] + out[n] = zero[n]
  BY <1>1, <1>2, Booked
<1>4. SumFunctionOnSet(filed, Numbers)
        = SumFunctionOnSet(movements, Numbers) + SumFunctionOnSet(returned, Numbers)
  <2>1. \A n \in Numbers : /\ movements[n] \in Int /\ returned[n] \in Int
                           /\ filed[n] = movements[n] + returned[n]
    BY <1>1
  <2> HIDE DEF filed
  <2> QED BY <2>1, NumbersFinite, SumPlus
<1>5. \A n \in Numbers : /\ filed[n] \in Int /\ out[n] \in Int
                         /\ movements[n] \in Int /\ returned[n] \in Int
                         /\ zero[n] = filed[n] + out[n]
  BY <1>1, <1>2, <1>3
<1>6. \A n \in Numbers : zero[n] = 0
  OBVIOUS
<1>7. \A n \in OnFile : out[n] = Outstanding[n]
  BY <1>1
<1>8. \A n \in Numbers \ OnFile : out[n] = 0
  OBVIOUS
<1> HIDE DEF filed, out, zero
<1>9. SumFunctionOnSet(zero, Numbers)
        = SumFunctionOnSet(filed, Numbers) + SumFunctionOnSet(out, Numbers)
  BY <1>5, NumbersFinite, SumPlus
<1>10. SumFunctionOnSet(zero, Numbers) = 0
  BY <1>6, NumbersFinite, SumZero
<1>11. SumFunctionOnSet(out, Numbers) = SumFunctionOnSet(out, OnFile)
  BY <1>1, <1>5, <1>8, NumbersFinite, SumOfNonZeros
<1>12. SumFunctionOnSet(out, OnFile) = SumFunctionOnSet(Outstanding, OnFile)
  BY <1>1, <1>7, NumbersFinite, FS_Subset, SumSame
<1>13. SumFunctionOnSet(out, Numbers) \in Nat
  BY <1>3, NumbersFinite, SumNat
<1>14. /\ SumFunctionOnSet(movements, Numbers) \in Int
       /\ SumFunctionOnSet(returned, Numbers) \in Int
  BY <1>5, NumbersFinite, SumInt
<1>15. shelf = Opening + SumFunctionOnSet(movements, Numbers)
               + SumFunctionOnSet(returned, Numbers)
  BY DEF SalesInv, StockExplained
<1> QED BY <1>1, <1>4, <1>9, <1>10, <1>11, <1>12, <1>13, <1>14, <1>15, SalesAssumption
        DEF NoUnitTwice

---------------------------------------------------------------------------
(* The actions                                                             *)

(* The shop before its first sale satisfies the invariant.                 *)
LEMMA InitFine == Init => SalesInv
<1> SUFFICES ASSUME Init PROVE SalesInv
  OBVIOUS
<1>1. OnFile = {} /\ DOMAIN snapshots = {} /\ issued = 0
  BY DEF Init, OnFile
<1>2. SalesTypes /\ NothingLeftBehind /\ \A n \in Numbers : n > issued => transferred[n] = 0
  BY SalesAssumption DEF Init, SalesTypes, NothingLeftBehind
<1>3. EachKeptOnce /\ InvoicesFine /\ SnapshotsFine
  BY <1>1 DEF EachKeptOnce, InvoicesFine, SnapshotsFine
<1>4. StockExplained
  <2>1. /\ \A n \in Numbers : movements[n] = 0 /\ returned[n] = 0
        /\ shelf = Opening
    BY DEF Init
  <2>2. /\ SumFunctionOnSet(movements, Numbers) = 0
        /\ SumFunctionOnSet(returned, Numbers) = 0
    BY <2>1, NumbersFinite, SumZero
  <2> QED BY <2>1, <2>2, SalesAssumption DEF StockExplained
<1>5. CreditBalances
  <2> SUFFICES ASSUME NEW c \in Customers
               PROVE  SumFunctionOnSet(transferred, NumbersOf(c)) = 0
    BY DEF CreditBalances
  <2>1. NumbersOf(c) = {}
    BY <1>1 DEF NumbersOf
  <2> QED BY <2>1, SumEmpty
<1> QED BY <1>2, <1>3, <1>4, <1>5 DEF SalesInv

(* SumChange in the form the actions use it.                               *)
LEMMA SumRewritten ==
  \A n \in Numbers, v \in Int : \A f, g :
    /\ \A m \in Numbers : f[m] \in Int
    /\ \A m \in Numbers : g[m] = IF m = n THEN v ELSE f[m]
    => SumFunctionOnSet(g, Numbers) = SumFunctionOnSet(f, Numbers) + v - f[n]
<1> SUFFICES ASSUME NEW n \in Numbers, NEW v \in Int, NEW f, NEW g,
                    \A m \in Numbers : f[m] \in Int,
                    \A m \in Numbers : g[m] = IF m = n THEN v ELSE f[m]
             PROVE  SumFunctionOnSet(g, Numbers) = SumFunctionOnSet(f, Numbers) + v - f[n]
  OBVIOUS
<1>1. \A m \in Numbers : g[m] \in Int
  OBVIOUS
<1>2. \A m \in Numbers \ {n} : f[m] = g[m]
  OBVIOUS
<1>3. SumFunctionOnSet(g, Numbers) = SumFunctionOnSet(f, Numbers) + g[n] - f[n]
  BY <1>1, <1>2, NumbersFinite, SumChange
<1> QED BY <1>3

(* A number on file, or whose deletion can be undone, was issued.          *)
LEMMA FiledNumbers ==
  ASSUME SalesInv
  PROVE  \A n \in OnFile \cup DOMAIN snapshots : n \in Numbers /\ n \in 1 .. issued
<1>1. OnFile \cup DOMAIN snapshots = 1 .. issued /\ issued \in 0 .. MaxInvoices
  BY DEF SalesInv, SalesTypes, EachKeptOnce
<1> QED BY <1>1, SalesAssumption DEF Numbers

(* The shelf and the ledger move together when one number is touched.      *)
LEMMA StockMoves ==
  ASSUME SalesInv, NEW n \in Numbers, NEW moved \in Int, NEW back \in Nat,
         movements' = [movements EXCEPT ![n] = moved],
         returned' = [returned EXCEPT ![n] = back],
         shelf' = shelf + (moved + back) - (movements[n] + returned[n])
  PROVE  StockExplained'
<1>1. /\ returned \in [Numbers -> Nat] /\ movements \in [Numbers -> Int]
      /\ shelf \in Nat
      /\ shelf = Opening + SumFunctionOnSet(movements, Numbers)
                 + SumFunctionOnSet(returned, Numbers)
  BY DEF SalesInv, SalesTypes, StockExplained
<1>2. /\ \A m \in Numbers : /\ movements[m] \in Int /\ movements'[m] \in Int
                            /\ returned[m] \in Int /\ returned'[m] \in Int
      /\ \A m \in Numbers \ {n} : /\ movements[m] = movements'[m]
                                  /\ returned[m] = returned'[m]
      /\ movements'[n] = moved /\ returned'[n] = back
  BY <1>1
<1>3. SumFunctionOnSet(movements', Numbers)
        = SumFunctionOnSet(movements, Numbers) + moved - movements[n]
  <2>1. /\ \A m \in Numbers : movements[m] \in Int
        /\ \A m \in Numbers : movements'[m] = IF m = n THEN moved ELSE movements[m]
    BY <1>1
  <2> QED BY <2>1, SumRewritten
<1>4. SumFunctionOnSet(returned', Numbers)
        = SumFunctionOnSet(returned, Numbers) + back - returned[n]
  <2>1. /\ \A m \in Numbers : returned[m] \in Int
        /\ \A m \in Numbers : returned'[m] = IF m = n THEN back ELSE returned[m]
        /\ back \in Int
    BY <1>1
  <2> QED BY <2>1, SumRewritten
<1>5. /\ SumFunctionOnSet(movements, Numbers) \in Int
      /\ SumFunctionOnSet(returned, Numbers) \in Int
  BY <1>2, NumbersFinite, SumInt
<1>6. shelf' = Opening + SumFunctionOnSet(movements', Numbers)
               + SumFunctionOnSet(returned', Numbers)
  BY <1>1, <1>2, <1>3, <1>4, <1>5, SalesAssumption
<1> QED BY <1>6 DEF StockExplained, Numbers

(* As long as every number keeps its customer, what was transferred among  *)
(* a customer's invoices stays balanced.                                   *)
LEMMA CreditStays ==
  ASSUME SalesInv, issued' = issued, transferred' = transferred,
         \A n \in 1 .. issued : Owner(n)' = Owner(n)
  PROVE  CreditBalances'
<1>1. \A c \in Customers : NumbersOf(c)' = NumbersOf(c)
  BY DEF NumbersOf
<1>2. \A c \in Customers : SumFunctionOnSet(transferred, NumbersOf(c)) = 0
  BY DEF SalesInv, CreditBalances
<1> QED BY <1>1, <1>2 DEF CreditBalances

(* An action that rewrites one invoice on file preserves the invariant if  *)
(* what it leaves under that number is fine and the shelf follows.         *)
LEMMA OneInvoice ==
  ASSUME SalesInv, NEW n \in OnFile,
         NEW inv, NEW back, NEW refunded, NEW moved, NEW cash,
         Fine(inv, back, refunded, moved, cash, transferred[n]),
         inv.customer = invoices[n].customer,
         invoices' = [invoices EXCEPT ![n] = inv],
         returned' = [returned EXCEPT ![n] = back],
         refunds' = [refunds EXCEPT ![n] = refunded],
         movements' = [movements EXCEPT ![n] = moved],
         drawer' = [drawer EXCEPT ![n] = cash],
         shelf' = shelf + (moved + back) - (movements[n] + returned[n]),
         shelf' \in Nat,
         UNCHANGED <<issued, snapshots, transferred>>
  PROVE  SalesInv'
<1>1. /\ OnFile \cup DOMAIN snapshots = 1 .. issued /\ issued \in 0 .. MaxInvoices
      /\ OnFile \cap DOMAIN snapshots = {}
      /\ returned \in [Numbers -> Nat] /\ refunds \in [Numbers -> Int]
      /\ movements \in [Numbers -> Int] /\ drawer \in [Numbers -> Int]
      /\ transferred \in [Numbers -> Int]
  BY DEF SalesInv, SalesTypes, EachKeptOnce
<1>n. n \in Numbers /\ \A m \in OnFile : m \in Numbers
  BY FiledNumbers
<1>2. OnFile' = OnFile /\ invoices'[n] = inv
      /\ \A m \in OnFile \ {n} : invoices'[m] = invoices[m]
  BY DEF OnFile
<1>3. back \in Nat /\ refunded \in Int /\ moved \in Int /\ cash \in Int
  BY DEF Fine
<1>4. SalesTypes'
  BY <1>1, <1>n, <1>3 DEF SalesInv, SalesTypes, Numbers
<1>5. EachKeptOnce'
  BY <1>1, <1>2 DEF EachKeptOnce
<1>6. InvoicesFine'
  <2> SUFFICES ASSUME NEW m \in OnFile'
               PROVE  Fine(invoices'[m], returned'[m], refunds'[m], movements'[m],
                           drawer'[m], transferred'[m])
    BY DEF InvoicesFine, Fine
  <2>1. CASE m = n
    BY <1>1, <1>n, <1>2, <2>1
  <2>2. CASE m # n
    <3>1. Fine(invoices[m], returned[m], refunds[m], movements[m], drawer[m], transferred[m])
      BY <1>2 DEF SalesInv, InvoicesFine
    <3>2. m \in OnFile /\ m \in Numbers
      BY <1>2, <1>n
    <3>3. /\ invoices'[m] = invoices[m] /\ returned'[m] = returned[m]
          /\ refunds'[m] = refunds[m] /\ movements'[m] = movements[m]
          /\ drawer'[m] = drawer[m] /\ transferred'[m] = transferred[m]
      BY <1>1, <1>2, <2>2, <3>2
    <3> QED BY <3>1, <3>3
  <2> QED BY <2>1, <2>2
<1>7. SnapshotsFine'
  BY DEF SalesInv, SnapshotsFine, Fine
<1>8. NothingLeftBehind'
  <2> SUFFICES ASSUME NEW m \in Numbers \ OnFile
               PROVE  /\ returned'[m] = 0 /\ refunds'[m] = 0
                      /\ movements'[m] = 0 /\ drawer'[m] = 0
    BY <1>2 DEF NothingLeftBehind, Numbers
  <2>1. m # n
    OBVIOUS
  <2>2. returned[m] = 0 /\ refunds[m] = 0 /\ movements[m] = 0 /\ drawer[m] = 0
    BY DEF SalesInv, NothingLeftBehind
  <2> QED BY <1>1, <2>1, <2>2
<1>9. (\A m \in Numbers : m > issued => transferred[m] = 0)'
  BY DEF SalesInv, Numbers
<1>10. StockExplained'
  BY <1>1, <1>n, <1>3, StockMoves
<1>11. CreditBalances'
  <2>1. \A m \in 1 .. issued : Owner(m)' = Owner(m)
    BY <1>2 DEF Owner
  <2> QED BY <2>1, CreditStays
<1> QED BY <1>4, <1>5, <1>6, <1>7, <1>8, <1>9, <1>10, <1>11 DEF SalesInv

(* Taking a payment keeps the invariant.                                   *)
LEMMA ReceiveKeeps ==
  ASSUME SalesInv, NEW n \in OnFile, NEW amount \in Nat, Receive(n, amount)
  PROVE  SalesInv'
<1> DEFINE inv  == invoices[n]
           used == Lesser(amount, inv.remaining)
           left == Pos(inv.remaining - used)
           paid == [inv EXCEPT !.received = @ + used, !.over = @ + amount - used,
                               !.remaining = left,
                               !.status = IF left <= 0 THEN "paid" ELSE "partial"]
<1>1. Fine(inv, returned[n], refunds[n], movements[n], drawer[n], transferred[n])
  BY DEF SalesInv, InvoicesFine
<1>2. /\ ~inv.cancelled /\ inv.remaining > 0
      /\ invoices' = [invoices EXCEPT ![n] = paid]
      /\ drawer' = [drawer EXCEPT ![n] = drawer[n] + amount]
      /\ UNCHANGED <<issued, returned, refunds, shelf, movements, snapshots, transferred>>
  BY DEF Receive
<1>3. paid.customer = inv.customer
  BY <1>1 DEF Fine, Invoice
<1>4. Fine(paid, returned[n], refunds[n], movements[n], drawer[n] + amount, transferred[n])
  BY <1>1, <1>2, FineReceipt
<1>5. /\ returned \in [Numbers -> Nat] /\ refunds \in [Numbers -> Int]
      /\ movements \in [Numbers -> Int] /\ shelf \in Nat /\ n \in Numbers
  BY FiledNumbers DEF SalesInv, SalesTypes
<1> HIDE DEF paid
<1>6. /\ UNCHANGED <<issued, snapshots, transferred>>
      /\ returned' = [returned EXCEPT ![n] = returned[n]]
      /\ refunds' = [refunds EXCEPT ![n] = refunds[n]]
      /\ movements' = [movements EXCEPT ![n] = movements[n]]
      /\ shelf' = shelf + (movements[n] + returned[n]) - (movements[n] + returned[n])
      /\ shelf' \in Nat
  BY <1>2, <1>5
<1>7. invoices' = [invoices EXCEPT ![n] = paid]
      /\ drawer' = [drawer EXCEPT ![n] = drawer[n] + amount]
  BY <1>2
<1> QED BY <1>3, <1>4, <1>6, <1>7, OneInvoice

(* What the invariant says about the number an action touches.             *)
LEMMA OnFileFine ==
  ASSUME SalesInv, NEW n \in OnFile
  PROVE  /\ Fine(invoices[n], returned[n], refunds[n], movements[n], drawer[n], transferred[n])
         /\ n \in Numbers /\ n \in 1 .. issued /\ shelf \in Nat
         /\ invoices[n] \in Invoice /\ invoices[n].qty \in Nat
         /\ Collected(invoices[n]) \in Nat /\ returned[n] \in Nat
         /\ returned \in [Numbers -> Nat] /\ refunds \in [Numbers -> Int]
         /\ movements \in [Numbers -> Int] /\ drawer \in [Numbers -> Int]
         /\ transferred \in [Numbers -> Int]
<1>1. Fine(invoices[n], returned[n], refunds[n], movements[n], drawer[n], transferred[n])
  BY DEF SalesInv, InvoicesFine
<1>2. /\ invoices[n] \in Invoice /\ invoices[n].qty \in Nat
      /\ Collected(invoices[n]) \in Nat /\ returned[n] \in Nat
  BY <1>1 DEF Fine, Invoice, Collected
<1> QED BY <1>1, <1>2, FiledNumbers DEF SalesInv, SalesTypes

(* An edit that keeps at least what was returned keeps the invariant.      *)
LEMMA EditKeeps ==
  ASSUME SalesInv, NEW n \in OnFile, NEW qty \in Nat, EditKeepsReturns(n, qty), Edit(n, qty)
  PROVE  SalesInv'
<1> DEFINE inv    == invoices[n]
           other  == [inv EXCEPT !.qty = qty]
           owed   == NetTotal(qty, returned[n])
           edited == Resplit(other, owed, Collected(inv))
           cash   == drawer[n] + Collected(edited) - Collected(inv)
<1>1. /\ ~inv.cancelled /\ qty <= shelf + inv.qty
      /\ invoices' = [invoices EXCEPT ![n] = edited]
      /\ drawer' = [drawer EXCEPT ![n] = cash]
      /\ shelf' = Pos(shelf + inv.qty - qty)
      /\ movements' = [movements EXCEPT ![n] = -qty]
      /\ UNCHANGED <<issued, returned, refunds, snapshots, transferred>>
  BY DEF Edit
<1>2. qty >= returned[n]
  BY DEF EditKeepsReturns
<1>3. /\ Fine(inv, returned[n], refunds[n], movements[n], drawer[n], transferred[n])
      /\ n \in Numbers /\ shelf \in Nat /\ inv \in Invoice /\ inv.qty \in Nat
      /\ Collected(inv) \in Nat /\ returned[n] \in Nat
      /\ returned \in [Numbers -> Nat] /\ refunds \in [Numbers -> Int]
      /\ drawer \in [Numbers -> Int] /\ transferred \in [Numbers -> Int]
  BY OnFileFine
<1>4. /\ other \in Invoice /\ other.qty = qty /\ other.cancelled = inv.cancelled
      /\ other.customer = inv.customer
  BY <1>3 DEF Invoice
<1>5. /\ refunds[n] \in Int /\ drawer[n] \in Int /\ transferred[n] \in Int
      /\ Collected(inv) = drawer[n] + refunds[n] + transferred[n]
      /\ returned[n] = 0 => refunds[n] = 0
      /\ movements[n] = -inv.qty
  BY <1>1, <1>3 DEF Fine
<1>6. /\ Fine(edited, returned[n], refunds[n], -qty, drawer[n], transferred[n])
      /\ Collected(edited) = Collected(inv) /\ edited.customer = inv.customer
  <2> DEFINE money == Collected(inv)
  <2>1. /\ ~other.cancelled /\ returned[n] <= other.qty
        /\ owed = NetTotal(other.qty, returned[n])
        /\ -qty = -other.qty
    BY <1>1, <1>2, <1>4
  <2>2. money \in Nat /\ money = drawer[n] + refunds[n] + transferred[n]
    BY <1>3, <1>5
  <2> HIDE DEF other, money, owed
  <2>3. /\ other \in Invoice /\ returned[n] \in Nat
        /\ refunds[n] \in Int /\ drawer[n] \in Int /\ transferred[n] \in Int
        /\ returned[n] = 0 => refunds[n] = 0
    BY <1>3, <1>4, <1>5
  <2>4. Fine(Resplit(other, owed, money), returned[n], refunds[n], -qty, drawer[n],
             transferred[n])
    BY <2>1, <2>2, <2>3, FineResplit
  <2>5. owed \in Nat
    BY <1>3, NetTotalNat DEF owed
  <2>6. /\ Collected(Resplit(other, owed, money)) = money
        /\ Resplit(other, owed, money).customer = other.customer
    BY <2>2, <2>3, <2>5, ResplitKeeps
  <2> QED BY <1>4, <2>4, <2>6 DEF money
<1> HIDE DEF other
<1> HIDE DEF edited
<1>7. cash = drawer[n]
  BY <1>3, <1>5, <1>6
<1>8. shelf' = shelf + inv.qty - qty /\ shelf' \in Nat
  BY <1>1, <1>3 DEF Pos
<1>9. shelf' = shelf + (-qty + returned[n]) - (movements[n] + returned[n])
  BY <1>3, <1>5, <1>8
<1>10. /\ returned' = [returned EXCEPT ![n] = returned[n]]
       /\ refunds' = [refunds EXCEPT ![n] = refunds[n]]
       /\ drawer' = [drawer EXCEPT ![n] = drawer[n]]
       /\ UNCHANGED <<issued, snapshots, transferred>>
  BY <1>1, <1>3, <1>7
<1>11. /\ invoices' = [invoices EXCEPT ![n] = edited]
       /\ movements' = [movements EXCEPT ![n] = -qty]
  BY <1>1
<1> QED BY <1>6, <1>8, <1>9, <1>10, <1>11, OneInvoice

(* Cancelling an invoice keeps the invariant.                              *)
LEMMA CancelKeeps ==
  ASSUME SalesInv, NEW n \in OnFile, NEW mode \in {"none", "cash", "credit"}, Cancel(n, mode)
  PROVE  SalesInv'
<1> DEFINE inv   == invoices[n]
           void  == Voided(inv, mode)
           cash  == IF mode = "cash" THEN drawer[n] - Collected(inv) ELSE drawer[n]
           moved == movements[n] + Pos(inv.qty - returned[n])
<1>1. /\ ~inv.cancelled
      /\ mode = "none" <=> Collected(inv) = 0
      /\ invoices' = [invoices EXCEPT ![n] = void]
      /\ drawer' = [drawer EXCEPT ![n] = cash]
      /\ shelf' = shelf + Pos(inv.qty - returned[n])
      /\ movements' = [movements EXCEPT ![n] = moved]
      /\ UNCHANGED <<issued, returned, refunds, snapshots, transferred>>
  BY DEF Cancel, Restorable
<1>2. /\ Fine(inv, returned[n], refunds[n], movements[n], drawer[n], transferred[n])
      /\ n \in Numbers /\ shelf \in Nat /\ inv \in Invoice /\ inv.qty \in Nat
      /\ returned[n] \in Nat
      /\ returned \in [Numbers -> Nat] /\ refunds \in [Numbers -> Int]
      /\ movements \in [Numbers -> Int]
  BY OnFileFine
<1>3. /\ Fine(void, returned[n], refunds[n], moved, cash, transferred[n])
      /\ void.customer = inv.customer
  BY <1>1, <1>2, FineVoid
<1>4. Pos(inv.qty - returned[n]) \in Nat /\ movements[n] \in Int
  BY <1>2, PosNat
<1>5. shelf' \in Nat /\ shelf' = shelf + (moved + returned[n]) - (movements[n] + returned[n])
  BY <1>1, <1>2, <1>4
<1>6. /\ returned' = [returned EXCEPT ![n] = returned[n]]
      /\ refunds' = [refunds EXCEPT ![n] = refunds[n]]
      /\ UNCHANGED <<issued, snapshots, transferred>>
  BY <1>1, <1>2
<1>7. /\ invoices' = [invoices EXCEPT ![n] = void]
      /\ drawer' = [drawer EXCEPT ![n] = cash]
      /\ movements' = [movements EXCEPT ![n] = moved]
  BY <1>1
<1> HIDE DEF void, cash, moved
<1> QED BY <1>3, <1>5, <1>6, <1>7, OneInvoice

(* A return keeps the invariant.                                           *)
LEMMA ReturnKeeps ==
  ASSUME SalesInv, NEW n \in OnFile, NEW qty \in Nat, NEW refund \in BOOLEAN,
         Return(n, qty, refund)
  PROVE  SalesInv'
<1> DEFINE inv      == invoices[n]
           amount   == qty * Price
           kept     == Collected(inv) - (IF refund THEN Lesser(amount, Collected(inv)) ELSE 0)
           back     == returned[n] + qty
           owed     == NetTotal(inv.qty, back)
           after    == Resplit(inv, owed, kept)
           refunded == IF refund THEN refunds[n] - amount ELSE refunds[n]
<1>1. /\ ~inv.cancelled /\ qty > 0
      /\ amount <= Total(inv) - returned[n] * Price
      /\ refund => amount <= Collected(inv)
      /\ invoices' = [invoices EXCEPT ![n] = after]
      /\ returned' = [returned EXCEPT ![n] = back]
      /\ refunds' = [refunds EXCEPT ![n] = refunded]
      /\ shelf' = shelf + qty
      /\ UNCHANGED <<issued, movements, drawer, snapshots, transferred>>
  BY DEF Return, MayRefund
<1>2. /\ Fine(inv, returned[n], refunds[n], movements[n], drawer[n], transferred[n])
      /\ n \in Numbers /\ shelf \in Nat /\ inv \in Invoice /\ inv.qty \in Nat
      /\ returned[n] \in Nat /\ Collected(inv) \in Nat
      /\ movements \in [Numbers -> Int] /\ drawer \in [Numbers -> Int]
      /\ transferred \in [Numbers -> Int]
  BY OnFileFine
<1>3. /\ refunds[n] \in Int /\ drawer[n] \in Int /\ transferred[n] \in Int
      /\ Collected(inv) = drawer[n] + refunds[n] + transferred[n]
      /\ movements[n] = -inv.qty
  BY <1>1, <1>2 DEF Fine
<1>4. amount \in Nat
  BY Products, SalesAssumption
<1>5. back \in Nat /\ back <= inv.qty /\ back # 0
  <2>1. (returned[n] + qty) * Price <= inv.qty * Price
    <3>1. /\ (returned[n] + qty) * Price = returned[n] * Price + qty * Price
          /\ returned[n] * Price \in Int /\ qty * Price \in Int /\ inv.qty * Price \in Int
      BY <1>2, Products, SalesAssumption
    <3> QED BY <1>1, <3>1 DEF Total
  <2>2. returned[n] + qty <= inv.qty
    <3>1. returned[n] + qty \in Int /\ inv.qty \in Int
      BY <1>2
    <3> QED BY <2>1, <3>1, Products, SalesAssumption
  <2> QED BY <1>1, <1>2, <2>2
<1> HIDE DEF amount
<1>6. kept \in Nat /\ refunded \in Int /\ kept = drawer[n] + refunded + transferred[n]
  BY <1>1, <1>2, <1>3, <1>4 DEF Lesser
<1> HIDE DEF kept, refunded, back
<1>7. /\ Fine(after, back, refunded, -inv.qty, drawer[n], transferred[n])
      /\ after.customer = inv.customer
  <2>1. owed = NetTotal(inv.qty, back) /\ owed \in Nat
    BY <1>2, <1>5, NetTotalNat
  <2> HIDE DEF owed
  <2>2. ~inv.cancelled /\ (back = 0 => refunded = 0)
    BY <1>1, <1>5
  <2>3. drawer[n] \in Int /\ transferred[n] \in Int /\ inv \in Invoice
    BY <1>2, <1>3
  <2> HIDE DEF inv
  <2>4. Fine(Resplit(inv, owed, kept), back, refunded, -inv.qty, drawer[n], transferred[n])
    BY <1>5, <1>6, <2>1, <2>2, <2>3, FineResplit
  <2>5. Resplit(inv, owed, kept).customer = inv.customer
    BY <1>6, <2>1, <2>3, ResplitKeeps
  <2> QED BY <2>4, <2>5
<1>8. shelf' \in Nat /\ shelf' = shelf + (-inv.qty + back) - (movements[n] + returned[n])
  BY <1>1, <1>2, <1>3 DEF back
<1>9. /\ movements' = [movements EXCEPT ![n] = -inv.qty]
      /\ drawer' = [drawer EXCEPT ![n] = drawer[n]]
      /\ UNCHANGED <<issued, snapshots, transferred>>
  BY <1>1, <1>2, <1>3
<1>10. /\ invoices' = [invoices EXCEPT ![n] = after]
       /\ returned' = [returned EXCEPT ![n] = back]
       /\ refunds' = [refunds EXCEPT ![n] = refunded]
  BY <1>1
<1> HIDE DEF after
<1> QED BY <1>7, <1>8, <1>9, <1>10, OneInvoice

(* Deleting an invoice, with the snapshot that can undo it, keeps the      *)
(* invariant.                                                              *)
LEMMA DeleteKeeps ==
  ASSUME SalesInv, NEW n \in OnFile, Delete(n)
  PROVE  SalesInv'
<1> DEFINE snap == [invoice |-> invoices[n], movements |-> movements[n], drawer |-> drawer[n]]
<1>1. /\ returned[n] = 0
      /\ invoices' = Restrict(invoices, OnFile \ {n})
      /\ snapshots' = [m \in DOMAIN snapshots \cup {n} |-> IF m = n THEN snap ELSE snapshots[m]]
      /\ shelf' = shelf + Sold(invoices[n])
      /\ movements' = [movements EXCEPT ![n] = 0]
      /\ drawer' = [drawer EXCEPT ![n] = 0]
      /\ UNCHANGED <<issued, returned, refunds, transferred>>
  BY DEF Delete
<1>2. /\ Fine(invoices[n], returned[n], refunds[n], movements[n], drawer[n], transferred[n])
      /\ n \in Numbers /\ n \in 1 .. issued /\ shelf \in Nat
      /\ returned \in [Numbers -> Nat] /\ refunds \in [Numbers -> Int]
      /\ movements \in [Numbers -> Int] /\ drawer \in [Numbers -> Int]
      /\ transferred \in [Numbers -> Int]
  BY OnFileFine
<1>3. /\ OnFile \cup DOMAIN snapshots = 1 .. issued /\ issued \in 0 .. MaxInvoices
      /\ OnFile \cap DOMAIN snapshots = {}
  BY DEF SalesInv, SalesTypes, EachKeptOnce
<1>4. /\ OnFile' = OnFile \ {n} /\ DOMAIN snapshots' = DOMAIN snapshots \cup {n}
      /\ snapshots'[n] = snap
      /\ \A m \in OnFile \ {n} : invoices'[m] = invoices[m]
      /\ \A m \in DOMAIN snapshots : snapshots'[m] = snapshots[m]
  BY <1>1, <1>3 DEF OnFile, Restrict
<1>5. /\ refunds[n] = 0 /\ movements[n] = -Sold(invoices[n]) /\ Sold(invoices[n]) \in Nat
  BY <1>1, <1>2 DEF Fine, Sold, Invoice
<1>6. SalesTypes'
  BY <1>1, <1>2, <1>3, <1>5 DEF SalesTypes, Numbers
<1>7. EachKeptOnce'
  BY <1>1, <1>2, <1>3, <1>4 DEF EachKeptOnce
<1>8. InvoicesFine'
  <2> SUFFICES ASSUME NEW m \in OnFile'
               PROVE  Fine(invoices'[m], returned'[m], refunds'[m], movements'[m],
                           drawer'[m], transferred'[m])
    BY DEF InvoicesFine, Fine
  <2>1. m \in OnFile \ {n} /\ m \in Numbers
    BY <1>4, FiledNumbers
  <2>2. Fine(invoices[m], returned[m], refunds[m], movements[m], drawer[m], transferred[m])
    BY <2>1 DEF SalesInv, InvoicesFine
  <2>3. /\ invoices'[m] = invoices[m] /\ returned'[m] = returned[m]
        /\ refunds'[m] = refunds[m] /\ movements'[m] = movements[m]
        /\ drawer'[m] = drawer[m] /\ transferred'[m] = transferred[m]
    BY <1>1, <1>2, <1>4, <2>1
  <2> QED BY <2>2, <2>3
<1>9. SnapshotsFine'
  <2> SUFFICES ASSUME NEW m \in DOMAIN snapshots'
               PROVE  Fine(snapshots'[m].invoice, 0, 0, snapshots'[m].movements,
                           snapshots'[m].drawer, transferred'[m])
    BY DEF SnapshotsFine, Fine
  <2>1. CASE m = n
    <3>1. Fine(invoices[n], 0, 0, movements[n], drawer[n], transferred[n])
      BY <1>1, <1>2, <1>5
    <3> QED BY <1>1, <1>4, <2>1, <3>1
  <2>2. CASE m # n
    <3>1. m \in DOMAIN snapshots
      BY <1>4, <2>2
    <3>2. Fine(snapshots[m].invoice, 0, 0, snapshots[m].movements, snapshots[m].drawer,
               transferred[m])
      BY <3>1 DEF SalesInv, SnapshotsFine
    <3> QED BY <1>1, <1>4, <3>1, <3>2
  <2> QED BY <2>1, <2>2
<1>10. NothingLeftBehind'
  <2> SUFFICES ASSUME NEW m \in Numbers, m \notin OnFile'
               PROVE  /\ returned'[m] = 0 /\ refunds'[m] = 0
                      /\ movements'[m] = 0 /\ drawer'[m] = 0
    BY DEF NothingLeftBehind, Numbers
  <2>1. CASE m = n
    BY <1>1, <1>2, <1>5, <2>1
  <2>2. CASE m # n
    <3>1. returned[m] = 0 /\ refunds[m] = 0 /\ movements[m] = 0 /\ drawer[m] = 0
      BY <1>4, <2>2 DEF SalesInv, NothingLeftBehind
    <3> QED BY <1>1, <1>2, <2>2, <3>1
  <2> QED BY <2>1, <2>2
<1>11. (\A m \in Numbers : m > issued => transferred[m] = 0)'
  BY <1>1 DEF SalesInv, Numbers
<1>12. StockExplained'
  <2>1. /\ returned' = [returned EXCEPT ![n] = 0]
        /\ shelf' = shelf + (0 + 0) - (movements[n] + returned[n])
        /\ movements' = [movements EXCEPT ![n] = 0]
        /\ 0 \in Int /\ 0 \in Nat
    BY <1>1, <1>2, <1>5
  <2>2. n \in Numbers
    BY <1>2
  <2> QED BY <2>1, <2>2, StockMoves
<1>13. CreditBalances'
  <2>1. \A m \in 1 .. issued : Owner(m)' = Owner(m)
    <3> SUFFICES ASSUME NEW m \in 1 .. issued PROVE Owner(m)' = Owner(m)
      OBVIOUS
    <3>1. CASE m = n
      BY <1>4, <3>1 DEF Owner
    <3>2. CASE m # n
      BY <1>3, <1>4, <3>2 DEF Owner
    <3> QED BY <3>1, <3>2
  <2> QED BY <1>1, <2>1, CreditStays
<1> QED BY <1>6, <1>7, <1>8, <1>9, <1>10, <1>11, <1>12, <1>13 DEF SalesInv

(* Undoing a deletion keeps the invariant.                                 *)
LEMMA RestoreKeeps ==
  ASSUME SalesInv, NEW n \in DOMAIN snapshots, RestoreFits(n), Restore(n)
  PROVE  SalesInv'
<1> DEFINE snap == snapshots[n]
<1>1. /\ n \notin OnFile
      /\ invoices' = [m \in OnFile \cup {n} |-> IF m = n THEN snap.invoice ELSE invoices[m]]
      /\ snapshots' = Restrict(snapshots, DOMAIN snapshots \ {n})
      /\ shelf' = Pos(shelf - Sold(snap.invoice))
      /\ movements' = [movements EXCEPT ![n] = movements[n] + snap.movements]
      /\ drawer' = [drawer EXCEPT ![n] = drawer[n] + snap.drawer]
      /\ UNCHANGED <<issued, returned, refunds, transferred>>
  BY DEF Restore
<1>2. /\ issued \in 0 .. MaxInvoices /\ shelf \in Nat
      /\ returned \in [Numbers -> Nat] /\ refunds \in [Numbers -> Int]
      /\ movements \in [Numbers -> Int] /\ drawer \in [Numbers -> Int]
      /\ transferred \in [Numbers -> Int]
      /\ OnFile \cup DOMAIN snapshots = 1 .. issued
      /\ OnFile \cap DOMAIN snapshots = {}
  BY DEF SalesInv, SalesTypes, EachKeptOnce
<1>3. /\ Fine(snap.invoice, 0, 0, snap.movements, snap.drawer, transferred[n])
      /\ n \in Numbers /\ n \in 1 .. issued
  BY FiledNumbers DEF SalesInv, SnapshotsFine
<1>4. /\ returned[n] = 0 /\ refunds[n] = 0 /\ movements[n] = 0 /\ drawer[n] = 0
  BY <1>1, <1>3 DEF SalesInv, NothingLeftBehind
<1>5. /\ snap.movements \in Int /\ snap.drawer \in Int
      /\ snap.movements = -Sold(snap.invoice) /\ Sold(snap.invoice) \in Nat
  BY <1>3 DEF Fine, Sold, Invoice
<1>6. shelf' \in Nat /\ shelf' = shelf - Sold(snap.invoice)
  BY <1>1, <1>2, <1>5 DEF RestoreFits, Pos
<1>7. /\ movements' = [movements EXCEPT ![n] = snap.movements]
      /\ drawer' = [drawer EXCEPT ![n] = snap.drawer]
  <2>1. movements[n] + snap.movements = snap.movements
    BY <1>4, <1>5
  <2>2. drawer[n] + snap.drawer = snap.drawer
    BY <1>4, <1>5
  <2> HIDE DEF snap
  <2> QED BY <1>1, <2>1, <2>2
<1>8. /\ OnFile' = OnFile \cup {n} /\ DOMAIN snapshots' = DOMAIN snapshots \ {n}
      /\ invoices'[n] = snap.invoice
      /\ \A m \in OnFile : invoices'[m] = invoices[m]
      /\ \A m \in DOMAIN snapshots \ {n} : snapshots'[m] = snapshots[m]
  BY <1>1 DEF OnFile, Restrict
<1>9. SalesTypes'
  BY <1>1, <1>2, <1>3, <1>5, <1>6, <1>7 DEF SalesTypes, Numbers
<1>10. EachKeptOnce'
  BY <1>1, <1>2, <1>8 DEF EachKeptOnce
<1>11. InvoicesFine'
  <2> SUFFICES ASSUME NEW m \in OnFile'
               PROVE  Fine(invoices'[m], returned'[m], refunds'[m], movements'[m],
                           drawer'[m], transferred'[m])
    BY DEF InvoicesFine, Fine
  <2>1. CASE m = n
    BY <1>1, <1>2, <1>3, <1>4, <1>7, <1>8, <2>1
  <2>2. CASE m # n
    <3>1. m \in OnFile /\ m \in Numbers
      BY <1>8, <2>2, FiledNumbers
    <3>2. Fine(invoices[m], returned[m], refunds[m], movements[m], drawer[m], transferred[m])
      BY <3>1 DEF SalesInv, InvoicesFine
    <3>3. /\ invoices'[m] = invoices[m] /\ returned'[m] = returned[m]
          /\ refunds'[m] = refunds[m] /\ movements'[m] = movements[m]
          /\ drawer'[m] = drawer[m] /\ transferred'[m] = transferred[m]
      BY <1>1, <1>2, <1>8, <2>2, <3>1
    <3> QED BY <3>2, <3>3
  <2> QED BY <2>1, <2>2
<1>12. SnapshotsFine'
  <2> SUFFICES ASSUME NEW m \in DOMAIN snapshots'
               PROVE  Fine(snapshots'[m].invoice, 0, 0, snapshots'[m].movements,
                           snapshots'[m].drawer, transferred'[m])
    BY DEF SnapshotsFine, Fine
  <2>1. m \in DOMAIN snapshots \ {n}
    BY <1>8
  <2>2. Fine(snapshots[m].invoice, 0, 0, snapshots[m].movements, snapshots[m].drawer,
             transferred[m])
    BY <2>1 DEF SalesInv, SnapshotsFine
  <2> QED BY <1>1, <1>8, <2>1, <2>2
<1>13. NothingLeftBehind'
  <2> SUFFICES ASSUME NEW m \in Numbers, m \notin OnFile'
               PROVE  /\ returned'[m] = 0 /\ refunds'[m] = 0
                      /\ movements'[m] = 0 /\ drawer'[m] = 0
    BY DEF NothingLeftBehind, Numbers
  <2>1. m # n /\ m \notin OnFile
    BY <1>8
  <2>2. returned[m] = 0 /\ refunds[m] = 0 /\ movements[m] = 0 /\ drawer[m] = 0
    BY <2>1 DEF SalesInv, NothingLeftBehind
  <2> QED BY <1>1, <1>2, <2>1, <2>2
<1>14. (\A m \in Numbers : m > issued => transferred[m] = 0)'
  BY <1>1 DEF SalesInv, Numbers
<1>15. StockExplained'
  <2>1. /\ returned' = [returned EXCEPT ![n] = 0]
        /\ shelf' = shelf + (snap.movements + 0) - (movements[n] + returned[n])
    BY <1>1, <1>2, <1>4, <1>5, <1>6
  <2> QED BY <1>3, <1>5, <1>7, <2>1, StockMoves
<1>16. CreditBalances'
  <2>1. \A m \in 1 .. issued : Owner(m)' = Owner(m)
    <3> SUFFICES ASSUME NEW m \in 1 .. issued PROVE Owner(m)' = Owner(m)
      OBVIOUS
    <3>1. CASE m = n
      BY <1>1, <1>8, <3>1 DEF Owner
    <3>2. CASE m # n
      BY <1>2, <1>8, <3>2 DEF Owner
    <3> QED BY <3>1, <3>2
  <2> QED BY <1>1, <2>1, CreditStays
<1> QED BY <1>9, <1>10, <1>11, <1>12, <1>13, <1>14, <1>15, <1>16 DEF SalesInv

---------------------------------------------------------------------------
(* Credit moved among a customer's invoices                                *)

(* Transfer rewrites each invoice as Moved1 does.                          *)
LEMMA TransferIs ==
  ASSUME NEW invs, NEW gain, NEW loss
  PROVE  /\ DOMAIN Transfer(invs, gain, loss) = DOMAIN invs
         /\ \A m \in DOMAIN invs :
              Transfer(invs, gain, loss)[m] = Moved1(invs[m], gain[m], loss[m])
BY DEF Transfer, Moved1

(* Moving credit does not change whose invoice it is.                      *)
LEMMA Moved1Keeps ==
  \A inv \in Invoice : \A gain, loss : Moved1(inv, gain, loss).customer = inv.customer
BY DEF Moved1, Invoice

(* Credit that stays with one customer balances for all of them.           *)
LEMMA CreditMoves ==
  ASSUME SalesInv, issued' \in issued .. MaxInvoices, NEW c \in Customers,
         NEW D, D \subseteq Numbers,
         NEW A, A \subseteq D, NEW B, B \subseteq D,
         NEW gain, DOMAIN gain = D, \A m \in D : gain[m] \in Int,
         \A m \in D \ A : gain[m] = 0,
         NEW loss, \A m \in D : loss[m] \in Int, \A m \in D \ B : loss[m] = 0,
         \A m \in A \cup B : m \in 1 .. issued' /\ Owner(m)' = c,
         SumFunctionOnSet(gain, A) = SumFunctionOnSet(loss, B),
         transferred' = Moved(gain, loss),
         \A m \in 1 .. issued : Owner(m)' = Owner(m)
  PROVE  CreditBalances'
<1>1. /\ transferred \in [Numbers -> Int] /\ issued \in 0 .. MaxInvoices
      /\ \A m \in Numbers : m > issued => transferred[m] = 0
      /\ \A d \in Customers : SumFunctionOnSet(transferred, NumbersOf(d)) = 0
  BY DEF SalesInv, SalesTypes, CreditBalances
<1>2. /\ 1 .. issued \subseteq Numbers /\ 1 .. issued' \subseteq Numbers
      /\ 1 .. issued \subseteq 1 .. issued'
  BY <1>1, SalesAssumption DEF Numbers
<1> SUFFICES ASSUME NEW d \in Customers
             PROVE  SumFunctionOnSet(transferred', NumbersOf(d)') = 0
  BY DEF CreditBalances
<1> DEFINE S == NumbersOf(d)'
           A2 == A \cap S
           B2 == B \cap S
           up == [m \in Numbers |-> IF m \in D THEN gain[m] ELSE 0]
           down == [m \in Numbers |-> IF m \in D THEN loss[m] ELSE 0]
<1>3. S = {m \in 1 .. issued' : Owner(m)' = d}
  BY DEF NumbersOf
<1>4. NumbersOf(d) \subseteq S /\ \A m \in S \ NumbersOf(d) : m > issued
  BY <1>1, <1>2, <1>3 DEF NumbersOf, Numbers
<1>5. IsFiniteSet(S) /\ S \subseteq Numbers
  <2>1. S \subseteq Numbers
    BY <1>2, <1>3
  <2> HIDE DEF S
  <2> QED BY <2>1, NumbersFinite, FS_Subset
<1>6. /\ \A m \in S : transferred[m] \in Int
      /\ \A m \in S \ NumbersOf(d) : transferred[m] = 0
  BY <1>1, <1>4, <1>5
<1>7. SumFunctionOnSet(transferred, S) = 0
  <2> HIDE DEF S
  <2>1. SumFunctionOnSet(transferred, S) = SumFunctionOnSet(transferred, NumbersOf(d))
    BY <1>4, <1>5, <1>6, SumOfNonZeros
  <2> QED BY <1>1, <2>1
<1>8. /\ d = c => A2 = A /\ B2 = B
      /\ d # c => A2 = {} /\ B2 = {}
  BY <1>3
<1>9. SumFunctionOnSet(up, A2) = SumFunctionOnSet(down, B2)
  <2>1. CASE d = c
    <3>1. /\ IsFiniteSet(A) /\ IsFiniteSet(B)
      BY NumbersFinite, FS_Subset
    <3>2. /\ \A m \in A : up[m] = gain[m]
          /\ \A m \in B : down[m] = loss[m]
      OBVIOUS
    <3> HIDE DEF up, down
    <3>3. SumFunctionOnSet(up, A) = SumFunctionOnSet(gain, A)
      BY <3>1, <3>2, SumSame
    <3>4. SumFunctionOnSet(down, B) = SumFunctionOnSet(loss, B)
      BY <3>1, <3>2, SumSame
    <3> QED BY <1>8, <2>1, <3>3, <3>4
  <2>2. CASE d # c
    <3> HIDE DEF up, down, A2, B2
    <3> QED BY <1>8, <2>2, SumEmpty
  <2> QED BY <2>1, <2>2
<1>10. /\ \A m \in S : up[m] \in Int /\ down[m] \in Int
       /\ \A m \in S \ A2 : up[m] = 0
       /\ \A m \in S \ B2 : down[m] = 0
  BY <1>5
<1>11. \A m \in S : transferred'[m] = transferred[m] + (up[m] - down[m])
  BY <1>5 DEF Moved
<1>12. A2 \subseteq S /\ B2 \subseteq S
  OBVIOUS
<1> HIDE DEF S, A2, B2, up, down
<1>13. SumFunctionOnSet(transferred', S) = SumFunctionOnSet(transferred, S)
  BY <1>5, <1>6, <1>9, <1>10, <1>11, <1>12, SumOfTransfer
<1> QED BY <1>7, <1>13 DEF S

(* The screens never offer more credit than the customer's invoices hold.  *)
LEMMA BalanceCovered ==
  ASSUME SalesInv, NEW c \in Customers
  PROVE  /\ Pos(-Balance(c)) \in Nat
         /\ Pos(-Balance(c)) <= SumFunctionOnSet(Credit(invoices), Creditors(invoices, c))
<1> DEFINE all == Of(invoices, c)
           counted == {n \in all : ~invoices[n].cancelled /\ ~invoices[n].cod}
           have == Creditors(invoices, c)
           f == [n \in counted |-> invoices[n].remaining - invoices[n].over]
           g == Credit(invoices)
           h == Owed(invoices)
<1>1. all \subseteq OnFile /\ OnFile \subseteq Numbers
  BY FiledNumbers DEF Of, OnFile
<1>2. IsFiniteSet(all)
  <2> HIDE DEF all
  <2> QED BY <1>1, NumbersFinite, FS_Subset
<1>3. \A n \in all : invoices[n].over \in Nat /\ invoices[n].remaining \in Nat
  BY <1>1 DEF SalesInv, InvoicesFine, Fine, Invoice
<1>4. /\ \A n \in all : g[n] \in Nat /\ g[n] = invoices[n].over
      /\ \A n \in all : h[n] \in Nat /\ h[n] = invoices[n].remaining
  BY <1>1, <1>3 DEF Credit, Owed, OnFile
<1>5. counted \subseteq all /\ have \subseteq all
  BY DEF Creditors
<1>6. IsFiniteSet(counted) /\ IsFiniteSet(all \ counted)
  <2> HIDE DEF counted, all
  <2> QED BY <1>2, <1>5, FS_Subset
<1>7. \A n \in counted : f[n] \in Int /\ h[n] = f[n] + g[n]
  BY <1>3, <1>4, <1>5
<1>8. \A n \in all \ have : g[n] = 0
  BY <1>3, <1>4 DEF Creditors
<1>9. Balance(c) = SumFunctionOnSet(f, counted)
  BY DEF Balance
<1>10. counted \cup (all \ counted) = all /\ counted \cap (all \ counted) = {}
  BY <1>5
<1> HIDE DEF all, counted, have, f, g, h
<1>11. \A n \in all : g[n] \in Int
  BY <1>4
<1>12. \A n \in counted : g[n] \in Int
  BY <1>5, <1>11
<1>13. SumFunctionOnSet(h, counted) = SumFunctionOnSet(f, counted) + SumFunctionOnSet(g, counted)
  BY <1>6, <1>7, <1>12, SumPlus
<1>14. SumFunctionOnSet(h, counted) \in Nat
  <2>1. \A n \in counted : h[n] \in Nat
    BY <1>4, <1>5
  <2> QED BY <1>6, <2>1, SumNat
<1>15. SumFunctionOnSet(g, all) = SumFunctionOnSet(g, counted) + SumFunctionOnSet(g, all \ counted)
  BY <1>2, <1>10, <1>11, SumParts
<1>16. SumFunctionOnSet(g, all \ counted) \in Nat
  <2>1. \A n \in all \ counted : g[n] \in Nat
    BY <1>4
  <2> QED BY <1>6, <2>1, SumNat
<1>17. SumFunctionOnSet(g, all) = SumFunctionOnSet(g, have)
  BY <1>2, <1>5, <1>8, <1>11, SumOfNonZeros
<1>18. SumFunctionOnSet(g, counted) \in Nat
  <2>1. \A n \in counted : g[n] \in Nat
    BY <1>4, <1>5
  <2> QED BY <1>6, <2>1, SumNat
<1>19. SumFunctionOnSet(f, counted) \in Int
  BY <1>6, <1>7, SumInt
<1>20. Pos(-SumFunctionOnSet(f, counted)) <= SumFunctionOnSet(g, have)
       /\ Pos(-SumFunctionOnSet(f, counted)) \in Nat
  BY <1>13, <1>14, <1>15, <1>16, <1>17, <1>18, <1>19 DEF Pos
<1> QED BY <1>9, <1>20 DEF g, have

(* An invoice just sold.                                                   *)
LEMMA FineSale ==
  ASSUME NEW c \in Customers, NEW cod \in BOOLEAN, NEW qty \in Nat, NEW cash \in Nat,
         NEW total, total = qty * Price
  PROVE  Fine([customer |-> c, cod |-> cod, qty |-> qty,
               received |-> Lesser(cash, total), over |-> Pos(cash - total),
               remaining |-> Pos(total - Lesser(cash, total)),
               status |-> ComputeStatus(total, Lesser(cash, total)),
               cancelled |-> FALSE], 0, 0, -qty, cash, 0)
<1> DEFINE paid == Lesser(cash, total)
           over == Pos(cash - total)
           left == Pos(total - paid)
           status == ComputeStatus(total, paid)
           inv == [customer |-> c, cod |-> cod, qty |-> qty, received |-> paid,
                   over |-> over, remaining |-> left, status |-> status,
                   cancelled |-> FALSE]
<1>1. total \in Nat /\ total = (qty - 0) * Price
  BY Products, SalesAssumption
<1>2. paid \in Nat /\ over \in Nat /\ left \in Nat /\ paid + over = cash
  BY <1>1 DEF Lesser, Pos
<1>3. status \in Status /\ (status = "paid" <=> left = 0)
  <2> HIDE DEF paid
  <2> total \in Int
    BY <1>1
  <2>1. ComputeStatus(total, paid) \in Status
    BY <1>2, PaidStatus
  <2>2. ComputeStatus(total, paid) = "paid" <=> Pos(total - paid) = 0
    BY <1>2, PaidStatus
  <2> QED BY <2>1, <2>2
<1> HIDE DEF paid, over, left, status
<1>4. inv \in Invoice
  BY <1>2, <1>3 DEF Invoice
<1>5. Collected(inv) = cash + 0 + 0
  BY <1>2 DEF Collected
<1>6. left = Pos((qty - 0) * Price - paid)
  BY <1>1 DEF left
<1>7. 0 \in Nat /\ 0 \in Int /\ -qty \in Int /\ cash \in Int /\ 0 <= qty
  OBVIOUS
<1>8. /\ inv.qty = qty /\ inv.cancelled = FALSE /\ inv.remaining = left
      /\ inv.received = paid /\ inv.status = status
  OBVIOUS
<1> HIDE DEF inv
<1>9. Fine(inv, 0, 0, -qty, cash, 0)
  BY <1>3, <1>4, <1>5, <1>6, <1>7, <1>8 DEF Fine
<1> QED BY <1>9 DEF inv, paid, over, left, status

(* A sale, with the credit it uses, keeps the invariant.                   *)
LEMMA SellKeeps ==
  ASSUME SalesInv, NEW c \in Customers, NEW qty \in Nat, NEW paid \in Nat,
         NEW cod \in BOOLEAN, NEW useCredit \in BOOLEAN,
         Sell(c, qty, paid, cod, useCredit)
  PROVE  SalesInv'
<1> DEFINE n     == issued + 1
           total == qty * Price
           cash  == IF cod THEN 0 ELSE paid
           inv   == [customer |-> c, cod |-> cod, qty |-> qty,
                     received |-> Lesser(cash, total), over |-> Pos(cash - total),
                     remaining |-> Pos(total - Lesser(cash, total)),
                     status |-> ComputeStatus(total, Lesser(cash, total)),
                     cancelled |-> FALSE]
           offer == IF useCredit THEN Lesser(Pos(-Balance(c)), total) ELSE 0
           D     == OnFile \cup {n}
           invs  == [m \in D |-> IF m = n THEN inv ELSE invoices[m]]
           sources == Creditors(invs, c) \ {n}
           amount  == IF sources = {} THEN 0 ELSE Lesser(offer, inv.remaining)
           gain == [m \in DOMAIN invs |-> IF m = n THEN amount ELSE 0]
           loss == Spent(invs, sources, amount)
<1>1. /\ n \in Numbers /\ qty <= shelf
      /\ issued' = n
      /\ invoices' = Transfer(invs, gain, loss)
      /\ transferred' = Moved(gain, loss)
      /\ shelf' = Pos(shelf - qty)
      /\ movements' = [movements EXCEPT ![n] = -qty]
      /\ drawer' = [drawer EXCEPT ![n] = cash]
      /\ UNCHANGED <<returned, refunds, snapshots>>
  BY DEF Sell
<1>2. /\ issued \in 0 .. MaxInvoices /\ shelf \in Nat
      /\ returned \in [Numbers -> Nat] /\ refunds \in [Numbers -> Int]
      /\ movements \in [Numbers -> Int] /\ drawer \in [Numbers -> Int]
      /\ transferred \in [Numbers -> Int]
      /\ OnFile \cup DOMAIN snapshots = 1 .. issued
      /\ OnFile \cap DOMAIN snapshots = {}
      /\ \A m \in Numbers : m > issued => transferred[m] = 0
  BY DEF SalesInv, SalesTypes, EachKeptOnce
<1>3. /\ n \notin OnFile /\ n \notin DOMAIN snapshots
      /\ OnFile \subseteq Numbers /\ D \subseteq Numbers /\ DOMAIN snapshots \subseteq Numbers
  BY <1>1, <1>2, FiledNumbers
<1>4. /\ returned[n] = 0 /\ refunds[n] = 0 /\ movements[n] = 0 /\ drawer[n] = 0
      /\ transferred[n] = 0
  BY <1>1, <1>2, <1>3 DEF SalesInv, NothingLeftBehind
<1>5. total \in Nat /\ cash \in Nat
  BY Products, SalesAssumption
<1>6. Fine(inv, 0, 0, -qty, cash, 0)
  <2> HIDE DEF cash
  <2> QED BY <1>5, FineSale
<1>7. /\ inv.remaining \in Nat /\ inv.customer = c /\ inv.over \in Nat
      /\ inv.cancelled = FALSE /\ inv.cod = cod
  BY <1>6 DEF Fine, Invoice
<1> HIDE DEF inv, cash, total
<1>8. /\ DOMAIN invs = D /\ invs[n] = inv
      /\ \A m \in OnFile : invs[m] = invoices[m]
  BY <1>3
<1>9. \A m \in OnFile : /\ invoices[m] \in Invoice /\ invoices[m].over \in Nat
                        /\ Fine(invoices[m], returned[m], refunds[m], movements[m],
                                drawer[m], transferred[m])
  BY DEF SalesInv, InvoicesFine, Fine, Invoice
<1>10. sources = Creditors(invoices, c)
  BY <1>3, <1>8 DEF Creditors, Of, OnFile
<1>11. sources \subseteq OnFile /\ \A m \in sources : invoices[m].customer = c
  BY <1>10 DEF Creditors, Of, OnFile
<1>12. IsFiniteSet(D) /\ D \subseteq Int /\ IsFiniteSet(sources)
  <2> HIDE DEF D, sources
  <2> QED BY <1>3, <1>11, NumbersFinite, FS_Subset
<1> HIDE DEF D, invs, sources
<1>13. SumFunctionOnSet(Credit(invs), sources) = SumFunctionOnSet(Credit(invoices), sources)
  <2> DEFINE f == Credit(invs)
             g == Credit(invoices)
  <2>1. \A m \in sources : f[m] = g[m]
    BY <1>8, <1>11 DEF Credit, D, OnFile
  <2> HIDE DEF f, g
  <2>2. SumFunctionOnSet(f, sources) = SumFunctionOnSet(g, sources)
    BY <1>12, <2>1, SumSame
  <2> QED BY <2>2 DEF f, g
<1>14. amount \in Nat /\ amount <= SumFunctionOnSet(Credit(invs), sources)
  <2>1. /\ Pos(-Balance(c)) \in Nat
        /\ Pos(-Balance(c)) <= SumFunctionOnSet(Credit(invoices), sources)
    BY <1>10, BalanceCovered
  <2>2. offer \in Nat /\ offer <= Pos(-Balance(c))
    BY <1>5, <2>1 DEF Lesser
  <2>3. SumFunctionOnSet(Credit(invs), sources) \in Nat
    <3> DEFINE f == Credit(invs)
    <3>1. \A m \in sources : f[m] \in Nat
      BY <1>8, <1>9, <1>11 DEF Credit, D
    <3> HIDE DEF f
    <3>2. SumFunctionOnSet(f, sources) \in Nat
      BY <1>12, <3>1, SumNat
    <3> QED BY <3>2 DEF f
  <2>4. CASE sources = {}
    BY <2>3, <2>4
  <2>5. CASE sources # {}
    <3> HIDE DEF offer
    <3> QED BY <1>7, <1>13, <2>1, <2>2, <2>3, <2>5 DEF Lesser
  <2> QED BY <2>4, <2>5
<1> HIDE DEF amount
<1>15. sources \subseteq D /\ \A m \in sources : invs[m].over \in Nat
  BY <1>8, <1>9, <1>11 DEF D
<1>16. /\ SumFunctionOnSet(loss, sources) = amount
       /\ \A m \in D : loss[m] \in Nat
       /\ \A m \in sources : loss[m] <= invs[m].over
       /\ \A m \in D \ sources : loss[m] = 0
  BY <1>8, <1>12, <1>14, <1>15, SpentInFull
<1>17. /\ DOMAIN gain = D /\ gain[n] = amount
       /\ \A m \in D \ {n} : gain[m] = 0
       /\ n \in D /\ n \notin sources
  BY <1>3, <1>8, <1>11 DEF D
<1> HIDE DEF gain, loss
<1>18. /\ DOMAIN invoices' = D
       /\ \A m \in D : invoices'[m] = Moved1(invs[m], gain[m], loss[m])
  BY <1>1, <1>8, TransferIs
<1>19. OnFile' = OnFile \cup {n}
  BY <1>18 DEF OnFile, D
<1>20. Moved(gain, loss) = [m \in Numbers |->
         transferred[m] + (IF m \in D THEN gain[m] - loss[m] ELSE 0)]
  BY <1>17 DEF Moved
<1>21. transferred' \in [Numbers -> Int]
  <2>1. \A m \in D : gain[m] \in Int /\ loss[m] \in Int
    BY <1>14, <1>16, <1>17
  <2> QED BY <1>1, <1>2, <1>20, <2>1
<1>22. SalesTypes'
  <2>1. shelf' \in Nat /\ -qty \in Int /\ cash \in Int /\ issued' \in 0 .. MaxInvoices
    BY <1>1, <1>2, <1>5 DEF Pos, Numbers
  <2> QED BY <1>1, <1>2, <1>21, <2>1 DEF SalesTypes, Numbers
<1>23. EachKeptOnce'
  <2>1. 1 .. issued' = (1 .. issued) \cup {n}
    BY <1>1, <1>2
  <2> QED BY <1>1, <1>2, <1>3, <1>19, <2>1 DEF EachKeptOnce
<1>24. InvoicesFine'
  <2> SUFFICES ASSUME NEW m \in D
               PROVE  Fine(invoices'[m], returned'[m], refunds'[m], movements'[m],
                           drawer'[m], transferred'[m])
    BY <1>18 DEF InvoicesFine, Fine, OnFile
  <2>1. CASE m = n
    <3>1. loss[n] = 0 /\ 0 \in Nat /\ 0 <= inv.over
      BY <1>7, <1>16, <1>17
    <3>2. Fine(Moved1(inv, amount, 0), 0, 0, -qty, cash, 0 + (amount - 0))
      BY <1>6, <1>7, <1>14, <3>1, FineMoved
    <3>3. invoices'[n] = Moved1(inv, amount, 0)
      BY <1>8, <1>17, <1>18, <3>1
    <3>4. transferred'[n] = 0 + (amount - 0)
      BY <1>1, <1>4, <1>17, <1>20, <3>1
    <3>5. /\ returned'[n] = 0 /\ refunds'[n] = 0 /\ movements'[n] = -qty /\ drawer'[n] = cash
      BY <1>1, <1>2, <1>4
    <3> QED BY <2>1, <3>2, <3>3, <3>4, <3>5
  <2>2. CASE m # n
    <3>1. m \in OnFile /\ m \in Numbers
      BY <1>3, <2>2 DEF D
    <3>2. Fine(invoices[m], returned[m], refunds[m], movements[m], drawer[m], transferred[m])
      BY <1>9, <3>1
    <3>3. /\ gain[m] = 0 /\ loss[m] \in Nat /\ 0 \in Nat
          /\ loss[m] <= invoices[m].over
      <4>1. gain[m] = 0 /\ loss[m] \in Nat
        BY <1>16, <1>17, <2>2
      <4>2. m \in sources => loss[m] <= invoices[m].over
        BY <1>8, <1>16, <3>1
      <4>3. m \notin sources => loss[m] <= invoices[m].over
        BY <1>9, <1>16, <3>1
      <4> QED BY <4>1, <4>2, <4>3
    <3>4. Fine(Moved1(invoices[m], 0, loss[m]), returned[m], refunds[m], movements[m],
               drawer[m], transferred[m] + (0 - loss[m]))
      BY <3>2, <3>3, FineMoved
    <3>5. invoices'[m] = Moved1(invoices[m], 0, loss[m])
      BY <1>8, <1>18, <3>1, <3>3
    <3>6. transferred'[m] = transferred[m] + (0 - loss[m])
      BY <1>1, <1>20, <3>1, <3>3
    <3>7. /\ returned'[m] = returned[m] /\ refunds'[m] = refunds[m]
          /\ movements'[m] = movements[m] /\ drawer'[m] = drawer[m]
      BY <1>1, <1>2, <2>2, <3>1
    <3> QED BY <3>4, <3>5, <3>6, <3>7
  <2> QED BY <2>1, <2>2
<1>25. SnapshotsFine'
  <2> SUFFICES ASSUME NEW m \in DOMAIN snapshots
               PROVE  Fine(snapshots[m].invoice, 0, 0, snapshots[m].movements,
                           snapshots[m].drawer, transferred'[m])
    BY <1>1 DEF SnapshotsFine, Fine
  <2>1. Fine(snapshots[m].invoice, 0, 0, snapshots[m].movements, snapshots[m].drawer,
             transferred[m])
    BY DEF SalesInv, SnapshotsFine
  <2>2. m \notin D /\ m \in Numbers
    BY <1>2, <1>3 DEF D
  <2>3. transferred'[m] = transferred[m]
    BY <1>1, <1>2, <1>20, <2>2
  <2> QED BY <2>1, <2>3
<1>26. NothingLeftBehind'
  <2> SUFFICES ASSUME NEW m \in Numbers, m \notin OnFile'
               PROVE  /\ returned'[m] = 0 /\ refunds'[m] = 0
                      /\ movements'[m] = 0 /\ drawer'[m] = 0
    BY DEF NothingLeftBehind, Numbers
  <2>1. m # n /\ m \notin OnFile
    BY <1>19
  <2>2. returned[m] = 0 /\ refunds[m] = 0 /\ movements[m] = 0 /\ drawer[m] = 0
    BY <2>1 DEF SalesInv, NothingLeftBehind
  <2> QED BY <1>1, <1>2, <2>1, <2>2
<1>27. (\A m \in Numbers : m > issued => transferred[m] = 0)'
  <2> SUFFICES ASSUME NEW m \in Numbers, m > issued' PROVE transferred'[m] = 0
    BY DEF Numbers
  <2>1. m \in Int /\ m > issued /\ m # n
    BY <1>1, <1>2 DEF Numbers
  <2>2. m \notin D
    BY <1>2, <2>1 DEF D
  <2> QED BY <1>1, <1>2, <1>20, <2>1, <2>2
<1>28. StockExplained'
  <2>1. /\ returned' = [returned EXCEPT ![n] = 0]
        /\ shelf' = shelf + (-qty + 0) - (movements[n] + returned[n])
        /\ -qty \in Int /\ 0 \in Nat
    BY <1>1, <1>2, <1>4 DEF Pos
  <2> QED BY <1>1, <2>1, StockMoves
<1>29. CreditBalances'
  <2>1. \A m \in 1 .. issued : Owner(m)' = Owner(m)
    <3> SUFFICES ASSUME NEW m \in 1 .. issued PROVE Owner(m)' = Owner(m)
      OBVIOUS
    <3>1. CASE m \in OnFile
      <4>1. m # n /\ m \in D
        BY <1>3, <3>1 DEF D
      <4>2. gain[m] = 0 /\ invs[m] = invoices[m] /\ invoices[m] \in Invoice
        BY <1>8, <1>9, <1>17, <3>1, <4>1
      <4>3. invoices'[m].customer = invoices[m].customer
        <5>1. invoices'[m] = Moved1(invoices[m], 0, loss[m])
          BY <1>18, <4>1, <4>2
        <5> QED BY <4>2, <5>1, Moved1Keeps
      <4> QED BY <1>19, <3>1, <4>3 DEF Owner
    <3>2. CASE m \notin OnFile
      <4>1. m # n
        BY <1>2
      <4> QED BY <1>1, <1>19, <3>2, <4>1 DEF Owner
    <3> QED BY <3>1, <3>2
  <2>2. \A m \in {n} \cup sources : m \in 1 .. issued' /\ Owner(m)' = c
    <3>1. n \in 1 .. issued'
      BY <1>1 DEF Numbers
    <3>2. ASSUME NEW m, m = n PROVE m \in 1 .. issued' /\ Owner(m)' = c
      <4>1. invoices'[n] = Moved1(inv, amount, loss[n])
        BY <1>8, <1>17, <1>18
      <4>2. inv \in Invoice
        BY <1>6 DEF Fine
      <4>3. invoices'[n].customer = c
        BY <1>7, <4>1, <4>2, Moved1Keeps
      <4>4. m \in OnFile' /\ invoices'[m].customer = c
        BY <1>19, <3>2, <4>3
      <4> QED BY <3>1, <3>2, <4>4 DEF Owner
    <3>3. ASSUME NEW m \in sources PROVE m \in 1 .. issued' /\ Owner(m)' = c
      <4>1. m \in 1 .. issued /\ m \in OnFile /\ Owner(m) = c
        BY <1>2, <1>11 DEF Owner
      <4>2. issued' = issued + 1 /\ issued \in Nat
        BY <1>1, <1>2
      <4>3. m \in 1 .. issued'
        BY <4>1, <4>2
      <4>4. Owner(m)' = Owner(m)
        BY <2>1, <4>1
      <4> QED BY <4>1, <4>3, <4>4
    <3> QED BY <3>2, <3>3
  <2>3. SumFunctionOnSet(gain, {n}) = SumFunctionOnSet(loss, sources)
    <3>1. SumFunctionOnSet(gain, {n}) = amount
      <4>1. IsFiniteSet({}) /\ n \notin {} /\ \A y \in {} \cup {n} : gain[y] \in Int
        BY <1>14, <1>17, FS_EmptySet
      <4>2. SumFunctionOnSet(gain, {} \cup {n}) = gain[n] + SumFunctionOnSet(gain, {})
        BY <4>1, SumAdd
      <4>3. {} \cup {n} = {n} /\ SumFunctionOnSet(gain, {}) = 0
        BY SumEmpty
      <4> QED BY <1>14, <1>17, <4>2, <4>3
    <3> QED BY <1>16, <3>1
  <2>4. /\ issued' \in issued .. MaxInvoices
        /\ {n} \subseteq D /\ sources \subseteq D /\ D \subseteq Numbers
    <3>1. n \in 1 .. MaxInvoices /\ issued' = n /\ issued \in Nat
      BY <1>1, <1>2 DEF Numbers
    <3>2. issued' \in issued .. MaxInvoices
      BY <3>1, SalesAssumption
    <3> QED BY <1>3, <1>15, <1>17, <3>2
  <2>5. /\ \A m \in D : gain[m] \in Int /\ loss[m] \in Int
        /\ \A m \in D \ {n} : gain[m] = 0
        /\ \A m \in D \ sources : loss[m] = 0
        /\ DOMAIN gain = D
    BY <1>14, <1>16, <1>17
  <2>6. transferred' = Moved(gain, loss)
    BY <1>1
  <2> HIDE DEF n
  <2> QED BY <2>1, <2>2, <2>3, <2>4, <2>5, <2>6, CreditMoves
<1> QED BY <1>22, <1>23, <1>24, <1>25, <1>26, <1>27, <1>28, <1>29 DEF SalesInv

(* Settling a customer's dues from the customer's credit keeps the         *)
(* invariant.                                                              *)
LEMMA SettleKeeps ==
  ASSUME SalesInv, NEW c \in Customers, SettlesPlainly(c), SettleAllDues(c)
  PROVE  SalesInv'
<1> DEFINE sources == Creditors(invoices, c)
           targets == Targets(c)
           pool    == SumFunctionOnSet(Credit(invoices), sources)
           gain    == Applied(invoices, targets, pool)
           amount  == SumFunctionOnSet(gain, targets)
           loss    == Spent(invoices, sources, amount)
<1>1. /\ invoices' = Transfer(invoices, gain, loss)
      /\ transferred' = Moved(gain, loss)
      /\ UNCHANGED <<issued, returned, refunds, shelf, movements, drawer, snapshots>>
  BY DEF SettleAllDues
<1>2. /\ issued \in 0 .. MaxInvoices /\ shelf \in Nat
      /\ returned \in [Numbers -> Nat] /\ refunds \in [Numbers -> Int]
      /\ movements \in [Numbers -> Int] /\ drawer \in [Numbers -> Int]
      /\ transferred \in [Numbers -> Int]
      /\ OnFile \cup DOMAIN snapshots = 1 .. issued
      /\ OnFile \cap DOMAIN snapshots = {}
      /\ \A m \in Numbers : m > issued => transferred[m] = 0
  BY DEF SalesInv, SalesTypes, EachKeptOnce
<1>3. OnFile \subseteq Numbers /\ DOMAIN snapshots \subseteq Numbers
  BY FiledNumbers
<1>4. \A m \in OnFile : /\ invoices[m] \in Invoice /\ invoices[m].over \in Nat
                        /\ invoices[m].remaining \in Nat
                        /\ Fine(invoices[m], returned[m], refunds[m], movements[m],
                                drawer[m], transferred[m])
  BY DEF SalesInv, InvoicesFine, Fine, Invoice
<1>5. /\ sources \subseteq OnFile /\ targets \subseteq OnFile
      /\ \A m \in sources \cup targets : invoices[m].customer = c
      /\ \A m \in targets : returned[m] = 0 /\ ~invoices[m].cancelled
  BY DEF Creditors, Targets, Of, OnFile, SettlesPlainly
<1>6. IsFiniteSet(OnFile) /\ OnFile \subseteq Int /\ DOMAIN invoices = OnFile
      /\ IsFiniteSet(sources)
  <2> HIDE DEF sources
  <2>1. OnFile \subseteq Numbers /\ sources \subseteq Numbers
    BY <1>3, <1>5
  <2>2. IsFiniteSet(OnFile) /\ IsFiniteSet(sources)
    BY <2>1, NumbersFinite, FS_Subset
  <2> QED BY <2>1, <2>2, NumbersFinite DEF OnFile
<1> HIDE DEF sources, targets
<1>7. pool \in Nat
  <2> DEFINE f == Credit(invoices)
  <2>1. \A m \in sources : f[m] \in Nat
    BY <1>4, <1>5, <1>6 DEF Credit
  <2> HIDE DEF f
  <2>2. SumFunctionOnSet(f, sources) \in Nat
    BY <1>6, <2>1, SumNat
  <2> QED BY <2>2 DEF f
<1> HIDE DEF pool
<1>8. /\ amount \in Nat /\ amount <= pool
      /\ \A m \in OnFile : gain[m] \in Nat
      /\ \A m \in OnFile \ targets : gain[m] = 0
  <2>1. \A m \in targets : invoices[m].remaining \in Nat
    BY <1>4, <1>5
  <2> QED BY <1>5, <1>6, <1>7, <2>1, AppliedAtMost
<1>9. DOMAIN gain = OnFile
  BY <1>6 DEF Applied
<1> HIDE DEF amount
<1>10. /\ SumFunctionOnSet(loss, sources) = amount
       /\ \A m \in OnFile : loss[m] \in Nat
       /\ \A m \in sources : loss[m] <= invoices[m].over
       /\ \A m \in OnFile \ sources : loss[m] = 0
  <2>1. \A m \in sources : invoices[m].over \in Nat
    BY <1>4, <1>5
  <2>2. amount <= SumFunctionOnSet(Credit(invoices), sources)
    BY <1>8 DEF pool
  <2>3. /\ IsFiniteSet(DOMAIN invoices) /\ DOMAIN invoices \subseteq Int
        /\ sources \subseteq DOMAIN invoices
    BY <1>5, <1>6
  <2>4. /\ SumFunctionOnSet(Spent(invoices, sources, amount), sources) = amount
        /\ \A m \in DOMAIN invoices : Spent(invoices, sources, amount)[m] \in Nat
        /\ \A m \in sources : Spent(invoices, sources, amount)[m] <= invoices[m].over
        /\ \A m \in DOMAIN invoices \ sources : Spent(invoices, sources, amount)[m] = 0
    BY <1>8, <2>1, <2>2, <2>3, SpentInFull
  <2> QED BY <1>6, <2>4
<1>11. SumFunctionOnSet(gain, targets) = amount
  BY DEF amount
<1> HIDE DEF gain, loss
<1>12. /\ DOMAIN invoices' = OnFile /\ OnFile' = OnFile
       /\ \A m \in OnFile : invoices'[m] = Moved1(invoices[m], gain[m], loss[m])
  BY <1>1, <1>6, TransferIs DEF OnFile
<1>13. Moved(gain, loss) = [m \in Numbers |->
         transferred[m] + (IF m \in OnFile THEN gain[m] - loss[m] ELSE 0)]
  BY <1>9 DEF Moved
<1>14. \A m \in OnFile : gain[m] \in Int /\ loss[m] \in Int
  BY <1>8, <1>10
<1>15. SalesTypes'
  <2>1. transferred' \in [Numbers -> Int]
    BY <1>1, <1>2, <1>13, <1>14
  <2> QED BY <1>1, <1>2, <2>1 DEF SalesTypes, Numbers
<1>16. EachKeptOnce'
  BY <1>1, <1>2, <1>12 DEF EachKeptOnce
<1>17. InvoicesFine'
  <2> SUFFICES ASSUME NEW m \in OnFile
               PROVE  Fine(invoices'[m], returned'[m], refunds'[m], movements'[m],
                           drawer'[m], transferred'[m])
    BY <1>12 DEF InvoicesFine, Fine
  <2>1. Fine(invoices[m], returned[m], refunds[m], movements[m], drawer[m], transferred[m])
    BY <1>4
  <2>2. gain[m] \in Nat /\ loss[m] \in Nat
    BY <1>8, <1>10
  <2>3. loss[m] <= invoices[m].over
    <3>1. CASE m \in sources
      BY <1>10, <3>1
    <3>2. CASE m \notin sources
      BY <1>4, <1>10, <3>2
    <3> QED BY <3>1, <3>2
  <2>4. gain[m] # 0 => returned[m] = 0 /\ ~invoices[m].cancelled
    BY <1>5, <1>8
  <2>5. Fine(Moved1(invoices[m], gain[m], loss[m]), returned[m], refunds[m], movements[m],
             drawer[m], transferred[m] + (gain[m] - loss[m]))
    BY <2>1, <2>2, <2>3, <2>4, FineMoved
  <2>6. transferred'[m] = transferred[m] + (gain[m] - loss[m])
    BY <1>1, <1>3, <1>13
  <2> QED BY <1>1, <1>12, <2>5, <2>6
<1>18. SnapshotsFine'
  <2> SUFFICES ASSUME NEW m \in DOMAIN snapshots
               PROVE  Fine(snapshots[m].invoice, 0, 0, snapshots[m].movements,
                           snapshots[m].drawer, transferred'[m])
    BY <1>1 DEF SnapshotsFine, Fine
  <2>1. Fine(snapshots[m].invoice, 0, 0, snapshots[m].movements, snapshots[m].drawer,
             transferred[m])
    BY DEF SalesInv, SnapshotsFine
  <2>2. m \notin OnFile /\ m \in Numbers
    BY <1>2, <1>3
  <2>3. transferred'[m] = transferred[m]
    BY <1>1, <1>2, <1>13, <2>2
  <2> QED BY <2>1, <2>3
<1>19. NothingLeftBehind'
  BY <1>1, <1>12 DEF SalesInv, NothingLeftBehind, Numbers
<1>20. (\A m \in Numbers : m > issued => transferred[m] = 0)'
  <2> SUFFICES ASSUME NEW m \in Numbers, m > issued PROVE transferred'[m] = 0
    BY <1>1 DEF Numbers
  <2>1. m \notin OnFile
    BY <1>2 DEF Numbers
  <2> QED BY <1>1, <1>2, <1>13, <2>1
<1>21. StockExplained'
  BY <1>1 DEF SalesInv, StockExplained, Numbers
<1>22. CreditBalances'
  <2>1. \A m \in 1 .. issued : Owner(m)' = Owner(m)
    <3> SUFFICES ASSUME NEW m \in 1 .. issued PROVE Owner(m)' = Owner(m)
      OBVIOUS
    <3>1. CASE m \in OnFile
      <4>1. invoices'[m].customer = invoices[m].customer
        BY <1>4, <1>12, <3>1, Moved1Keeps
      <4> QED BY <1>12, <3>1, <4>1 DEF Owner
    <3>2. CASE m \notin OnFile
      BY <1>1, <1>12, <3>2 DEF Owner
    <3> QED BY <3>1, <3>2
  <2>2. \A m \in targets \cup sources : m \in 1 .. issued' /\ Owner(m)' = c
    <3> SUFFICES ASSUME NEW m \in targets \cup sources
                 PROVE  m \in 1 .. issued' /\ Owner(m)' = c
      OBVIOUS
    <3>1. m \in OnFile /\ m \in 1 .. issued /\ invoices[m].customer = c
      BY <1>2, <1>5
    <3>2. Owner(m)' = Owner(m) /\ Owner(m) = c
      BY <2>1, <3>1 DEF Owner
    <3> QED BY <1>1, <3>1, <3>2
  <2>3. SumFunctionOnSet(gain, targets) = SumFunctionOnSet(loss, sources)
    BY <1>10, <1>11
  <2>4. issued' \in issued .. MaxInvoices
    BY <1>1, <1>2, SalesAssumption
  <2>5. transferred' = Moved(gain, loss)
    BY <1>1
  <2> QED BY <1>3, <1>5, <1>8, <1>9, <1>10, <1>14, <2>1, <2>2, <2>3, <2>4, <2>5, CreditMoves
<1> QED BY <1>15, <1>16, <1>17, <1>18, <1>19, <1>20, <1>21, <1>22 DEF SalesInv

---------------------------------------------------------------------------
(* The ledger                                                              *)

(* A stutter keeps the invariant.                                          *)
LEMMA StutterKeeps == SalesInv /\ UNCHANGED vars => SalesInv'
BY DEF vars, SalesInv, SalesTypes, EachKeptOnce, InvoicesFine, SnapshotsFine,
       NothingLeftBehind, StockExplained, CreditBalances, NumbersOf, Owner, OnFile, Numbers,
       Fine

(* What the screens offer is a natural number of units or of money.        *)
LEMMA Offered ==
  ASSUME NEW n \in Numbers
  PROVE  Quantities(n) \subseteq Nat /\ Payments(n) \subseteq Nat
<1>1. MaxQty[n] \in Nat
  BY SalesAssumption DEF Numbers
<1>2. MaxQty[n] * Price \in Nat
  BY <1>1, Products, SalesAssumption
<1> QED BY <1>1, <1>2 DEF Quantities, Payments

(* Every handler of the sales keeps the invariant.                         *)
LEMMA NextKeeps == SalesInv /\ Next => SalesInv'
<1> SUFFICES ASSUME SalesInv, Next PROVE SalesInv'
  OBVIOUS
<1>1. \A n \in OnFile : Quantities(n) \subseteq Nat /\ Payments(n) \subseteq Nat
  BY FiledNumbers, Offered
<1>2. CASE SellAny
  <2>1. issued + 1 \in Numbers
    <3>1. issued < MaxInvoices
      BY <1>2 DEF SellAny
    <3>2. issued \in 0 .. MaxInvoices
      BY DEF SalesInv, SalesTypes
    <3> QED BY <3>1, <3>2, SalesAssumption DEF Numbers
  <2>2. Quantities(issued + 1) \subseteq Nat /\ Payments(issued + 1) \subseteq Nat
    BY <2>1, Offered
  <2>3. PICK c \in Customers, qty \in Quantities(issued + 1), useCredit \in BOOLEAN :
          \/ \E paid \in Payments(issued + 1) : Sell(c, qty, paid, FALSE, useCredit)
          \/ Sell(c, qty, 0, TRUE, useCredit)
    BY <1>2 DEF SellAny
  <2>4. qty \in Nat /\ 0 \in Nat /\ TRUE \in BOOLEAN /\ FALSE \in BOOLEAN
    BY <2>2
  <2>5. CASE \E paid \in Payments(issued + 1) : Sell(c, qty, paid, FALSE, useCredit)
    <3>1. PICK paid \in Payments(issued + 1) : Sell(c, qty, paid, FALSE, useCredit)
      BY <2>5
    <3>2. paid \in Nat
      BY <2>2
    <3> QED BY <2>4, <3>1, <3>2, SellKeeps
  <2>6. CASE Sell(c, qty, 0, TRUE, useCredit)
    BY <2>4, <2>6, SellKeeps
  <2> QED BY <2>3, <2>5, <2>6
<1>3. CASE ReceiveAny
  BY <1>1, <1>3, ReceiveKeeps DEF ReceiveAny
<1>4. CASE EditAny
  BY <1>1, <1>4, EditKeeps DEF EditAny
<1>5. CASE CancelAny
  BY <1>5, CancelKeeps DEF CancelAny
<1>6. CASE DeleteAny
  BY <1>6, DeleteKeeps DEF DeleteAny
<1>7. CASE RestoreAny
  BY <1>7, RestoreKeeps DEF RestoreAny
<1>8. CASE ReturnAny
  BY <1>1, <1>8, ReturnKeeps DEF ReturnAny
<1>9. CASE SettleAny
  BY <1>9, SettleKeeps DEF SettleAny
<1> QED BY <1>2, <1>3, <1>4, <1>5, <1>6, <1>7, <1>8, <1>9 DEF Next

(* The invariant holds of every state the sales handlers can reach.        *)
THEOREM SalesAlwaysInv == Spec => []SalesInv
<1>1. SalesInv /\ [Next]_vars => SalesInv'
  BY NextKeeps, StutterKeeps
<1> QED BY InitFine, <1>1, PTL DEF Spec

(* Every invoice on file and every undo snapshot is well formed, and none  *)
(* is both (salesInvoices, the snapshots of deleteSalesInvoice).           *)
THEOREM SalesTypeCorrect == Spec => []TypeOK
BY SalesAlwaysInv, InvTypeOK, PTL

(* What an invoice says it collected is what its cash entries, refunds and *)
(* credit come to, whatever was sold, paid, edited, returned, cancelled,   *)
(* deleted, restored or settled.                                           *)
THEOREM MoneyAlwaysAccounted == Spec => []MoneyAccounted
BY SalesAlwaysInv, InvMoney, PTL

(* A return's amount is taken off what is owed exactly once, and "paid"    *)
(* means nothing is owed (the dues of updateSalesInvoice, addSalesReturn   *)
(* and applyCustomerCredit agree).                                         *)
THEOREM AlwaysOwedOnce == Spec => []OwedOnce
BY SalesAlwaysInv, InvOwed, PTL

(* No customer gains or loses by credit moved among invoices, and none     *)
(* pays for another (applyCustomerCredit, settleAllDues).                  *)
THEOREM CreditAlwaysConserved == Spec => []CreditConserved
BY SalesAlwaysInv, InvCredit, PTL

(* The movements and returns on record explain the shelf.                  *)
THEOREM StockAlwaysExplained == Spec => []StockExplained
BY SalesAlwaysInv, InvStock, PTL

(* The shelf and the units with customers are the opening stock: nothing   *)
(* sold comes back twice.                                                  *)
THEOREM NeverAUnitTwice == Spec => []NoUnitTwice
BY SalesAlwaysInv, InvUnits, PTL
=============================================================================
