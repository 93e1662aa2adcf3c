----------------------------- MODULE CreditPool -----------------------------
(***************************************************************************)
(* The arithmetic sales and purchase invoices share: the status of an      *)
(* invoice and how one party's credit is spread over what it owes          *)
(* (src/src/store/_pure.ts; settleAllDues, applyCustomerCredit and         *)
(* settleSupplierDues in src/src/store/AppContext.tsx).                    *)
(*                                                                         *)
(* Invoices are numbered in date order; invs is a function from numbers to *)
(* records with, at least, the fields over and remaining.                  *)
(***************************************************************************)
EXTENDS Integers, Functions

(* Mutant of Pos: the amount is not clamped.                               *)
PosUnclamped(n) == n

(* Math.max(0, n)                                                          *)
Pos(n) == IF n > 0 THEN n ELSE 0
Lesser(m, n) == IF m < n THEN m ELSE n

Status == {"paid", "partial", "unpaid"}

ComputeStatus(total, paid) ==
  IF total <= 0 \/ paid >= total THEN "paid"
  ELSE IF paid <= 0 THEN "unpaid" ELSE "partial"

Credit(invs) == [n \in DOMAIN invs |-> invs[n].over]
Owed(invs)   == [n \in DOMAIN invs |-> invs[n].remaining]

(* Mutant of Spent: every source gives up to the whole amount.             *)
SpentTwice(invs, sources, amount) ==
  [n \in DOMAIN invs |-> IF n \in sources THEN Lesser(invs[n].over, amount) ELSE 0]

(* Credit taken off each source, newest source first, up to amount.        *)
Spent(invs, sources, amount) ==
  [n \in DOMAIN invs |->
     IF n \notin sources THEN 0
     ELSE Lesser(invs[n].over,
                 Pos(amount - SumFunctionOnSet(Credit(invs), {s \in sources : s > n})))]

(* Credit put on each target, oldest target first, up to pool.             *)
Applied(invs, targets, pool) ==
  [n \in DOMAIN invs |->
     IF n \notin targets THEN 0
     ELSE Lesser(invs[n].remaining,
                 Pos(pool - SumFunctionOnSet(Owed(invs), {t \in targets : t < n})))]
============================================================================
