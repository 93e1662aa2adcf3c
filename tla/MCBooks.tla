------------------------------- MODULE MCBooks -------------------------------
(***************************************************************************)
(* The shop's books, checked in one run: BooksInit picks the sales, the    *)
(* purchases or the backups, and only that part moves.                     *)
(*                                                                         *)
(* A shop with two customers and three invoices, the first of two units,   *)
(* so that part of it can be returned, and enough to spread one credit     *)
(* over two; two purchases of one or two units, cheap or dear, from one    *)
(* supplier or from two, beside one unit already on the shelf; backups of  *)
(* three units, sold one or two at a time.                                 *)
(***************************************************************************)
EXTENDS SalesLedger, PurchaseLedger, ShopBackup, TLC

CONSTANTS c1, c2, s1, s2

OneOfTwoUnits == <<2, 1, 1>>

AnyParty == Permutations({c1, c2}) \cup Permutations({s1, s2})

VARIABLE book

booksVars == <<vars, purchaseVars, backupVars, book>>

BooksInit ==
  /\ Init /\ PurchaseInit /\ BackupInit
  /\ book \in {"sales", "purchases", "backups"}

BooksNext ==
  \/ book = "sales" /\ Next /\ UNCHANGED <<book, purchaseVars, backupVars>>
  \/ book = "purchases" /\ PurchaseNext /\ UNCHANGED <<book, vars, backupVars>>
  \/ book = "backups" /\ BackupNext /\ UNCHANGED <<book, vars, purchaseVars>>

BooksSpec == BooksInit /\ [][BooksNext]_booksVars

(* The variables of every book keep their types.                           *)
BooksTypeOK == TypeOK /\ PurchaseTypeOK /\ BackupTypeOK
=============================================================================
