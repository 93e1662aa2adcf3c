--------------------------- MODULE MCLedgerStore ---------------------------
(* A small shop for the checker: two documents, chunks of two records.     *)
(* It opens with no ledger, or with one an older version kept unsorted, or *)
(* with one that cannot be sorted.                                         *)
EXTENDS LedgerStore

CONSTANTS d1, d2

Shops ==
  {<<>>,
   <<[id |-> 0, ref |-> d1, date |-> 3], [id |-> 1, ref |-> d2, date |-> 1]>>,
   <<[id |-> 1, ref |-> d1, date |-> 1], [id |-> 2, ref |-> d2, date |-> 3],
     [id |-> 0, ref |-> d1, date |-> 3]>>,
   <<[id |-> 0, ref |-> d1, date |-> Undated], [id |-> 1, ref |-> d2, date |-> 1]>>}
============================================================================
