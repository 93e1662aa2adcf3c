--------------------------- MODULE MCSalesLedger ---------------------------
(* A shop with one customer and two invoices of two units, part of which   *)
(* can be returned.                                                        *)
EXTENDS SalesLedger, TLC

CONSTANT c1

BothOfTwoUnits == <<2, 2>>
============================================================================
