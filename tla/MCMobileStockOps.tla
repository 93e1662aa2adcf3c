------------------------- MODULE MCMobileStockOps -------------------------
(* Scans of one part: two whole units added, one and a bit removed (the    *)
(* portal counts thousandths), a count; and a scan of an unknown part.     *)
EXTENDS MobileStockOps

CONSTANTS m1, m2

AddTwo    == [id |-> 1, kind |-> "add",    milli |-> 2000, known |-> TRUE]
RemoveTwo == [id |-> 2, kind |-> "remove", milli |-> 1600, known |-> TRUE]
CountOne  == [id |-> 3, kind |-> "count",  milli |-> 1000, known |-> TRUE]
Unknown   == [id |-> 4, kind |-> "add",    milli |-> 1000, known |-> FALSE]

FairScans == {AddTwo, RemoveTwo, CountOne}
AllScans  == FairScans \cup {Unknown}
============================================================================
