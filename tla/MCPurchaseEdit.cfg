SPECIFICATION PurchaseEditingSpec
CONSTANTS
  Suppliers = {s1}
  Prices = {1, 2}
  OpeningUnits = 1
  OpeningCost = 1
  MaxPurchases = 2
  MaxBought = 2
  MaxSold = 2
INVARIANTS
  PurchasesExplainStock
CHECK_DEADLOCK FALSE
