SPECIFICATION BooksSpec
CONSTANTS
  c1 = c1
  c2 = c2
  Customers = {c1, c2}
  Price = 1
  Opening = 3
  MaxInvoices = 3
  MaxQty <- OneOfTwoUnits
  s1 = s1
  s2 = s2
  Suppliers = {s1, s2}
  Prices = {1, 2}
  OpeningUnits = 1
  OpeningCost = 1
  MaxPurchases = 2
  MaxBought = 2
  MaxSold = 2
  InStock = 3
  MaxSale = 2
  NoFile = NoFile
SYMMETRY AnyParty
INVARIANTS
  BooksTypeOK
  MoneyAccounted
  CreditConserved
  StockExplained
  NoUnitTwice
  OwedOnce
  SpendingAccounted
  SupplierCreditConserved
  PurchasesExplainStock
  CostExplained
  BackupsReconcile
CHECK_DEADLOCK FALSE
