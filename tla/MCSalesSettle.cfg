SPECIFICATION SettlingSpec
CONSTANTS
  c1 = c1
  Customers = {c1}
  Price = 1
  Opening = 3
  MaxInvoices = 2
  MaxQty <- BothOfTwoUnits
PROPERTIES
  SettlingOnlyReduces
CHECK_DEADLOCK FALSE
