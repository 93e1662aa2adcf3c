SPECIFICATION SigningOutSpec
CONSTANTS
  Opening = 9
  MaxSale = 3
  MaxStock = 9
INVARIANTS
  LedgerExplainsStock
