SPECIFICATION Spec
CONSTANTS
  Ids <- MCIds
  Prices <- MCPrices
  SymbolOf <- MCSymbolOf
  Symbols = {"A", "B"}
  Quotes <- StablePrice
  Sizes = {1}
  Priced = {FALSE}
  Unlisted = {"B"}
  MaxRows = 1
  Discarded = {}
  Budget <- SessionEvents
CHECK_DEADLOCK FALSE
INVARIANTS
  ReferenceBeforeBook
  AssertionsHold
  ReadyIsComplete
  BookCurrent
  CacheCovers
