SPECIFICATION Spec
CONSTANTS
  Ids <- MCIds
  Prices <- MCPrices
  SymbolOf <- MCSymbolOf
  Symbols = {"A", "B"}
  Quotes <- StablePrice
  Sizes = {1}
  Priced = {FALSE}
  Unlisted = {}
  MaxRows = 1
  Discarded = {}
  Budget <- ResubscribeEvents
CHECK_DEADLOCK FALSE
PROPERTIES
  DropsBeforePartial
