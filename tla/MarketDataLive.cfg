SPECIFICATION FairSpec
CONSTANTS
  Ids <- MCIds
  Prices <- MCPrices
  SymbolOf <- MCSymbolOf
  Symbols = {"A", "B"}
  Quotes <- StablePrice
  Sizes = {1}
  Priced = {TRUE, FALSE}
  Unlisted = {}
  MaxRows = 1
  Discarded = {"B"}
  Budget <- LiveEvents
CHECK_DEADLOCK FALSE
INVARIANTS
  DiscardedHidden
PROPERTIES
  EventuallyShown
  GapHeals
