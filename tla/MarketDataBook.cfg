SPECIFICATION Spec
CONSTANTS
  Ids <- MCIds
  Prices <- MCPrices
  SymbolOf <- MCSymbolOf
  Symbols = {"A", "B"}
  Quotes <- StablePrice
  Sizes = {1, 2}
  Priced = {FALSE}
  Unlisted = {}
  MaxRows = 2
  Discarded = {}
  Budget <- BookEvents
CHECK_DEADLOCK FALSE
INVARIANTS
  TypeOK
  Inductive
  BookMirrored
  ClosesOnlyAfterGap
PROPERTIES
  FollowsFeed
