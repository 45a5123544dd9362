SPECIFICATION Spec
CONSTANTS
  Symbols = {s1, s2, s3}
  Listed = {s1, s2}
  Discarded = {s2}
  Rows = 3
  Times = {1, 2}
  Budget <- SmallBudget
INVARIANTS TypeOK ToldWhatIsKept ValuesCurrent DiscardedKept CurrencyTold TradesOnce TimeCovers
CHECK_DEADLOCK FALSE
