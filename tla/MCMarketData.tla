----------------------------- MODULE MCMarketData -----------------------------
(***************************************************************************)
(* Small instances of MarketData: symbol "A" with two level ids, "B" with  *)
(* one.  Each Budget names what the environment of one run may do.         *)
(***************************************************************************)
EXTENDS MarketData

MCIds == 1..3
MCPrices == 1..3
MCSymbolOf == [i \in MCIds |-> IF i = 3 THEN "B" ELSE "A"]

(* Ids as BitMEX documents them: one price each, for life.                 *)
StablePrice == [i \in MCIds |-> {i}]
ASSUME StablePrice = Quotes => StableQuotes

NoEvents == [e \in Events |-> 0]

BookEvents == [NoEvents EXCEPT !["change"] = 2, !["disconnect"] = 1]
SessionEvents == [NoEvents EXCEPT !["change"] = 1, !["disconnect"] = 1,
                                  !["instrument"] = 1, !["funding"] = 1,
                                  !["list"] = 1, !["reject"] = 1,
                                  !["refuse"] = 1]
LiveEvents == [BookEvents EXCEPT !["lose"] = 1]
ResubscribeEvents == [NoEvents EXCEPT !["change"] = 2, !["reject"] = 1]
===============================================================================
