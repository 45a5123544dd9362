------------------------------ MODULE PriceCache ------------------------------
(***************************************************************************)
(* gateway/price_cache.cpp: BitMEX identifies a level of an L2 book by an  *)
(* id and sends its price only when the level appears.  The gateway keeps  *)
(* price_lookup_, a map from id to price, to complete the later rows.      *)
(*                                                                         *)
(* Prices are positive numbers.  NoPrice stands both for "id not in the    *)
(* map" and for the NaN of a row without a price.  A price stands for the  *)
(* pair (side, price): the dispatcher keeps bids and asks apart.           *)
(***************************************************************************)
EXTENDS Naturals

CONSTANTS Ids,        \* level ids, shared by every symbol
          Prices      \* the (side, price) pairs of the market

ASSUME PricesAssumption == Prices \subseteq Nat \ {0}

NoPrice == 0

Actions == {"PARTIAL", "INSERT", "UPDATE", "DELETE"}

PriceLookup == [Ids -> Prices \cup {NoPrice}]

EmptyLookup == [i \in Ids |-> NoPrice]

(* The price returned for a row: the remembered one wins on UPDATE and     *)
(* DELETE; PARTIAL and INSERT return the row's own price, whether or not   *)
(* the id was already remembered at another one.                           *)
Resolved(cache, action, id, price) ==
  IF action \in {"UPDATE", "DELETE"} /\ cache[id] # NoPrice THEN cache[id]
                                                            ELSE price

(* Mutants: only a PARTIAL fills the map; UPDATE falls through to the      *)
(* erase of DELETE.                                                        *)
RememberedFromPartial(cache, action, id, price) ==
  IF action = "DELETE" THEN NoPrice
  ELSE IF action = "PARTIAL" /\ cache[id] = NoPrice THEN price
  ELSE cache[id]
RememberedUntilUpdate(cache, action, id, price) ==
  IF action \in {"UPDATE", "DELETE"} THEN NoPrice
  ELSE IF cache[id] = NoPrice THEN price
  ELSE cache[id]

(* What the map holds for the id afterwards: PARTIAL and INSERT emplace a  *)
(* new id and leave a known one alone, UPDATE only reads, DELETE erases.   *)
Remembered(cache, action, id, price) ==
  IF action = "DELETE" THEN NoPrice
  ELSE IF action \in {"PARTIAL", "INSERT"} /\ cache[id] = NoPrice THEN price
  ELSE cache[id]

===============================================================================
