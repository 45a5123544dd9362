------------------------------- MODULE Products -------------------------------
(***************************************************************************)
(* gateway/product.cpp and the handlers of gateway/market_data.cpp that    *)
(* tell the users of instruments and trades.  MarketData.tla only says     *)
(* which symbols have a product; here are their values, what marks them    *)
(* for publication, and what the users are told.                           *)
(*                                                                         *)
(* The fields of a product are three: "tick" stands for those published as *)
(* reference data, "state" for the market status, "price" for those        *)
(* published as statistics.  A row gives some of them.  The quote and the  *)
(* settlement currency never change: a product knows them or not.          *)
(***************************************************************************)
EXTENDS Integers, Sequences, FiniteSets

CONSTANTS Symbols, Listed, Discarded,
          Rows,        \* bound: rows of a trade message
          Times,       \* bound: the time stamps of trades
          Budget       \* bound: how often the environment may do each

Events == {"disconnect", "change", "list", "trade"}

ASSUME SymbolsAssumption == Listed \subseteq Symbols /\ Discarded \subseteq Symbols
ASSUME BoundsAssumption == /\ Rows \in Nat /\ Times \subseteq Nat \ {0}
                           /\ Budget \in [Events -> Nat]

VARIABLES
  partial,     \* partial_received_.instrument
  cache,       \* product_cache_
  told,        \* dispatcher: what the users were told last of each symbol
  trades,      \* the trade message handled last, if that came last
  tape,        \* dispatcher: the trade summaries it led to, by the row they come at
  stream,      \* exchange: the subscription to instruments
  inbox,       \* messages from the exchange
  listed,      \* exchange: the symbols
  market,      \* exchange: their values
  missed,      \* history: symbols listed in the middle of a session
  late,        \* ... of this session
  budget       \* what is left of Budget

products == <<partial, cache, told>>
tapes == <<trades, tape>>
exchange == <<stream, listed, market, missed, late>>
vars == <<products, tapes, exchange, inbox, budget>>

-------------------------------------------------------------------------------
Fields == {"tick", "state", "price"}
Values == 0..(Budget["change"] + 1)
Some(S) == UNION {[D -> Values] : D \in SUBSET S}
Only(x, value) == [y \in {x} |-> value]
(* utils::update, and what else replaces what it names: the rest stays.    *)
Over(old, new) ==
  [x \in DOMAIN old \cup DOMAIN new |-> IF x \in DOMAIN new THEN new[x] ELSE old[x]]
IsMessage(m) ==
  \/ m.table = "instrument" /\ m.action \in {"PARTIAL", "UPDATE", "INSERT"}
     /\ DOMAIN m.rows \subseteq Symbols /\ \A s \in DOMAIN m.rows : m.rows[s] \in Some(Fields)
  \/ m.table = "funding" /\ m.symbol \in Symbols

TypeOK ==
  /\ partial \in BOOLEAN
  /\ DOMAIN cache \subseteq Symbols
  /\ \A s \in DOMAIN cache :
       /\ cache[s].kept \in Some(Fields) /\ cache[s].currency \in BOOLEAN
       /\ cache[s].dirty \subseteq {"tick", "state"}
       /\ cache[s].statistics \in Seq(Values)
  /\ told \in [Symbols -> Some(Fields \cup {"currency"})]
  /\ trades \in Seq(Symbols \X Times)
  /\ stream \in {"off", "pending", "on"}
  /\ \A i \in DOMAIN inbox : IsMessage(inbox[i])
  /\ listed \subseteq Symbols /\ market \in [Symbols -> [Fields -> Values]]
  /\ missed \subseteq Symbols /\ late \subseteq missed
  /\ budget \in [Events -> Nat]

-------------------------------------------------------------------------------
(* Products.                                                               *)

(* Product::update(InstrumentDataItem).  What a row does not give stays as *)
(* it is (utils::update).                                                  *)
Changed(product, row) ==
  {f \in DOMAIN row : f \notin DOMAIN product.kept \/ product.kept[f] # row[f]}
\* mutant: the flags are assigned, so that the second call clears them
Assign(product, row) ==
  [product EXCEPT
     !.kept = Over(@, row),
     !.dirty = Changed(product, row) \cap {"tick", "state"},
     !.statistics = IF "price" \in Changed(product, row)
                    THEN Append(@, row["price"]) ELSE @]
\* mutant: a statistic marks the product, too
MarkAll(product, row) ==
  [product EXCEPT
     !.kept = Over(@, row),
     !.dirty = @ \cup Changed(product, row),
     !.statistics = IF "price" \in Changed(product, row)
                    THEN Append(@, row["price"]) ELSE @]
Update(product, row) ==
  [product EXCEPT
     !.kept = Over(@, row),
     !.dirty = @ \cup (Changed(product, row) \cap {"tick", "state"}),
     !.statistics = IF "price" \in Changed(product, row)
                    THEN Append(@, row["price"]) ELSE @]

(* The constructors.  The one for instruments takes reference data as it   *)
(* is, and nothing of it is marked; the one for funding takes nothing.     *)
FromFunding == [kept |-> <<>>, currency |-> FALSE, dirty |-> {}, statistics |-> <<>>]
FromInstrument(row) ==
  Update([FromFunding EXCEPT
            !.currency = TRUE,
            !.kept = [f \in DOMAIN row \cap {"tick"} |-> row[f]]], row)

\* mutant: the product is found and not updated
FindOnly(s, row) == IF s \in DOMAIN cache THEN cache[s] ELSE FromInstrument(row)
FindProduct(s, row) ==
  IF s \in DOMAIN cache THEN Update(cache[s], row) ELSE FromInstrument(row)

Clear(product) == [product EXCEPT !.dirty = {}, !.statistics = <<>>]

(* reference_data, market_status and statistics_update: what is told, each *)
(* if it is due.  0 stands for a value the product does not know.          *)
Known(product, f) == IF f \in DOMAIN product.kept THEN product.kept[f] ELSE 0
Reference(product) ==
  [f \in {"tick", "currency"} |-> IF f = "tick" THEN Known(product, "tick")
                                  ELSE IF product.currency THEN 1 ELSE 0]
Status(product) ==
  IF "state" \in product.dirty THEN Only("state", product.kept["state"]) ELSE <<>>
Statistics(product) ==
  IF product.statistics # <<>>
  THEN Only("price", product.statistics[Len(product.statistics)]) ELSE <<>>
News(product) == Over(Status(product), Statistics(product))

-------------------------------------------------------------------------------
(* Handlers.                                                               *)

Receive(table) == inbox # <<>> /\ Head(inbox).table = table /\ inbox' = Tail(inbox)
Quiet == trades' = <<>> /\ tape' = <<>>

Put(found) == Over(cache, found)
Tell(news) == [s \in Symbols |-> IF s \in DOMAIN news THEN Over(told[s], news[s]) ELSE told[s]]

(* The first PARTIAL tells the reference data of every symbol, and the     *)
(* rest of those that are not discarded; the others are not cleared.       *)
OnInstrumentPartial ==
  LET rows == Head(inbox).rows
      found == [s \in DOMAIN rows |-> FindProduct(s, rows[s])]
  IN
  /\ Receive("instrument") /\ Head(inbox).action = "PARTIAL" /\ ~partial
  /\ partial' = TRUE
  /\ cache' = Put([s \in DOMAIN rows |->
                     IF s \in Discarded THEN found[s] ELSE Clear(found[s])])
  /\ told' = Tell([s \in DOMAIN rows |->
                     IF s \in Discarded THEN Reference(found[s])
                     ELSE Over(Reference(found[s]), News(found[s]))])
  /\ Quiet /\ UNCHANGED <<exchange, budget>>

(* UPDATE updates a product twice, once when it is found, and tells what   *)
(* is marked.                                                              *)
\* mutant: discarded symbols come through
AllRows(rows) == rows
KeptRows(rows) == [s \in DOMAIN rows \ Discarded |-> rows[s]]
OnInstrumentUpdate ==
  LET rows == KeptRows(Head(inbox).rows)
      found == [s \in DOMAIN rows |-> Update(FindProduct(s, rows[s]), rows[s])]
  IN
  /\ Receive("instrument") /\ Head(inbox).action = "UPDATE" /\ partial
  /\ cache' = Put([s \in DOMAIN rows |-> Clear(found[s])])
  /\ told' = Tell([s \in DOMAIN rows |->
                     IF "tick" \in found[s].dirty
                     THEN Over(Reference(found[s]), News(found[s])) ELSE News(found[s])])
  /\ Quiet /\ UNCHANGED <<partial, exchange, budget>>

(* INSERT (with asserts compiled out), and UPDATE before the PARTIAL.      *)
OnInstrumentIgnored ==
  /\ Receive("instrument")
  /\ \/ Head(inbox).action = "INSERT"
     \/ Head(inbox).action = "UPDATE" /\ ~partial
  /\ Quiet /\ UNCHANGED <<products, exchange, budget>>

(* Funding creates what is missing; its update does nothing and says so,   *)
(* so that nothing is told.                                                *)
OnFunding ==
  /\ Receive("funding")
  /\ cache' = Over(Only(Head(inbox).symbol, FromFunding), cache)
  /\ Quiet /\ UNCHANGED <<partial, told, exchange, budget>>

-------------------------------------------------------------------------------
(* Trades.  The loop of the handler, unrolled: the rows since the symbol   *)
(* last changed are held, and dispatched, unless the symbol is discarded,  *)
(* when a row changes it or the message ends.  The time stamp is maximised *)
(* over each row before what is held is dispatched, and reset after: a     *)
(* summary has the time of the row that changes the symbol after it, and   *)
(* not of its first.                                                       *)

Opens(rows, i) == i = 1 \/ rows[i][1] # rows[i - 1][1]

\* mutant: shared_.trades is not cleared
NotCleared(rows, k) == 1..(k - 1)
Held(rows, k) == {i \in 1..(k - 1) : \A p \in (i + 1)..(k - 1) : ~Opens(rows, p)}

\* mutant: the latest row counts, whenever it was
Latest(rows, k) == LET i == IF k > Len(rows) THEN k - 1 ELSE k
                   IN IF i - 1 \in Held(rows, k) THEN rows[i][2] ELSE 0
MaxTime(rows, k) ==
  LET times == {0} \cup {rows[i][2] : i \in {j \in DOMAIN rows : j - 1 \in Held(rows, k)}}
  IN CHOOSE t \in times : \A u \in times : u <= t

(* The summaries, by the row at which they are dispatched.                 *)
Dispatches(rows) ==
  {k \in 2..(Len(rows) + 1) :
     (k > Len(rows) \/ Opens(rows, k)) /\ rows[k - 1][1] \notin Discarded}
Summaries(rows) ==
  [k \in Dispatches(rows) |->
     [symbol |-> rows[k - 1][1], trades |-> Held(rows, k), last |-> k > Len(rows),
      time |-> MaxTime(rows, k)]]

OnTrade ==
  /\ partial /\ inbox = <<>> /\ budget["trade"] > 0
  /\ \E n \in 1..Rows : \E rows \in [1..n -> Symbols \X Times] :
       trades' = rows /\ tape' = Summaries(rows)
  /\ budget' = [budget EXCEPT !["trade"] = @ - 1]
  /\ UNCHANGED <<products, exchange, inbox>>

-------------------------------------------------------------------------------
(* The exchange and the connection.                                        *)

Streams == stream # "off"
Send(table, action, rows) ==
  inbox' = IF Streams
           THEN Append(inbox, [table |-> table, action |-> action, rows |-> rows])
           ELSE inbox

Connect ==
  /\ stream = "off"
  /\ stream' = "pending"
  /\ Quiet /\ UNCHANGED <<products, inbox, listed, market, missed, late, budget>>

SendPartial ==
  /\ stream = "pending"
  /\ stream' = "on" /\ late' = {}
  /\ Send("instrument", "PARTIAL", [s \in listed |-> market[s]])
  /\ Quiet /\ UNCHANGED <<products, listed, market, missed, budget>>

(* The session is forgotten, the products are not.                         *)
Disconnect ==
  /\ Streams /\ budget["disconnect"] > 0
  /\ stream' = "off" /\ inbox' = <<>> /\ partial' = FALSE
  /\ budget' = [budget EXCEPT !["disconnect"] = @ - 1]
  /\ Quiet /\ UNCHANGED <<cache, told, listed, market, missed, late>>

Change(s, f) ==
  /\ s \in listed /\ budget["change"] > 0
  /\ market' = [market EXCEPT ![s][f] = @ + 1]
  /\ Send("instrument", "UPDATE", Only(s, Only(f, market'[s][f])))
  /\ budget' = [budget EXCEPT !["change"] = @ - 1]
  /\ Quiet /\ UNCHANGED <<products, stream, listed, missed, late>>

List(s) ==
  /\ s \notin listed /\ budget["list"] > 0
  /\ listed' = listed \cup {s}
  /\ Send("instrument", "INSERT", Only(s, market[s]))
  /\ missed' = IF stream = "on" THEN missed \cup {s} ELSE missed
  /\ late' = IF stream = "on" THEN late \cup {s} ELSE late
  /\ budget' = [budget EXCEPT !["list"] = @ - 1]
  /\ Quiet /\ UNCHANGED <<products, stream, market>>

(* Everything but instruments is asked for once the PARTIAL is handled.    *)
\* mutant: all at once
AskedAtOnce == Streams
AskedForOthers == partial
Funding(s) ==
  /\ AskedForOthers /\ s \in listed
  /\ \A i \in DOMAIN inbox : inbox[i].table # "funding"  \* bound: one at a time
  /\ inbox' = Append(inbox, [table |-> "funding", symbol |-> s])
  /\ Quiet /\ UNCHANGED <<products, exchange, budget>>

-------------------------------------------------------------------------------
Init ==
  /\ partial = FALSE /\ cache = <<>> /\ told = [s \in Symbols |-> <<>>]
  /\ trades = <<>> /\ tape = <<>>
  /\ stream = "off" /\ inbox = <<>>
  /\ listed = Listed /\ missed = {} /\ late = {}
  /\ market = [s \in Symbols |-> [f \in Fields |-> 1]]
  /\ budget = Budget

Next ==
  \/ OnInstrumentPartial \/ OnInstrumentUpdate \/ OnInstrumentIgnored \/ OnFunding
  \/ OnTrade
  \/ Connect \/ SendPartial \/ Disconnect
  \/ \E s \in Symbols : List(s) \/ Funding(s) \/ \E f \in Fields : Change(s, f)

Spec == Init /\ [][Next]_vars

-------------------------------------------------------------------------------
(* Once a session has its PARTIAL and everything is read, the users know   *)
(* the exchange's values of every symbol that is not discarded, changes    *)
(* made while the connection was down included.  Symbols listed since the  *)
(* PARTIAL are not promised: their INSERT is dropped.                      *)
ValuesCurrent ==
  stream = "on" /\ partial /\ inbox = <<>> =>
    \A s \in listed \ (Discarded \cup late) : \A f \in Fields :
      f \in DOMAIN told[s] /\ told[s][f] = market[s][f]

(* What a product keeps and what the users were told of it are the same    *)
(* after every handler: nothing is kept back, or told and not kept.  Only  *)
(* the reference data of a product an UPDATE creates is never told.        *)
ToldWhatIsKept ==
  \A s \in DOMAIN cache \ Discarded :
    LET kept == cache[s].kept IN
    /\ \A f \in DOMAIN told[s] \ {"currency"} : f \in DOMAIN kept /\ told[s][f] = kept[f]
    /\ DOMAIN kept \ DOMAIN told[s] \subseteq {"tick"}
    /\ DOMAIN kept \ DOMAIN told[s] # {} => s \in missed

(* Of a discarded symbol the users are told its reference data, and never  *)
(* a status or a statistic; it has a product all the same, and each        *)
(* session may leave one statistic in it that nobody clears.               *)
DiscardedKept ==
  /\ \A s \in Discarded : DOMAIN told[s] \subseteq {"tick", "currency"}
  /\ \A s \in DOMAIN cache :
       Len(cache[s].statistics) <=
         IF s \in Discarded THEN Budget["disconnect"] - budget["disconnect"] + 1 ELSE 0

(* A product that funding creates never learns its currencies.  Funding is *)
(* asked for after the PARTIAL, so that none of a symbol listed by then is *)
(* one.                                                                    *)
CurrencyTold ==
  \A s \in Symbols \ missed :
    "currency" \in DOMAIN told[s] => told[s]["currency"] = 1

(* Each trade of a symbol that is not discarded is dispatched just once,   *)
(* in a summary of its symbol and together with the trades of that symbol  *)
(* next to it, and no other is; what is called the last summary is.        *)
TradesOnce ==
  /\ \A i \in DOMAIN trades :
       LET of == {k \in DOMAIN tape : i \in tape[k].trades}
       IN /\ IF trades[i][1] \in Discarded THEN of = {}
             ELSE \E k \in of : of = {k} /\ tape[k].symbol = trades[i][1]
          /\ i > 1 /\ trades[i][1] = trades[i - 1][1] =>
               \A k \in DOMAIN tape : i - 1 \in tape[k].trades <=> k \in of
  /\ \A k, l \in DOMAIN tape : tape[k].last => l <= k

(* The time of a summary is not before any of its trades but the first,    *)
(* whose time is reset.                                                    *)
TimeCovers ==
  \A k \in DOMAIN tape : \A i \in tape[k].trades :
    i - 1 \in tape[k].trades => trades[i][2] <= tape[k].time

===============================================================================
