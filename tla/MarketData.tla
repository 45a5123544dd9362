------------------------------ MODULE MarketData ------------------------------
(***************************************************************************)
(* gateway/market_data.cpp: the public web-socket session of the gateway.  *)
(*                                                                         *)
(* The gateway is one thread: every handler below is one action.  Around   *)
(* it run the connection (up, being closed, down), the exchange, and the   *)
(* dispatcher of the server library, which shows the books and may refuse  *)
(* an update by throwing BadState.  Messages travel in order on inbox and  *)
(* requests on outbox; both are lost with the connection.                  *)
(*                                                                         *)
(* Quote, trade, liquidation and settlement messages pass through without  *)
(* touching the state kept here and are left out.  The build is the one    *)
(* with NDEBUG: an assert() does nothing, and AssertionsHold says that the *)
(* conditions it names are never met.                                      *)
(***************************************************************************)
EXTENDS PriceCache, Sequences, FiniteSets

CONSTANTS Symbols,
          Discarded,  \* symbols the configuration filters out
          SymbolOf,   \* the symbol a level id belongs to
          Quotes,     \* the prices the exchange may give to an id
          Sizes,      \* quantities of a level
          Priced,     \* whether UPDATE and DELETE rows carry the price
          Unlisted,   \* symbols not listed when the gateway starts
          MaxRows,    \* bound: rows changed by one order book message
          Budget      \* bound: how often the environment may do each thing

Events == {"disconnect", "refuse", "change", "lose", "reject", "list",
           "instrument", "funding"}

ASSUME SymbolsAssumption == /\ Discarded \subseteq Symbols
                            /\ Unlisted \subseteq Symbols
                            /\ SymbolOf \in [Ids -> Symbols]
                            /\ IsFiniteSet(Symbols)
ASSUME QuotesAssumption == Quotes \in [Ids -> SUBSET Prices]
ASSUME SizesAssumption == Sizes \subseteq Nat \ {0}
ASSUME BoundsAssumption == /\ Priced \subseteq BOOLEAN
                           /\ MaxRows \in Nat
                           /\ Budget \in [Events -> Nat]

(* How BitMEX documents its ids: a level keeps its price for life, and two *)
(* ids of a symbol never share one.                                        *)
StableQuotes ==
  \A i, j \in Ids : \A p \in Quotes[i], q \in Quotes[j] :
    SymbolOf[i] = SymbolOf[j] => (i = j <=> p = q)

VARIABLES
  alive,       \* FALSE once log::fatal has ended the process
  status,      \* connection_status_
  ready,       \* ready_
  partial,     \* partial_received_
  download,    \* download_: the state it waits in
  cache,       \* shared_.price_cache
  products,    \* the symbols of product_cache_
  reference,   \* dispatcher: symbols with a published ReferenceData
  mbp,         \* dispatcher: the published book of each symbol
  link,        \* the connection: "down", "up" or "closing"
  inbox,       \* messages from the exchange to the gateway
  outbox,      \* requests from the gateway to the exchange
  topics,      \* exchange: what it streams on this connection
  listed,      \* exchange: listed symbols
  lob,         \* exchange: the L2 book, a row per id
  at,          \* history: the exchange's book the gateway has been told of
  synced,      \* history: symbols shown a snapshot and every row since, on
               \* the current subscription
  dropped,     \* history: symbols whose listing message was ignored and that
               \* no PARTIAL has had since
  budget       \* what is left of Budget

gateway == <<status, ready, partial, download>>
books == <<cache, mbp, at, synced>>
instruments == <<products, reference, dropped>>
wire == <<link, inbox, outbox, topics>>
exchange == <<listed, lob>>
vars == <<alive, gateway, books, instruments, wire, exchange, budget>>

-------------------------------------------------------------------------------
(* Books and messages.                                                     *)

Row == [price : Prices \cup {NoPrice}, size : Sizes \cup {0}]
NoRow == [price |-> NoPrice, size |-> 0]
Book == [Ids -> Row]

RestsIn(book, i) == book[i] # NoRow

(* Books the exchange can show: levels at a price of their id, no two ids  *)
(* of a symbol at one price; and, at a time, of listed symbols only.       *)
QuotedBook ==
  {book \in Book :
     /\ \A i \in Ids : RestsIn(book, i) =>
          book[i].price \in Quotes[i] /\ book[i].size \in Sizes
     /\ \A i, j \in Ids :
          /\ RestsIn(book, i) /\ RestsIn(book, j)
          /\ SymbolOf[i] = SymbolOf[j] /\ book[i].price = book[j].price
          => i = j}

ListedIn(book) == \A i \in Ids : RestsIn(book, i) => SymbolOf[i] \in listed

(* A symbol's book by price, as MarketByPrice shows it; 0 is no level.     *)
Depth == [Prices -> Sizes \cup {0}]
EmptyDepth == [p \in Prices |-> 0]
LevelAt(book, s, p) == {i \in Ids : SymbolOf[i] = s /\ book[i].price = p}
ByPrice(book, s) ==
  [p \in Prices |-> IF LevelAt(book, s, p) = {} THEN 0
                    ELSE book[CHOOSE i \in LevelAt(book, s, p) : TRUE].size]

(* Every message carries history that no handler reads: the exchange's     *)
(* book the stream has told of once it is received (after), and, for an    *)
(* order book message, the symbols whose rows the exchange left out (lost). *)
Topics == {"instrument", "orderBookL2"}
Rows == UNION {[D -> Row] : D \in SUBSET Ids}
Message ==
       [type : {"welcome", "error", "unsubscribe"}, after : Book]
  \cup [type : {"subscribe"}, topic : Topics, after : Book]
  \cup [type : {"instrument"}, action : Actions, items : SUBSET Symbols,
        after : Book]
  \cup [type : {"funding"}, items : SUBSET Symbols, after : Book]
  \cup [type : {"orderBookL2"}, action : Actions, rows : Rows,
        lost : SUBSET Symbols, after : Book]

Told == IF inbox = <<>> THEN at ELSE inbox[Len(inbox)].after

Plain(type) == [type |-> type, after |-> Told]
Instrument(action, items) ==
  [type |-> "instrument", action |-> action, items |-> items, after |-> Told]
OrderBookL2(action, rows, lost, next) ==
  [type |-> "orderBookL2", action |-> action, rows |-> rows, lost |-> lost,
   after |-> next]

Request == [op : {"subscribe", "unsubscribe"}, topic : Topics]
Subscribe(topic) == <<[op |-> "subscribe", topic |-> topic]>>

TypeOK ==
  /\ alive \in BOOLEAN /\ ready \in BOOLEAN
  /\ status \in {"DISCONNECTED", "LOGIN_SENT", "DOWNLOADING", "READY"}
  /\ partial \in [Topics -> BOOLEAN]
  /\ download \in {"UNDEFINED", "INSTRUMENT", "ORDER_BOOK_L2", "DONE"}
  /\ cache \in PriceLookup
  /\ mbp \in [Symbols -> Depth]
  /\ products \subseteq Symbols /\ reference \subseteq Symbols
  /\ link \in {"down", "up", "closing"}
  /\ inbox \in Seq(Message) /\ outbox \in Seq(Request)
  /\ topics \in [Topics -> {"off", "pending", "on"}]
  /\ listed \subseteq Symbols
  /\ lob \in Book /\ at \in Book
  /\ synced \subseteq Symbols /\ dropped \subseteq Symbols
  /\ budget \in [Events -> Nat]

-------------------------------------------------------------------------------
Init ==
  /\ alive = TRUE
  /\ status = "DISCONNECTED" /\ ready = FALSE
  /\ partial = [t \in Topics |-> FALSE]
  /\ download = "UNDEFINED"
  /\ cache = EmptyLookup
  /\ mbp = [s \in Symbols |-> EmptyDepth]
  /\ products = {} /\ reference = {} /\ dropped = {}
  /\ link = "down" /\ inbox = <<>> /\ outbox = <<>>
  /\ topics = [t \in Topics |-> "off"]
  /\ listed = Symbols \ Unlisted
  /\ lob \in QuotedBook /\ ListedIn(lob)
  /\ at = lob /\ synced = {}
  /\ budget = Budget

Spend(event) ==
  /\ budget[event] > 0
  /\ budget' = [budget EXCEPT ![event] = @ - 1]

-------------------------------------------------------------------------------
(* Connection events.                                                      *)

(* Ready: the web-socket is up and the exchange greets it.  Connected does *)
(* nothing.                                                                *)
TransportReady ==
  /\ link = "down"
  /\ link' = "up"
  /\ status' = "LOGIN_SENT"
  /\ inbox' = <<[type |-> "welcome", after |-> at]>>
  /\ UNCHANGED <<ready, partial, download, outbox, topics>>
  /\ UNCHANGED <<alive, books, instruments, exchange, budget>>

(* The Disconnected handler: the session is forgotten, the price cache,    *)
(* the products and the published books are not.                           *)
KeptFlags == partial \* mutant: the flags are not reset
ClearedFlags == [t \in Topics |-> FALSE]

Disconnected ==
  /\ link' = "down"
  /\ inbox' = <<>> /\ outbox' = <<>>
  /\ topics' = [t \in Topics |-> "off"]
  /\ status' = "DISCONNECTED" /\ ready' = FALSE
  /\ partial' = ClearedFlags
  /\ download' = "UNDEFINED"
  /\ synced' = {}
  /\ UNCHANGED <<alive, cache, mbp, at, instruments, exchange>>

TransportLost == link = "up" /\ Spend("disconnect") /\ Disconnected

TransportClosed == link = "closing" /\ Disconnected /\ UNCHANGED budget

-------------------------------------------------------------------------------
(* The download sequence: download(State) run by core::Download.           *)

(* Entering a state runs its handler: ask for the topic and wait, or, with *)
(* nothing left to ask for, report READY.                                  *)
NoDownload(requests) ==
  /\ outbox' = outbox \o requests
  /\ UNCHANGED <<download, status, ready>>

DownloadDone(requests) ==
  /\ download' = "DONE" /\ status' = "READY" /\ ready' = TRUE
  /\ outbox' = outbox \o requests

DownloadOrderBookL2(requests) ==
  /\ download' = "ORDER_BOOK_L2" /\ status' = "DOWNLOADING"
  /\ outbox' = outbox \o requests \o Subscribe("orderBookL2")
  /\ UNCHANGED ready

DownloadInstrument(requests) ==
  /\ download' = "INSTRUMENT" /\ status' = "DOWNLOADING"
  /\ outbox' = outbox \o requests \o Subscribe("instrument")
  /\ UNCHANGED ready

-------------------------------------------------------------------------------
(* Messages.  Bytes already received may still be parsed while a close is  *)
(* under way.                                                              *)

Receive(type) ==
  /\ link \in {"up", "closing"}
  /\ inbox # <<>> /\ Head(inbox).type = type
  /\ inbox' = Tail(inbox)

OnWelcome ==
  /\ Receive("welcome")
  /\ DownloadInstrument(<<>>)
  /\ at' = Head(inbox).after
  /\ UNCHANGED <<alive, partial, cache, mbp, synced, instruments>>
  /\ UNCHANGED <<link, topics, exchange, budget>>

(* The parser hands a subscribe confirmation and any error to the same     *)
(* handler, which only logs.                                               *)
OnSubscribe ==
  /\ Receive("subscribe")
  /\ at' = Head(inbox).after
  /\ synced' = IF Head(inbox).topic = "orderBookL2" THEN {} ELSE synced
  /\ UNCHANGED <<alive, gateway, cache, mbp, instruments>>
  /\ UNCHANGED <<link, outbox, topics, exchange, budget>>

OnError ==
  /\ Receive("error")
  /\ at' = Head(inbox).after
  /\ UNCHANGED <<alive, gateway, cache, mbp, synced, instruments>>
  /\ UNCHANGED <<link, outbox, topics, exchange, budget>>

(* The parser knows no unsubscribe confirmation: it has no table, and      *)
(* log::fatal ends the process.                                            *)
OnUnsubscribe ==
  /\ Receive("unsubscribe")
  /\ alive' = FALSE
  /\ at' = Head(inbox).after
  /\ UNCHANGED <<gateway, cache, mbp, synced, instruments>>
  /\ UNCHANGED <<link, outbox, topics, exchange, budget>>

(* The first PARTIAL creates or updates every product, publishes its       *)
(* reference data (discarded or not) and releases the download.            *)
OnInstrumentPartial ==
  LET m == Head(inbox) IN
  /\ Receive("instrument")
  /\ m.action = "PARTIAL" /\ ~partial["instrument"]
  /\ partial' = [partial EXCEPT !["instrument"] = TRUE]
  /\ products' = products \cup m.items
  /\ reference' = reference \cup m.items
  /\ dropped' = dropped \ m.items
  /\ IF download = "INSTRUMENT" THEN DownloadOrderBookL2(<<>>)
                                ELSE NoDownload(<<>>)
  /\ at' = m.after
  /\ UNCHANGED <<alive, cache, mbp, synced>>
  /\ UNCHANGED <<link, topics, exchange, budget>>

(* UPDATE: a product of the cache may turn out dirty and be published      *)
(* again; one created here is not dirty, since its constructor has already *)
(* taken the values of the message.                                        *)
OnInstrumentUpdate ==
  LET m == Head(inbox)
      items == m.items \ Discarded
  IN
  /\ Receive("instrument")
  /\ m.action = "UPDATE" /\ partial["instrument"]
  /\ \E dirty \in SUBSET (items \cap products) :
       reference' = reference \cup dirty
  /\ products' = products \cup items
  /\ at' = m.after
  /\ UNCHANGED <<alive, gateway, cache, mbp, synced, dropped>>
  /\ UNCHANGED <<link, outbox, topics, exchange, budget>>

(* Everything else is ignored: UPDATE before PARTIAL, DELETE, and, with    *)
(* asserts compiled out, a second PARTIAL and any INSERT.                  *)
OnInstrumentIgnored ==
  LET m == Head(inbox) IN
  /\ Receive("instrument")
  /\ m.action = "PARTIAL" => partial["instrument"]
  /\ m.action = "UPDATE" => ~partial["instrument"]
  /\ dropped' = IF m.action = "INSERT" THEN dropped \cup m.items ELSE dropped
  /\ at' = m.after
  /\ UNCHANGED <<alive, gateway, cache, mbp, synced, products, reference>>
  /\ UNCHANGED <<link, outbox, topics, exchange, budget>>

(* Funding creates missing products, without reference data, and publishes *)
(* nothing: Product::update(FundingDataItem) returns false.                *)
OnFunding ==
  /\ Receive("funding")
  /\ products' = products \cup Head(inbox).items
  /\ at' = Head(inbox).after
  /\ UNCHANGED <<alive, gateway, cache, mbp, synced, reference, dropped>>
  /\ UNCHANGED <<link, outbox, topics, exchange, budget>>

-------------------------------------------------------------------------------
(* Order book messages.                                                    *)

KeptAll(m) == DOMAIN m.rows \* mutant: discarded symbols come through
Kept(m) == {i \in DOMAIN m.rows : SymbolOf[i] \notin Discarded}
Named(ids) == {SymbolOf[i] : i \in ids}

PriceOf(m, i) == Resolved(cache, m.action, i, m.rows[i].price)
Unpriced(m) == {i \in Kept(m) : PriceOf(m, i) = NoPrice}

RowsAt(m, s, p) == {i \in Kept(m) : SymbolOf[i] = s /\ PriceOf(m, i) = p}

(* Mutants: a SNAPSHOT laid over the levels already there, quantities      *)
(* added to what was there.                                                *)
PublishedOver(m, s) ==
  [p \in Prices |->
     IF RowsAt(m, s, p) # {}
     THEN m.rows[CHOOSE i \in RowsAt(m, s, p) : TRUE].size
     ELSE mbp[s][p]]
PublishedOnTop(m, s) ==
  [p \in Prices |->
     IF RowsAt(m, s, p) # {}
     THEN m.rows[CHOOSE i \in RowsAt(m, s, p) : TRUE].size + mbp[s][p]
     ELSE IF m.action = "PARTIAL" THEN 0 ELSE mbp[s][p]]

(* A published group: a SNAPSHOT replaces the symbol's book, an            *)
(* INCREMENTAL sets the levels it names.                                   *)
Published(m, s) ==
  [p \in Prices |->
     IF RowsAt(m, s, p) # {}
     THEN m.rows[CHOOSE i \in RowsAt(m, s, p) : TRUE].size
     ELSE IF m.action = "PARTIAL" THEN 0 ELSE mbp[s][p]]

(* resubscribe_order_book_l2, once per group the dispatcher refuses.       *)
Resubscribe(rejected) ==
  [n \in 1..2 * Cardinality(rejected) |->
     [op |-> IF n % 2 = 1 THEN "unsubscribe" ELSE "subscribe",
      topic |-> "orderBookL2"]]

(* Mutant: one refusal keeps every group of the message from the users.    *)
ProcessAllOrNothing(m, rows, groups, rejected) ==
  /\ cache' = [i \in Ids |->
                 IF i \in rows
                 THEN Remembered(cache, m.action, i, m.rows[i].price)
                 ELSE cache[i]]
  /\ mbp' = [s \in Symbols |->
               IF s \in groups /\ rejected = {} THEN Published(m, s)
                                               ELSE mbp[s]]
  /\ Cardinality(rejected) <= budget["reject"]
  /\ budget' = [budget EXCEPT !["reject"] = @ - Cardinality(rejected)]

(* The rows go through the price cache, and each symbol's group to the     *)
(* dispatcher, which refuses the rejected ones.                            *)
Process(m, rows, groups, rejected) ==
  /\ cache' = [i \in Ids |->
                 IF i \in rows
                 THEN Remembered(cache, m.action, i, m.rows[i].price)
                 ELSE cache[i]]
  /\ mbp' = [s \in Symbols |->
               IF s \in groups \ rejected THEN Published(m, s) ELSE mbp[s]]
  /\ Cardinality(rejected) <= budget["reject"]
  /\ budget' = [budget EXCEPT !["reject"] = @ - Cardinality(rejected)]

(* Rows received before the PARTIAL are dropped.                           *)
OnOrderBookL2Early ==
  LET m == Head(inbox) IN
  /\ Receive("orderBookL2")
  /\ m.action # "PARTIAL" /\ ~partial["orderBookL2"]
  /\ at' = m.after
  /\ UNCHANGED <<alive, gateway, cache, mbp, synced, instruments>>
  /\ UNCHANGED <<link, outbox, topics, exchange, budget>>

(* A refused group clears the flag and resubscribes; then a PARTIAL, refused *)
(* or not, sets the flag and releases the download.                        *)
OnOrderBookL2 ==
  LET m == Head(inbox)
      snapshot == m.action = "PARTIAL"
      groups == Named(Kept(m))
  IN
  /\ Receive("orderBookL2")
  /\ snapshot \/ partial["orderBookL2"]
  /\ Unpriced(m) = {}
  /\ \E rejected \in SUBSET groups :
       /\ Process(m, Kept(m), groups, rejected)
       /\ partial' = [partial EXCEPT !["orderBookL2"] = snapshot \/ rejected = {}]
       /\ IF snapshot /\ download = "ORDER_BOOK_L2"
          THEN DownloadDone(Resubscribe(rejected))
          ELSE NoDownload(Resubscribe(rejected))
       /\ synced' = IF snapshot THEN groups \ rejected
                    ELSE IF rejected = {} THEN synced \ m.lost ELSE {}
  /\ at' = m.after
  /\ UNCHANGED <<alive, instruments, link, topics, exchange>>

(* The first unpriced row, i, ends the message: the rows before it have    *)
(* been through the cache (those of whole groups and some of its own), and *)
(* the groups before its own have been published.                          *)
StopAt(m, i, groups, own, rejected) ==
  /\ SymbolOf[i] \notin groups
  /\ \A j \in Unpriced(m) : SymbolOf[j] \notin groups
  /\ \A j \in own : j \notin Unpriced(m) /\ SymbolOf[j] = SymbolOf[i]
  /\ Process(m, own \cup {j \in Kept(m) : SymbolOf[j] \in groups},
             groups, rejected)
  /\ partial' = [partial EXCEPT !["orderBookL2"] = @ /\ rejected = {}]
  /\ NoDownload(Resubscribe(rejected))
  /\ synced' = IF rejected = {}
               THEN synced \ (m.lost \cup (Named(Kept(m)) \ groups))
               ELSE {}

(* The connection is closed; a PARTIAL or INSERT row without a price is    *)
(* log::fatal.                                                             *)
OnOrderBookL2Unpriced ==
  LET m == Head(inbox) IN
  /\ Receive("orderBookL2")
  /\ m.action = "PARTIAL" \/ partial["orderBookL2"]
  /\ \E i \in Unpriced(m), groups \in SUBSET Named(Kept(m)),
        own \in SUBSET Kept(m) :
       \E rejected \in SUBSET groups : StopAt(m, i, groups, own, rejected)
  /\ IF m.action \in {"PARTIAL", "INSERT"}
     THEN alive' = FALSE /\ UNCHANGED link
     ELSE link' = "closing" /\ UNCHANGED alive
  /\ at' = m.after
  /\ UNCHANGED <<instruments, topics, exchange>>

-------------------------------------------------------------------------------
(* The exchange.                                                           *)

Send(messages) == link = "up" /\ inbox' = inbox \o messages

Serve(op) == link = "up" /\ outbox # <<>> /\ Head(outbox).op = op
             /\ outbox' = Tail(outbox)

ExchangeSubscribes ==
  /\ Serve("subscribe")
  /\ Send(<<[type |-> "subscribe", topic |-> Head(outbox).topic,
             after |-> IF Head(outbox).topic = "orderBookL2" THEN lob
                                                             ELSE Told]>>)
  /\ topics' = [topics EXCEPT ![Head(outbox).topic] = "pending"]
  /\ UNCHANGED <<alive, gateway, books, instruments, link, exchange, budget>>

ExchangeRefuses ==
  /\ Serve("subscribe")
  /\ Spend("refuse")
  /\ Send(<<Plain("error")>>)
  /\ UNCHANGED <<alive, gateway, books, instruments, link, topics, exchange>>

ExchangeUnsubscribes ==
  /\ Serve("unsubscribe")
  /\ Send(<<Plain("unsubscribe")>>)
  /\ topics' = [topics EXCEPT ![Head(outbox).topic] = "off"]
  /\ UNCHANGED <<alive, gateway, books, instruments, link, exchange, budget>>

InstrumentPartial ==
  /\ topics["instrument"] = "pending"
  /\ topics' = [topics EXCEPT !["instrument"] = "on"]
  /\ Send(<<Instrument("PARTIAL", listed)>>)
  /\ UNCHANGED <<alive, gateway, books, instruments, link, outbox, exchange>>
  /\ UNCHANGED budget

Snapshot == [i \in {j \in Ids : RestsIn(lob, j)} |-> lob[i]]

OrderBookL2Partial ==
  /\ topics["orderBookL2"] = "pending"
  /\ topics' = [topics EXCEPT !["orderBookL2"] = "on"]
  /\ Send(<<OrderBookL2("PARTIAL", Snapshot, {}, lob)>>)
  /\ UNCHANGED <<alive, gateway, books, instruments, link, outbox, exchange>>
  /\ UNCHANGED budget

(* Updates may be sent between a subscription and its PARTIAL.             *)
Tell(topic, message) ==
  IF link = "up" /\ topics[topic] # "off"
  THEN inbox' = Append(inbox, message)
  ELSE UNCHANGED inbox

(* One change of the book: levels appear, change size or disappear.        *)
Changed(book) == {i \in Ids : book[i] # lob[i]}
Does(action, book) ==
  \A i \in Changed(book) :
    /\ action = "INSERT" => ~RestsIn(lob, i)
    /\ action = "DELETE" => ~RestsIn(book, i)
    /\ action = "UPDATE" => /\ RestsIn(lob, i) /\ RestsIn(book, i)
                            /\ lob[i].price = book[i].price

(* A change on the wire: the price is left out unless the row is INSERTed, *)
(* or the exchange sends prices with every row.                            *)
WireRow(action, priced, book, i) ==
  [price |-> IF action = "INSERT" THEN book[i].price
             ELSE IF priced THEN lob[i].price ELSE NoPrice,
   size |-> book[i].size]
Delta(action, priced, book) ==
  [i \in Changed(book) |-> WireRow(action, priced, book, i)]

BookChanges ==
  /\ Spend("change")
  /\ \E book \in QuotedBook, action \in {"INSERT", "UPDATE", "DELETE"},
        priced \in Priced :
       /\ book # lob /\ ListedIn(book) /\ Does(action, book)
       /\ Cardinality(Changed(book)) <= MaxRows
       /\ lob' = book
       /\ Tell("orderBookL2",
               OrderBookL2(action, Delta(action, priced, book), {}, book))
  /\ UNCHANGED <<alive, gateway, books, instruments, link, outbox, topics>>
  /\ UNCHANGED listed

(* The same with the rows missing from the stream.                         *)
BookChangesUnseen ==
  /\ Spend("lose")
  /\ link = "up" /\ topics["orderBookL2"] # "off"
  /\ \E book \in QuotedBook, action \in {"INSERT", "UPDATE", "DELETE"} :
       /\ book # lob /\ ListedIn(book) /\ Does(action, book)
       /\ Cardinality(Changed(book)) <= MaxRows
       /\ lob' = book
       /\ Tell("orderBookL2",
               OrderBookL2(action, [i \in {} |-> NoRow],
                           Named(Changed(book)), book))
  /\ UNCHANGED <<alive, gateway, books, instruments, link, outbox, topics>>
  /\ UNCHANGED listed

SymbolListed ==
  /\ Spend("list")
  /\ \E s \in Symbols \ listed :
       /\ listed' = listed \cup {s}
       /\ Tell("instrument", Instrument("INSERT", {s}))
  /\ UNCHANGED <<alive, gateway, books, instruments, link, outbox, topics, lob>>

InstrumentChanges ==
  /\ Spend("instrument")
  /\ \E items \in SUBSET listed :
       /\ items # {}
       /\ Tell("instrument", Instrument("UPDATE", items))
  /\ UNCHANGED <<alive, gateway, books, instruments, link, outbox, topics>>
  /\ UNCHANGED exchange

FundingPublished ==
  /\ Spend("funding")
  /\ \E s \in listed :
       Tell("orderBookL2",
            [type |-> "funding", items |-> {s}, after |-> Told])
  /\ UNCHANGED <<alive, gateway, books, instruments, link, outbox, topics>>
  /\ UNCHANGED exchange

-------------------------------------------------------------------------------
Handle == \/ OnWelcome \/ OnSubscribe \/ OnError \/ OnUnsubscribe
          \/ OnInstrumentPartial \/ OnInstrumentUpdate \/ OnInstrumentIgnored
          \/ OnFunding
          \/ OnOrderBookL2Early \/ OnOrderBookL2 \/ OnOrderBookL2Unpriced

Answer == \/ ExchangeSubscribes \/ ExchangeUnsubscribes
          \/ InstrumentPartial \/ OrderBookL2Partial

Next == alive /\ ( \/ TransportReady \/ TransportLost \/ TransportClosed
                   \/ Handle \/ Answer \/ ExchangeRefuses
                   \/ BookChanges \/ BookChangesUnseen
                   \/ SymbolListed \/ InstrumentChanges \/ FundingPublished )

(* The connection manager reconnects and finishes a close, the event loop  *)
(* parses what has arrived, and the exchange answers what it was asked.    *)
Fairness == /\ WF_vars(alive /\ TransportReady)
            /\ WF_vars(alive /\ TransportClosed)
            /\ WF_vars(alive /\ Handle)
            /\ WF_vars(alive /\ Answer)

Spec == Init /\ [][Next]_vars
FairSpec == Spec /\ Fairness

-------------------------------------------------------------------------------
(* Properties.                                                             *)

(* A symbol shown a snapshot since the subscription has exactly the book   *)
(* the exchange had when it sent the last message received: no level at a  *)
(* wrong price, missing, or left behind (the grouping, the price cache and *)
(* the PARTIAL flag of market_data.cpp:470-550 together).                  *)
BookMirrored == \A s \in synced : mbp[s] = ByPrice(at, s)

(* The price cache knows every resting level of such a symbol at its right *)
(* price, so that no later row is published at another price or closes the *)
(* connection (price_cache.cpp:17-62; the cache survives reconnects).      *)
CacheCovers ==
  \A i \in Ids : SymbolOf[i] \in synced /\ RestsIn(at, i)
                 => cache[i] = at[i].price

(* With every message read and the stream on, the book shown is the        *)
(* exchange's book.                                                        *)
BookCurrent ==
  link = "up" /\ topics["orderBookL2"] = "on" /\ inbox = <<>>
  => \A s \in synced : mbp[s] = ByPrice(lob, s)

(* The gateway closes the connection over an unknown price only when the   *)
(* stream has had a gap (market_data.cpp:533-538).                         *)
ClosesOnlyAfterGap == link = "closing" => budget["lose"] < Budget["lose"]

(* READY is reported once both PARTIALs have arrived, and every kept       *)
(* symbol that rests at the exchange as far as the gateway has heard has   *)
(* been shown one (the download sequence, market_data.cpp:258-283).  A     *)
(* refused group takes back the second, and the gateway stays READY; a row *)
(* left out may be a symbol's first.                                       *)
ReadyIsComplete ==
  ready =>
    /\ partial["instrument"]
    /\ budget["reject"] = Budget["reject"] /\ budget["lose"] = Budget["lose"] =>
         /\ partial["orderBookL2"]
         /\ \A i \in Ids : RestsIn(at, i) /\ SymbolOf[i] \notin Discarded
                           => ~(mbp[SymbolOf[i]] = EmptyDepth)

(* A book is published only for a symbol whose reference data has been,    *)
(* unless its listing arrived as an INSERT and was ignored                 *)
(* (market_data.cpp:403-405), until the next PARTIAL makes up for it.      *)
ReferenceBeforeBook ==
  \A s \in Symbols \ (reference \cup dropped) : mbp[s] = EmptyDepth

(* The conditions of assert(false) at market_data.cpp:374 and of           *)
(* assert(!ready_) at market_data.cpp:277 are never met.                   *)
AssertionsHold ==
  /\ \A n \in DOMAIN inbox :
       inbox[n].type = "instrument" /\ inbox[n].action = "PARTIAL"
       => ~partial["instrument"]
  /\ download = "ORDER_BOOK_L2" => ~ready

(* Discarded symbols never show a book and never enter the price cache.    *)
DiscardedHidden ==
  \A i \in Ids : SymbolOf[i] \in Discarded =>
    cache[i] = NoPrice /\ mbp[SymbolOf[i]] = EmptyDepth

(* Why the books are right.  The messages on inbox lead from the book the  *)
(* gateway has been told of to the exchange's own: a PARTIAL holds every   *)
(* resting level, an incremental message every change of a symbol whose    *)
(* rows were not left out, and nothing else tells of a change.             *)
IsSnapshot(m) ==
  /\ DOMAIN m.rows = {i \in Ids : RestsIn(m.after, i)}
  /\ \A i \in DOMAIN m.rows : m.rows[i] = m.after[i]

Inserts(m, i, prev) == /\ ~RestsIn(prev, i) /\ RestsIn(m.after, i)
                       /\ m.rows[i] = m.after[i]
Updates(m, i, prev) == /\ RestsIn(prev, i) /\ RestsIn(m.after, i)
                       /\ prev[i].price = m.after[i].price
                       /\ m.rows[i].price \in {NoPrice, prev[i].price}
                       /\ m.rows[i].size = m.after[i].size
Deletes(m, i, prev) == /\ RestsIn(prev, i) /\ ~RestsIn(m.after, i)
                       /\ m.rows[i].price \in {NoPrice, prev[i].price}
                       /\ m.rows[i].size = 0

Describes(m, prev) ==
  /\ m.action \in {"INSERT", "UPDATE", "DELETE"}
  /\ \A i \in DOMAIN m.rows :
       /\ m.action = "INSERT" => Inserts(m, i, prev)
       /\ m.action = "UPDATE" => Updates(m, i, prev)
       /\ m.action = "DELETE" => Deletes(m, i, prev)
  /\ \A i \in Ids : prev[i] # m.after[i]
                     => i \in DOMAIN m.rows \/ SymbolOf[i] \in m.lost

Follows(m, prev) ==
  IF m.type = "orderBookL2"
  THEN IF m.action = "PARTIAL" THEN IsSnapshot(m) ELSE Describes(m, prev)
  ELSE \/ m.after = prev
       \/ m.type = "subscribe" /\ m.topic = "orderBookL2"

TellsTrue ==
  /\ at \in QuotedBook /\ lob \in QuotedBook
  /\ \A n \in 1..Len(inbox) :
       /\ inbox[n].after \in QuotedBook
       /\ Follows(inbox[n], IF n = 1 THEN at ELSE inbox[n - 1].after)
  /\ link = "up" /\ topics["orderBookL2"] # "off" => Told = lob
  /\ link = "down" => topics["orderBookL2"] = "off"

CacheSound == \A i \in Ids : cache[i] \in Quotes[i] \cup {NoPrice}
SyncedKept == /\ synced \cap Discarded = {}
              /\ synced # {} => partial["orderBookL2"]

Inductive == TypeOK /\ TellsTrue /\ CacheSound /\ SyncedKept
             /\ CacheCovers /\ BookMirrored

(* Once a resubscription has been requested, everything is dropped until   *)
(* its PARTIAL (the note at market_data.cpp:477-479).                      *)
DropsBeforePartial ==
  [][inbox # <<>> /\ inbox' = Tail(inbox) /\ Head(inbox).type = "orderBookL2"
     /\ Head(inbox).action # "PARTIAL"
     /\ (\E n \in DOMAIN outbox : outbox[n].op = "unsubscribe")
     => mbp' = mbp]_vars

(* A resubscription leads to a new PARTIAL (CHANGELOG 0.7.8: it is         *)
(* implemented).                                                           *)
ResubscriptionCompletes ==
  ready /\ ~partial["orderBookL2"] ~> partial["orderBookL2"]

Resting == {SymbolOf[i] : i \in {j \in Ids : RestsIn(lob, j)}} \ Discarded

(* Once the environment has done what it does, a session is READY for good *)
(* and, unless rows were lost, every resting level of the exchange is      *)
(* shown as it is.  (Levels of a symbol that had none left when the        *)
(* PARTIAL was sent stay behind: no SNAPSHOT is published for it.)         *)
EventuallyShown ==
  <>[](ready /\ (budget["lose"] = Budget["lose"] =>
               \A s \in Resting, p \in Prices :
                 ByPrice(lob, s)[p] # 0 => mbp[s][p] = ByPrice(lob, s)[p]))

(* A close over an unknown price heals the gap: a new session gets READY   *)
(* with the books of the exchange.                                         *)
GapHeals == link = "closing" ~> (ready /\ \A s \in Resting : mbp[s] = ByPrice(lob, s))

(* The session implements BookFeed: what is on inbox is the feed, and      *)
(* synced are the live symbols.                                            *)
AllByPrice(book) == [s \in Symbols |-> ByPrice(book, s)]
Feed == INSTANCE BookFeed WITH
          Views <- [Symbols -> Depth],
          source <- AllByPrice(lob),
          feed <- [n \in DOMAIN inbox |-> AllByPrice(inbox[n].after)],
          position <- AllByPrice(at),
          live <- synced,
          shown <- mbp
FollowsFeed == Feed!Spec

===============================================================================
