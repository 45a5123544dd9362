# TLA+ models of roq-bitmex

This directory is a verification development of the BitMEX gateway in
`src/src/roq/bitmex`. It holds TLA+ modules translated from the C++ source, TLC
configurations that check them on small instances, and proofs, checked by the
TLA+ proof system, that hold for every value of the constants. File names below
are relative to `src/src/roq/bitmex`; every definition's source lines are listed
in `PROJECT.json` under `map`.

## 1. The system

The gateway connects a trading system to BitMEX. It is one thread: an event loop
calls handlers on timers, on bytes from the exchange and on requests of the
users, and no handler is interrupted. What is hard is therefore not shared
memory but order: the messages of the exchange, the answers to requests, the
connection's comings and goings and the timers arrive in any interleaving, and
each handler must be right in whatever state the earlier ones have left.

### Components

**Controller** (`gateway/controller.cpp`). Owns the sessions. State: per account
a vector of order entry connections with a round-robin index. Operations: start,
stop and timer are passed to every session; a create, modify, cancel or
cancel-all goes to the next *ready* connection of its account, or throws
`NotReady`. Correct when no request goes to a connection that is not ready and
when a ready one is found if there is one. Hard: requests of one order go out on
different connections and may overtake each other.

**Market data session** (`gateway/market_data.cpp`). One public web-socket.
State: the connection status, `ready_`, a PARTIAL flag per topic, the state of
the download sequence, and the shared price cache and product cache. Operations:
the handlers of the connection (Ready, Disconnected), of Welcome, Subscribe,
Error, Instrument, Quote, OrderBookL2, Trade, Funding, Liquidation, Settlement,
the timer, and the resubscription after the dispatcher refused an update.
Correct when the book shown is the exchange's book, when READY is only reported
with everything downloaded, and when a session recovers from any loss. Hard: rows
before, between and after PARTIALs; a cache that outlives the session; one part
of a message failing.

**Price cache** (`gateway/price_cache.cpp`). A map from level id to price.
BitMEX names the levels of its L2 book by an id and sends the price only when a
level appears; the cache completes the later rows. Correct when a row is
published at the price of its level and at no other. Hard: entries that are
stale (the level went while the connection was down) or missing.

**Product** (`gateway/product.cpp`). Reference data, market status and
statistics of a symbol, with what marks each for publication. Created by an
instrument row or by funding, updated by every row, cleared when published.
Correct when what is kept and what the users were told agree after every
handler. Hard: two constructors that mark different things, an update that runs
twice for one row, products that outlive the session.

**Message parser** (`protocol/json/parser.cpp`). Chooses the handler of a
message by its table name, or by the shape of the message if it has none. A
message it does not know ends the process.

**Drop copy session** (`gateway/drop_copy.cpp`). One private web-socket for each
account, with `order`, `execution`, `margin` and `position`. State: `ready_`,
the PARTIAL flag of `order`, the download, and the time of the next
cancel-all-after. Correct when every order's state and fills reach the users
once and in order, and when the exchange's dead man's switch fires if the
gateway is gone and never while it is there. Hard: the heartbeat against the
timers, fills while the connection is down.

**Order update** (`gateway/order_update.cpp`, `gateway/utils.hpp`,
`protocol/json/map.cpp`). Translates a row of `order`, or the answer to a
request, to an order status and a response. Stateless.

**Order entry** (`gateway/order_entry.cpp`, `protocol/json/utils.cpp`). REST
connections: a request for each create, modify, cancel and cancel-all, and its
acknowledgement, error or timeout. Nothing is kept between the two but the
client's callback. Correct when every request has one final answer, when that
answer is true, and when the users end up with the exchange's status of each
order. Hard: the acknowledgement races the executions of the drop copy; a
request whose answer is lost may have been done, or be done later; an answer
that cannot be read; a reason that is guessed from a text.

**Configuration and flags, encoder, crypto, bridges**. Read once at start-up or
pure formatting; no state that changes.

### How they interact

Sessions never call each other. They meet in three places: `Shared` (price
cache, product cache, discarded symbols), the *dispatcher* of the server library
(another repository), which holds the books and orders shown to the users and may
throw back at a handler, and the exchange, which answers a request made on one
connection with messages on another.

`core::Download`, the web-socket client and the dispatcher are not in this
repository. They are modelled from how the code uses them and marked external:
the client calls Ready, Disconnected and Text in order and reconnects for ever
(`always_reconnect`), `Download` runs the handler of the state it enters and waits for
`check`, the dispatcher replaces a book on SNAPSHOT, sets levels on INCREMENTAL,
and may throw `BadState`.

## 2. Modules

| module | what it is |
|---|---|
| `PriceCache` | the price cache as operators on a function |
| `MarketData` | the market data session, its connection and the exchange; properties |
| `BookFeed` | abstract: what the session promises about books |
| `MCMarketData` | small instances for TLC |
| `MarketDataProofs` | type correctness for all constants |
| `BookProofs` | the inductive invariant and the book theorems; the refinement of `BookFeed`; discarded symbols |
| `OrderStatus` | the translations of an order's status and of an execution's type, as functions |
| `DropCopy` | the drop copy session, its connection, the exchange's orders and dead man's switch, and time; properties |
| `MCDropCopy` | small instances for TLC |
| `DropCopyProofs` | the two invariants of the dead man's switch and its theorems; what the users are told: types, fills, answers, the position, orders |
| `ErrorText` | the table of texts by which `guess_error` finds the reason of a refusal, and how it is searched |
| `OrderEntry` | the round robin of the controller, the connections of the order entry, the exchange's orders and the executions; properties |
| `MCOrderEntry` | small instances for TLC |
| `RequestProofs` | the round robin for any number of connections; the invariant of requests and answers: one final answer to each request |
| `ShownProofs` | the invariant of what the users are shown, and the types |
| `AnswerProofs` | a timeout is final; a request comes to its fate once; what an answer says is true, and the reason it gives is the reason there was |
| `OrderManagement` | the composition: the order entry with a drop copy that comes and goes; properties |
| `OrderLife` | abstract: what users are promised about the status of an order |
| `MCOrderManagement` | small instances for TLC |
| `ManagementProofs` | what is shown once the drop copy has told all it knows, and the refinement of `OrderLife` |
| `Products` | instruments, products and trades of the market data session; properties |
| `MCProducts` | a small instance for TLC |
| `ProductProofs` | the trade summaries of a message of any length; the invariant of products and what the users are told of them |

`MarketData` extends `PriceCache` and refines `BookFeed`; `DropCopy` and
`OrderEntry` extend `OrderStatus`, and `OrderEntry` extends `ErrorText`. The
sessions share no state that one changes for another, except the orders of the
exchange and of the dispatcher: `OrderEntry` therefore has, beside the requests,
the stream of executions, as the drop copy session passes them on while it is
READY. `OrderManagement` extends `OrderEntry` with the losses and the snapshots of
the drop copy, and refines `OrderLife`; how a session gets from a connection to
its snapshot is the subject of `DropCopy`. `Products` is the same session as `MarketData` with another part of
its state: `MarketData` says which symbols have a product, `Products` what is in
it.

### MarketData and the code

| variable | code |
|---|---|
| `status`, `ready`, `partial`, `download` | `connection_status_`, `ready_`, `partial_received_`, the state of `download_` |
| `cache` | `shared_.price_cache` |
| `products` | `shared_.product_cache`, existence only |
| `reference`, `mbp` | what the dispatcher has been given: ReferenceData, MarketByPriceUpdate |
| `alive` | the process; `log::fatal` ends it |
| `link`, `inbox`, `outbox` | the connection, the messages to the gateway and its requests, in order, both lost with the connection |
| `topics`, `listed`, `lob` | the exchange: subscriptions, symbols, L2 book |
| `at`, `synced`, `dropped` | history used by properties only |
| `budget` | how often the environment may still do each thing |

One action is one handler, from its entry to its return. `OnOrderBookL2` for
example groups the rows by symbol, passes each through the price cache,
publishes each group, resubscribes for every group refused, sets the PARTIAL
flag and releases the download, which reports READY, in one step as the code
does. `OnOrderBookL2Unpriced` is the same handler left in the middle, at a row
whose price is not known: some groups are published, some of the rows are in the
cache, the connection is closed (or, for a PARTIAL or INSERT row, the process
ends). `TransportReady`, `TransportLost` and `TransportClosed` are the
connection handlers. Quote, Trade, Liquidation and Settlement change no state
kept here and are left out.

Abstractions. A price stands for the pair of side and price. A row is a price (or
none) and a size. The rows of a message that belong to one symbol are adjacent,
as BitMEX sends them, so a message is a function from ids to rows and the order
of its groups only matters where the message is left in the middle, where every
order is allowed. A product is known or not; whether an instrument update makes
it dirty is a choice. The build is the default one, with `NDEBUG`: an `assert` does
nothing, and `AssertionsHold` states the conditions of those that matter.

Every message carries, as history no handler reads, the exchange's book after
it. `at` is the book of the last message received: what the gateway could know.
`synced` is the set of symbols shown a SNAPSHOT since the last subscription and
every row since. It shrinks on a disconnect, a refused group, rows the exchange
left out, and a message left in the middle, and those are the cases in which the
code itself shows a book it does not vouch for.

### DropCopy and the code

| variable | code |
|---|---|
| `status`, `ready`, `partial`, `download` | `connection_status_`, `ready_`, `partial_received_.order`, the state of `download_` |
| `due` | `next_cancel_all_after_`, as the time left until it |
| `shown`, `answers`, `reported`, `account` | what the dispatcher has been given: the order updates and responses, the trade updates, the position |
| `link`, `inbox`, `outbox` | the connection and what is on it; a request has an age |
| `pending`, `topics`, `orders`, `position` | the exchange: topics asked for, topics streaming, the orders and the position |
| `armed`, `fuse` | the exchange's dead man's switch (`cancelAllAfter`) and the time it has left |
| `idle` | time since the last timer |
| `readyFor`, `tape`, `unseen` | history used by properties only |

Again one action is one handler. `OnTimer` is the timer event: it winds the
switch when `ready_` and the time has come, and does nothing otherwise.
`OnWelcome` starts the download and stops a switch that is not used. `OnOrderPartial` is
the first PARTIAL of `order`, which publishes every row as a snapshot and gets
the session READY; every other order message is `OnOrderIgnored`, because the
code leaves changes to the executions. `OnExecution` publishes every row and
reports a fill for a TRADE. `OnPosition` splits a signed quantity. Margin and
the confirmations of the exchange only log. A refused topic is `TopicRefused`: the
session is told, logs it, and goes on.

The exchange serves requests in order. The topics of one subscription start one
by one, in the order asked for, each with its PARTIAL, and an order may change
between any two of them. An order changes by an execution (`Executes` says what
each type of execution does), which is streamed as an execution, an update of
the order and one of the position. When the switch fires, every open order is
cancelled by one such message.

Time is a count of ticks. A timer comes at most `Period` ticks after the last
one and a request is served at most `Delay` ticks after it was sent; within that
everything may be late. The code compares times only by difference, so that `due`,
`fuse`, `idle` and the ages of requests say all there is to say, and the state space is
finite. The two places where the code rounds are kept: the timeout is sent in
whole milliseconds, and the switch is wound again after a quarter of the
timeout *before* rounding.

### OrderEntry and the code

| variable | code |
|---|---|
| `index` | `OrderEntryRR::index_` of `gateway/controller.hpp` |
| `link` | `connection_status_` of each order entry connection |
| `calls` | the requests the HTTP client has yet to call back for, per connection, each with its response once the exchange has sent one |
| `orphans` | requests on the network whose callback has already come, with a timeout or a lost connection |
| `orders`, `stream` | the exchange: the orders, and the executions on their way |
| `shown` | the dispatcher: the newest update of each order |
| `journal` | the dispatcher: the requests for each target and the answers given to each |
| `served`, `overtook`, `fate` of an entry | history used by properties only |

`CreateOrder`, `ModifyOrder`, `CancelOrder` and `CancelAllOrders` are the
controller's handlers with `get_next` and the order entry's in one step: with no
connection ready the request fails at once with NotReady, otherwise it is sent
and `index` moves on. `HandleResponse` is the callback (`create_order_ack` and
its likes, with `process_response`): a success is translated row by row, a 4xx is
given the reason `GuessError` finds, a 5xx, an unreadable body and a network error
each have an answer of their own. `Timeout` and `Disconnected` are the
client's two ways to call back without a response. A cancel-all is answered twice:
FORWARDED when sent, and once more when served.

`RequestStatus` and `Error` are the values of the code, `Versions` bounds how
many requests are made for one order: a request is the entry of the journal of its
target at its version, and a modification names the version it replaces
(`origClOrdID`). A cancel names the order by the exchange's id, which the gateway
has only once an answer or an execution has brought it (`named`).

External, from how `order_entry.cpp` uses it: the HTTP client calls back exactly
once for each request, in the order of the requests of a connection, with a
timeout after `rest_request_timeout` and with an error if the connection is
lost. A request that is pipelined may have reached the exchange before the
callback of the one before (`Sent`). The dispatcher keeps the newest update of
an order by its update time, and an update without a status changes nothing. The
exchange refuses a request that reaches it after `expires`, a modification of an
order that ended or that is not at the version named, and a cancel that names
nothing; it answers a cancel of an order that ended with a row that has no
status. `orders` counts revisions where the code has the `timestamp` of a row. An
execution also carries a response, which the dispatcher matches with its request;
`AnswersTrue` of `DropCopy` is about those, and the journal has the answers over
REST only.

### OrderManagement and the code

| variable | code |
|---|---|
| those of `OrderEntry` | as above; `stream` is what one session of the drop copy is told |
| `copy` | the drop copy: "down", "listening" (the topic of executions has started), "told" (so has `order`, with its PARTIAL) |
| `past`, `unheard`, `losses` | history, and the bound on lost connections |

Two sessions tell the dispatcher of one order and neither waits for the other: the
controller sends requests whatever the state of the drop copy, and the
answers over REST are passed on as they come. `CopyLost` is the disconnect,
`CopyListens` and `CopyTold` the exchange's answer to `DropCopy::subscribe`, which asks for
executions before orders, `CopyHears` the handler of a row. The
snapshot has the open orders and any of those that have ended, in any
order. The rows of a message are handled one by one, which allows other events between
them; they are of different orders. Everything `OrderEntry` does goes on unchanged,
and `past` remembers the statuses an order has had.

### Products and the code

| variable | code |
|---|---|
| `partial` | `partial_received_.instrument` |
| `cache` | `product_cache_`: the fields kept, whether the currencies are known, what is marked (`dirty`) and the statistics not published yet |
| `told` | the dispatcher: reference data, market status and statistics as last published |
| `trades`, `tape` | the trade message handled last and the summaries it led to |
| `stream`, `inbox`, `listed`, `market` | the exchange: the subscription, its messages, the symbols and their values |
| `missed`, `late` | history used by properties only |

The fields of a product are three, one for each way of publishing: "tick" stands
for the reference data, "state" for the market status, "price" for the
statistics. `OnInstrumentPartial`, `OnInstrumentUpdate`, `OnInstrumentIgnored`,
`OnFunding` and `OnTrade` are the handlers. A row of an UPDATE updates its product twice,
once in `find_product` and once in the handler, as the code does. `Over` is
`utils::update`: what a row gives replaces what was there, and the rest stays. INSERT is
dropped: the code has an `assert(false)` there, which the default build leaves out. The loop
over the rows of a trade message is unrolled: `Held` is what `shared_.trades` holds when a row is
reached or the message ends, `Dispatches` says at which rows it is dispatched, and `Summaries`, a
function of that row, as what, so that the same trades dispatched twice are two summaries.

## 3. Properties and runs

### MarketData

Instances: symbol A with two level ids, B with one, three prices, quantities 1
and 2 (1 where quantities do not matter). `Budget` bounds the environment only: book changes, lost
rows, disconnects, refusals by the dispatcher (`reject`) and by the exchange (`refuse`),
listings, instrument updates, funding. The gateway has no bound. Two changes
with a disconnect suffice to insert a level, delete it and see its id again, or
to change it on both sides of a reconnect; two ids in A and one in B give
messages of one and two groups, with one and two rows.

| run | checks | shows |
|---|---|---|
| `books` | `TypeOK`, `Inductive`, `BookMirrored`, `ClosesOnlyAfterGap`, `FollowsFeed` | with changes and a disconnect anywhere, books of synced symbols are exactly the exchange's; without a gap the gateway never closes the connection; the session implements `BookFeed`; the invariant of the proofs |
| `session` | `ReferenceBeforeBook`, `AssertionsHold`, `ReadyIsComplete`, `BookCurrent`, `CacheCovers` | the download, with listings, instrument updates and funding in any order around it, a lost connection, and a group or a subscription that is refused: READY is complete, and a refusal does not harm the books still vouched for |
| `live` | `DiscardedHidden`, `EventuallyShown`, `GapHeals` | a lost row and a lost connection, with prices sent or left out: every session ends READY and, if no row was lost, shows the resting levels; lost rows that the price cache notices (an unknown id) close the connection, and the next session has the right books; discarded symbols are neither shown nor cached |
| `early_rows` | `DropsBeforePartial` (violated) | see findings |
| `resubscribe` | `ResubscriptionCompletes` (violated) | see findings |

`CHECK_DEADLOCK FALSE` everywhere: once the budget is spent and everything is
read the system is really at rest, and `log::fatal` really ends the process.

**Fairness** (`FairSpec` of `MarketData`) is weak fairness of four things: a connection that is
down is re-established (`always_reconnect`), a close the gateway asked for
completes, the event loop reads what has arrived, and the exchange answers a
request it has received. It is not assumed that the exchange accepts a
subscription (`refuse` has a budget instead, and none in the liveness runs: the gateway
never retries a refused subscription, see hazards), nor that the book changes.

### DropCopy

| run | checks | shows |
|---|---|---|
| `orders` | `TypeOK`, `OrdersCurrent`, `PositionCurrent`, `FillsExact`, `AnswersTrue`, `Disarmed` | an order that changes twice, from nothing or from an order left by an earlier run, around a lost connection and a refused topic, with the switch not in use: in READY, with everything read, an open order is shown as it is; each trade sent and not lost is reported once; no answer is invented; the position is right; the switch is stopped |
| `switch` | `Protected`, `SwitchWound`, `EventuallyTold` | the switch in use, with time: it never fires on a session READY for long enough; the invariant of the proof; every session gets READY for good and shows the open orders |
| `documented_status` | `DocumentedStatus` (violated) | see findings |

Bounds. One order of two lots is enough for a stop order that is triggered,
for a partial fill followed by a cancel (an execution that has traded
and is no trade), and for a change at each point of a download; the code treats
the rows of a message one by one and keeps nothing between them. The order is a
sale of two and the position an earlier run has left is 1 (`LeftPositions`), so that it is long, closed, and short,
and a single fill takes it across zero. In `switch` the timeout of 9 ticks is cut
to 7 by a millisecond of 7 ticks, a quarter is 2, timers and requests take up to
2 each: 7 is just more than 2 + 2 + 2, the least timeout that the condition
in `Protected` allows. Two disconnects let a session find the switch as the
last but one left it. In `orders` time is needed only for `Disarmed`; in
`documented_status` it stands still.

`Protected` says "READY for longer than it takes to wind it once" and not "READY"
because the code winds the switch on the first timer after READY: until that
request is served, a switch wound by the previous session may still fire. That
is what the code does, and no document of the repository promises more.
`OrdersCurrent` leaves out, by the history variable `unseen`, orders that ended
while nobody was told: whether a closed order is part of the next PARTIAL is
BitMEX's choice. It accepts either translation of a status (`Says`), since
snapshots and executions use different ones.

**Fairness** (`FairSpec` of `DropCopy`) is weak fairness of reconnecting, of the
handlers and of the exchange's answers, for the same reasons as above. Nothing
is assumed of timers, of the switch or of time.

### OrderEntry

| run | checks | shows |
|---|---|---|
| `requests` | `TypeOK`, `AnsweredOnce`, `AnswersMatch`, `ReasonTrue`, `TakenInTurn`, `NewestTold`, `TimeoutSettles` | three requests over two connections with pipelining, one of which is lost, times out, is refused or answered with rubbish at any point, while the order is filled and executions overtake the answers |
| `rate_limit` | `RateLimitTold` (violated) | see findings |

`AnsweredOnce`: one final answer to each request, none while the client has yet
to call back. `AnswersMatch`: what is ACCEPTED was done and is shown, what is
REJECTED for a known reason was not. `ReasonTrue`: the reason told is the reason there
was, whether it is found in the message of an error or in the `ordRejReason` of an order
entered as rejected. `TakenInTurn`: between two changes of the connections, each that is ready
gets the same number of requests, but for one. `NewestTold`: once all executions
have arrived, the users are shown the exchange's status of the order. `TimeoutSettles`: a
request that timed out undone is never done.

Bounds. One order and the target `all`, three requests in total: a create, a
modification that builds on it, and a cancel or a second modification that overtakes it
on the other connection. Two connections are the least that can overtake, pass the end of
the ring and be taken in turn. `rest_expires_timeout` is 1 second and
`rest_request_timeout` 30: only their order matters, as time is not
modelled. One trouble in all (a lost connection, a fault or a refusal); timeouts, fills and the
order in which everything arrives are not bounded. The orders of a user do not
depend on each other but for cancel-all and the connections they share, for which the theorems of
section 4 stand.

There is no fairness and no liveness here: the exchange need not answer, the
client's timeout is external, and the gateway has no timer of its own that it
would owe. That an answer comes is thus the client's promise, and `AnsweredOnce` says what
the gateway makes of it.

### OrderManagement

| run | checks | shows |
|---|---|---|
| `management` | `OpenShown`, `EndsShown`, `FollowsLife`, `EventuallyInformed` | up to three requests for an order, one of which is in trouble, and a drop copy that is lost twice at any point: once it has told all it knows, an open order is shown as it is, and so is one that has ended, unless nobody was told of its end; the composition implements `OrderLife`; in the end, an open order is seen as it is |

`FollowsLife` is the refinement: `OrderLife` promises that users see statuses the
order has had, in the order it had them, with gaps but never twice and never
back, and that an order that has ended stays so. What is behind it are two
channels out of step, one of which is cut and starts with a snapshot.

Bounds. Two losses are the least with a session between two others; three
requests allow a create, a modification and a cancel around them, or a
cancel-all. One connection is enough here: what a second one can do is the
subject of `requests`. With one order, a snapshot has at most one row; that more
of them do not matter is part of the theorems of section 4. The users' requests
are bounded, so that the order comes to rest.

**Fairness** (`ManagedFairSpec`) is weak fairness of three things: the connection
manager reconnects and the exchange starts the topic (`CopyListens`), the exchange
sends the snapshot it was asked for (`CopyTold`), and the event loop handles what has
arrived (`CopyHears`). It is not assumed that any request is answered or any
connection for requests comes back.

### Products

| run | checks | shows |
|---|---|---|
| `rows` | `TypeOK`, `ToldWhatIsKept`, `ValuesCurrent`, `DiscardedKept`, `CurrencyTold`, `TradesOnce`, `TimeCovers` | changes of instruments, a listing and funding around two lost connections, and trade messages of up to three rows |

Bounds. Three symbols: one listed, one listed and discarded, one listed later.
Two changes and two lost connections suffice to change a field on both sides of
a reconnect. Up to three trades give
messages of one to three groups, with a symbol that comes back after another. Two
time stamps are enough for `TimeCovers`, which compares two at a time.

### Findings

Comments, notes and documents of the repository that disagree with the code:

- `gateway/market_data.cpp:479` says that everything before the PARTIAL is
  dropped. When a group of a PARTIAL is refused, the flag is cleared and then
  set again at the end of the handler, so rows before the new PARTIAL are
  applied. (`early_rows`)
- `CHANGELOG.md:119` lists a missing resubscription as fixed. The resubscription
  unsubscribes first, and the parser ends the process on the confirmation of
  that. (`resubscribe`)
- `index.rst:399` and `:403` map Triggered to ACCEPTED and Untriggered to WORKING. The
  code maps an execution the other way round (`protocol/json/map.cpp:77` and
  `:79`), and a snapshot's Untriggered to UNDEFINED (`gateway/utils.hpp:95`).
  (`documented_status`)
- `CHANGELOG.md:145` says that the text "Rate limit exceeded, retry in 1 seconds." is parsed.
  The comparison of `protocol/json/utils.cpp:20` cuts the listed text, and not the
  message, to the shorter of the two, so that a message longer than its listed text equals none: the
  request is answered with UNKNOWN. (`rate_limit`)

Seen while modelling, with no document that says otherwise, and therefore no run:

- A cancel of an order that ended is answered with request status UNDEFINED:
  the row has no status (`gateway/utils.hpp:104`). `AnswersMatch` shows that it is not told as
  accepted.
- A 5xx is told as REJECTED with error UNKNOWN, although the request may have
  been done; users must not conclude anything from it, and `AnswersMatch` does not.
- A modification that overtakes the request it builds on, on another connection,
  is told TOO_LATE_TO_MODIFY_OR_CANCEL (`overtook` in `ReasonTrue`).
- A symbol that is listed in the middle of a session is published without its
  reference data until the next session (`missed` in `ToldWhatIsKept`, `dropped` in
  `ReferenceBeforeBook`, which the next PARTIAL clears).
- The time of a trade summary does not cover the first trade of its group, and a
  summary of a single trade at the end of a message has none (`TimeCovers`).
- `gateway/price_cache.cpp:37` has a comment about an id that "exists as a different
  price"; the code keeps the old price. BitMEX documents that an id keeps its price, and the theorems
  about books assume it (`StableQuotes`).

## 4. Proofs

### Books

`MarketDataProofs` proves `TypeCorrect` and what is in the next section. `BookProofs` proves `Truthful`,
`Mirrored`, `Covered` and `Current`, for all symbols, ids, prices, sizes and
budgets, under the assumptions declared with the constants and one more,
`StableQuotes`: an id keeps its price and two ids of a symbol never share one.

The argument. `BookMirrored` (the book shown is the one told of) is not
inductive: to see that a delta keeps it, one needs that the delta tells the truth
about the exchange (`TellsTrue`, a statement about every message on the wire and
its predecessor), that the row is published at the right price (`CacheCovers`), that the
PARTIAL flag is set whenever something is synced (`SyncedKept`), and that what
the cache holds for ids that are *not* resting is not wrong either, since a level
may come back (`CacheSound`: every entry is a price of its id). The
conjunction of these is `Inductive`. One lemma for each kind of step shows that it
is kept: `OrderBookKeeps` is the heart, with `CacheStaysSound` and `ShownNext`
for the two tables; `UnpricedKeeps` is the message left in the middle;
`ChangeKeeps` shows that what the exchange sends describes its change.
`Current` follows because with an empty inbox the last book told of is the
exchange's own.

`FeedFollowed` (`Spec => FollowsFeed`) is the refinement of `BookFeed`, under the
same assumption. The feed is the inbox, each message mapped to the books after it (`Wire`);
the position is `at`, what is live is `synced` and what is shown is `mbp`. A handled message is a
`Take`: that it shows the right books is `BookMirrored` of the next state, so that the
refinement needs the inductive invariant and little more. What the exchange sends is a
`Start`, a `Repeat` or a `Change`, according to `TellsTrue`, and a lost connection is a `Break`.
The little more is `Silent`: a connection that is down has nothing left to read, or a
reconnect would go on with an old feed.

`DiscardedStayHidden` (`Spec => []DiscardedHidden`) needs the types only: both
handlers of book rows touch no more than the rows kept (`ProcessHides`).

### The session of the market data

`InSession` is the order of a session: Welcome, one subscription of the instruments, their one
PARTIAL (`InstrumentsAsked`), and before that nothing at all about order books, on the wire, in the
flags or in the state of the download (`BooksWait`). It needs the types only, and
gives two results for every value of the constants.
`AssertionsNeverFail` (`Spec => []AssertionsHold`): the two `assert()`s a release build leaves
out never fail. `IntroducedFirst` (`Spec => []ReferenceBeforeBook`) adds `Introduced`:
every row on the wire is of a symbol that has its reference data, was dropped and not seen in a PARTIAL since,
or is announced by a message before it. It is kept because the exchange lists a symbol before
it quotes it and says so on the same connection, and because a handler gives an
announced symbol its reference data or drops it; `ReadingIntroduced` and
`SendingIntroduced` are the two halves.

`OnlyGapsClose` (`Spec => []ClosesOnlyAfterGap`) and `ReadyAfterBoth`
(`Spec => []ReadyIsComplete`), in `BookProofs` and again under `StableQuotes`, are about sessions in
which no row is left out. `CacheCovers` does not do for them: it speaks of synced symbols, and a symbol
without a level at the PARTIAL is not one. `Displays` says it of every level told of. What could
spoil it is a second subscription, since the exchange's book moves on between the two;
`OneOpening` says that there is none in the life of a process: the second is asked
for after an unsubscription, and the confirmation of that ends the process (the finding
above). `Accounted` ties rows left out and groups refused to the budgets. A message is then cut short only
if a row was left out (`UnpricedGap`), and `CarriedLevel` is the part of
`CarriedBook` that holds of a symbol whose book had no snapshot.

### The dead man's switch

`DropCopyProofs` proves `SwitchProtects` (`Spec => []Protected`) and
`SwitchUnused` (`Spec => []Disarmed`) for every timeout, millisecond, timer
period, delay and budget, from the assumptions declared with the constants only.

`Protected` is not inductive: whether the switch holds depends on the requests
on the wire and on when the next one will be sent. `SwitchWound` adds that. A READY session is
always in one of four situations: nothing has been sent yet and a timer is due
(`Unsent`); the first winding is on the wire (`FirstUnderWay`); the last one has arrived,
and what is left of the timeout covers the time until the next is sent
(`LastArrived`); or the next one is on the wire, and what is left covers its
delay (`NextUnderWay`). In the first two `readyFor` is bounded by `Period + Delay`; in the
other two `fuse` is positive because the timeout exceeds a quarter, a period and
a delay together (`FuseLeft`). One lemma for each action that touches a clock or
the wire (`WelcomeKeeps`, `TimerKeeps`, `ServeKeeps`, `TickKeeps`, ...) shows how it
moves between the four; `WireKeeps` and `QuietKeeps` are for the rest. That the
disconnect resets `next_cancel_all_after_` is used in `LostKeeps`, and is what the
mutant of that run removes. `Winds` (`Spec => []SwitchWound`, for a switch in use and `InTime`)
states that invariant as a result of its own. `SwitchStopped` is the same argument for a switch that is not used: from
Welcome on, it is stopped or the request to stop it is on the wire (`StopIsAsked`, for a
switch that is not used).

### What the drop copy tells

The rest of `DropCopyProofs` is about what is told, for any set of orders, any quantity and
any budget of disconnects, refusals and changes. `DropCopyTypes` (`Spec => []TypeOK`) needs
`Typed`: the rows of messages under way have a status and a trade is of something
(`Known`), and times do not exceed those they are counted from (`Timely`). `Streamed`, `Started` and
`Reading` say, once for all theorems, what an execution and the start of a topic add to
the wire and what a handler takes off it; `Executing` makes a lawful execution of what happens
to orders, the switch's included.

- `FillsOnce` (`Spec => []FillsExact`) adds `Sold`: the trades on their way are on the tape,
  no two messages have the same, and none is beyond what the order has traded, so that
  the next trade of an order is new.
- `AnswersStayTrue` (`Spec => []AnswersTrue`): also answers on their way are true (`Honest`),
  and no lawful execution makes a true one false (`StaysTrue`), so that it does not
  matter how late they are read.
- `PositionFollows` (`Spec => []PositionCurrent`): once the topic is streamed, the last position
  spoken of, on the wire or shown, is the exchange's (`Spoken`).
- `OrdersFollow` (`Spec => []OrdersCurrent`) has two parts. `Asked` is the protocol of a
  session: Welcome, one subscription, the topics one by one in the order asked for, and so at
  most one PARTIAL of orders, after the executions have started. `Followed` then says of each
  order that the last execution on its way is true of it (`LastTrue`), that the PARTIAL is
  unless an execution follows it (`SnapshotTrue`) and leaves no open order out
  (`NoneLeftOut`), and that with neither under way what is shown is (`EndTrue`,
  `OpenTrue`). That executions are asked for before orders is used where the
  topic of executions starts (`StartingFollows`): no PARTIAL may be on its way yet. The
  mutant `OrderFirst` of the run swaps the two, and breaks just this.

### Requests

All of these hold for any number of orders, connections, requests and troubles.

`RoundRobin` (`Spec => []TakenInTurn`). The invariant `Turns` measures the
distance of each connection from `index`, around the ring: the nearer a ready
connection is, the fewer requests it had, and no two differ by more than one. The
connection that is taken is the nearest and becomes the farthest, and the others come
nearer by the same (`ServingTurns`), so that the order is kept; a
connection that comes or goes starts the count anew.

`OneFinalAnswer` (`Spec => []AnsweredOnce`). The invariant `Answering` adds to
`AnsweredOnce` that every call is of a request that was made and none waits
twice (`WaitsOnce`), and that a response which is a success has a row where the code
takes one (`Answers`, inside `WireType`). A step then either adds an entry that
waits, or rewrites entries without changing their answers, or takes calls
off and gives each of their requests one more answer (`Given`); `GivenAnswers` is the
one lemma all callbacks share, and `ReactionSound` what is needed of the
exchange.

`NewestShown` (`Spec => []NewestTold`) rests on `Showing`: every row on its
way to the users is true, or out of date; what is shown is true, or out of
date and the execution that makes it so is under way. Both channels
pass on the update time, and an update that is older than what is shown is
ignored, so what is shown only goes forward (`ShownForward`). The same module has
`EntryTypeCorrect`.

`TimeoutIsFinal` (`Spec => TimeoutSettles`) assumes that `RequestTimeout` is at
least `ExpiresAfter`, the expiry rounded up as `compute_expires` does. The invariant `Orphaned` says that
nobody waits for an orphan and that it did not time out; a request that timed out
is thus neither waited for nor an orphan, and only those come to their fate
(`Settling`). With a shorter request timeout the property is false, and the
mutant of the run is of that kind.

`AnswersAreTrue` (`Spec => []AnswersMatch`) and `ReasonsAreTrue` (`Spec => []ReasonTrue`) share
one invariant: `Turns`, `Answering`, `Showing`, `Once` and, new with them, `Truth`.
Neither property is inductive, for an answer is made by the exchange in one step and
read in a later one, when the order may be another; and `shown` moves on after
that. `Truth` says what a response means while it waits (`ResponseTrue`) and what
the answer made of it means from then on (`AnswerTrue`), in terms that no step can
undo. So ACCEPTED for a cancel is not "the order is cancelled" but "it is, and the
row has a revision not below the last" (`Accepted`), and what is shown is not below that;
and "too late" is not "the order is not at the version named" but one of three things that
stay (`TooLate`): it has ended, the request overtook the one it builds on, or the one it
builds on has had its fate, so that no order will come to that version any more. `Steady` is what
makes them stay, and is shown of every step: fates are settled once, an order that
has ended is as it was, and an order that moves takes its version from a request that was
open, which is where `Once` is needed. `ReplyTrue` is the callback,
`ReactionTrue` the exchange, `LostTrue`, `ForwardTrue` and `ElsewhereTrue` are the rest.

The exchange's texts meet the table of `guess_error` in a few lemmas: an entry is the one
found if all others that begin with the same two words have its error (`GuessTwo`, and
`Guesses` for the refusals of the model); a text that no entry begins with has none,
and neither has one that is longer than the entry it begins with (`Unlisted`), which is the finding
about rate limits.

### The composition

`OpenAreShown` and `EndsAreShown` (`ManagedSpec => []OpenShown`, `=> []EndsShown`)
hold for any number of orders, connections, requests, troubles and losses. The invariant
`Managed` reuses those of the order entry: `Entered` is `Turns`, `Answering` and
`Showing`, none of which needs every execution to arrive. What a lost
connection breaks is only that nothing is missing. An order is `Missing` if what is
shown is out of date and the row that would change that is not on its way, and `Explained`
says why this can be: an open order is missing only until the snapshot, an
order that has ended only if its end was lost. Without losses none is
missing (`NoneMissing`), which is how `NewestShown` follows; a step of the order entry makes
none missing (`MissesNothing`, part of every lemma of `ShownProofs`), so that
only the three steps of the drop copy had to be looked at here (`LosingExplained`,
`TellingExplained`).

`LifeFollowed` (`ManagedSpec => FollowsLife`) is the refinement: `OrderLife`'s
`past` is the one kept here, and its `view` is what is shown. It needs two things.
An order may only go on as `After` allows, however a request comes to change it;
for that a request comes to its fate once, and the first for an order is the one that
creates it (`Once`), and every reaction of the exchange is `Legal`, so that a step moves each
order at most once and lawfully (`Lawful`). And a row must be
of a time the order really had: `Recorded` ties `orders` to the last entry of
`past`, and `Remembered` says of every row under way, of every response and of
everything shown that `past` has that status at that revision (`Was`). Each step is then
shown to change orders and show nothing (`ChangeStep`), or to change nothing and show
only what it took from such a row (`Learns`, `LearnStep`); that a row is not older than
what is shown is the update time's doing. The lemmas are named for the handlers they
follow (`ReactMoves`, `ServeMoves`, `HandleMoves`, `HearMoves`, ...). That a PARTIAL
is cut short or an execution lost plays no role: what is left out is a gap.

### Trades

`EveryTradeOnce` (`Spec => []TradesOnce`) is about the grouping loop, for a
message of any length: a trade is held until the first row of another symbol or the end
(`HeldUntil`), the rows up to there are of its symbol (`OneSymbol`), it is held at no other
dispatch (`HeldOnce`), and its neighbours of the same symbol are held with it
(`HeldTogether`). `HeldUntil` and `OneSymbol` take a least element, in place of an
induction. `EveryTradeInTime` (`Spec => []TimeCovers`) adds the time: there is a greatest
among the times of any rows of a message (`GreatestTime`), and the rows `MaxTime` is taken
from are all that are held but the first (`MaxTimeCovers`, `Timed`).

### Products

These hold for any symbols, any of them discarded, and any number of changes, listings
and lost connections. `Inv` has five parts. `Typed` and `Bounded` are the types, with the market's
values tied to the changes made. `InSession` is the order of a session: one PARTIAL, of
the symbols listed by then; funding only after it; nothing waits on a connection that is down.
`Informed` relates what products keep to what was told, `ToldWhatIsKept` made inductive:
the agreement holds of every kept symbol (`Faithful`), nothing stays marked after a
handler (`Cleared`), or it would be told later than kept, and who has no product was told nothing
(`Introduced`), so that the first row may start from there. `Withheld` counts the
statistics of discarded symbols by sessions. `Following` is about the messages
under way: the last of them that carries a field has the market's value, and if
none does, the users know it.

The handlers of rows come down to `Telling`: if a product with nothing marked takes a row, what
is told of it afterwards agrees with what it keeps, however the row splits into
reference data, status and statistics; `Digestion` and `Handled` carry that to a
message. That an UPDATE applies each row twice makes no difference (`UpdatedTwice`): the
second time no field differs, and the marks are added to, not assigned. The
mutant `Assign` breaks this step. `ReadLast` and `GetLast` are what reading and
sending do to the last word on a field, `ReadSession` and `GetSession` what they do to
the session. `ProductsTyped`, `NothingKeptBack`, `ValuesKnown`, `DiscardedWithheld` and
`CurrencyKnown` are the properties of the run `rows`.

### Model-checked only

The liveness properties (`GapHeals`, `EventuallyShown`, `EventuallyTold`
and `EventuallyInformed`), which the prover does not do. Every safety property of
a passing run, invariant or step, is stated by a theorem.

## 5. Not modelled, and what is left

Not modelled in `MarketData` and `Products`: quotes, which are passed on as they
are, liquidations and settlements, which only log, trace and metrics, and which
fields of a product there are; the `log::fatal` on a level whose side is neither of the two
(`gateway/market_data.cpp:530`); and that the price cache keeps a price alone while the side is
taken from the row: the model keeps both as one value, which differs only for an id that
changes sides, and `StableQuotes` excludes it. In `DropCopy`: margin, confirmations, FUNDING executions, prices, and the
ids by which the dispatcher finds an order. In `OrderEntry`: time (any request
may be late), the length of a rate limit, the fields of a request other than
those by which the exchange finds its order, latency and metrics; answers with no row or with
several (`test/json_cancel_order_ack.cpp` has one, as a request names one order); and the branch for
`server::oms::Exception` (`gateway/order_entry.cpp:560`), which nothing in the repository throws inside
the handlers of an answer. Of the controller: what is passed to every
session as it is, and mass quotes, which are not supported. Of the repository:
configuration, flags, crypto, URL building and the two bridges, which hold no
state that changes.

Six hazards in `PROJECT.json` have no property, each with its reason. Four are
losses the code does not notice and no document promises to handle: a refused subscription, a
book that ends while the connection is down, a refused execution
topic, a position that is older than READY. Two are outside the model: which request the
dispatcher takes the row of a snapshot for the answer to, and an answer with no row or several.
Some hazards are covered but for a case their property leaves out by name: a listing dropped
until the next PARTIAL, an end nobody was told of, a timeout of the switch below a millisecond, a
modification that overtakes, a cancel of an order without an id.

What is left, in the order of its worth:

1. A refinement: that `DropCopy` implements what `OrderManagement` keeps of it,
   executions first and then one snapshot, instead of the lemmas `Asked` and
   `Followed`, which say the same of each module by itself.
2. Theorems: `StableQuotes` is assumed of the books as a whole; how much of it each
   of the book theorems needs is open.
