--------------------------- MODULE MarketDataProofs ---------------------------
(***************************************************************************)
(* Theorems about MarketData, for every value of its constants: types, and *)
(* the order in which a session asks for and is told things.               *)
(***************************************************************************)
EXTENDS MarketData, FiniteSetTheorems, SequenceTheorems, TLAPS

-------------------------------------------------------------------------------
(* Types of the operators the handlers are built from.                     *)

LEMMA MessageAfter == \A m \in Message : m.after \in Book
BY DEF Message

LEMMA ToldType == TypeOK => Told \in Book
<1> SUFFICES ASSUME TypeOK, inbox # <<>> PROVE inbox[Len(inbox)].after \in Book
  BY DEF Told, TypeOK
<1>1. inbox \in Seq(Message)
  BY DEF TypeOK
<1>2. Len(inbox) \in 1..Len(inbox)
  BY <1>1
<1> QED
  BY <1>1, <1>2, MessageAfter

LEMMA NoRowType == NoRow \in Row
BY DEF NoRow, Row

LEMMA HeadTail ==
  ASSUME TypeOK, NEW type, Receive(type)
  PROVE  /\ Head(inbox) \in Message /\ Head(inbox).type = type
         /\ inbox' \in Seq(Message) /\ inbox' = Tail(inbox)
         /\ Head(inbox).after \in Book
<1>1. inbox \in Seq(Message) /\ inbox # <<>>
  BY DEF TypeOK, Receive
<1>2. Head(inbox) \in Message /\ Tail(inbox) \in Seq(Message)
  BY <1>1
<1> QED
  BY <1>2, MessageAfter DEF Receive

(* What a message of each type carries.                                    *)
LEMMA MessageFields ==
  ASSUME NEW m \in Message
  PROVE  /\ m.type = "instrument" => m.items \subseteq Symbols
         /\ m.type = "funding" => m.items \subseteq Symbols
         /\ m.type = "orderBookL2" =>
              /\ m.action \in Actions
              /\ m.rows \in Rows
              /\ m.lost \subseteq Symbols
BY DEF Message

LEMMA RowsFields ==
  ASSUME NEW rows \in Rows
  PROVE  /\ DOMAIN rows \subseteq Ids
         /\ \A i \in DOMAIN rows : rows[i] \in Row
BY DEF Rows

LEMMA RowFields ==
  ASSUME NEW row \in Row
  PROVE  /\ row.price \in Prices \cup {NoPrice}
         /\ row.size \in Sizes \cup {0}
BY DEF Row

LEMMA PublishedType ==
  ASSUME TypeOK, NEW m \in Message, m.type = "orderBookL2", NEW s \in Symbols
  PROVE  Published(m, s) \in Depth
<1>1. mbp[s] \in Depth
  BY DEF TypeOK
<1> SUFFICES ASSUME NEW p \in Prices
             PROVE  Published(m, s)[p] \in Sizes \cup {0}
  BY DEF Published, Depth
<1>2. CASE RowsAt(m, s, p) # {}
  <2> DEFINE c == CHOOSE i \in RowsAt(m, s, p) : TRUE
  <2>1. c \in RowsAt(m, s, p)
    BY <1>2
  <2>2. c \in DOMAIN m.rows
    BY <2>1 DEF RowsAt, Kept
  <2>3. m.rows[c].size \in Sizes \cup {0}
    BY <2>2, MessageFields, RowsFields, RowFields
  <2> QED
    BY <1>2, <2>3 DEF Published
<1>3. CASE RowsAt(m, s, p) = {}
  BY <1>1, <1>3 DEF Published, Depth
<1> QED
  BY <1>2, <1>3

LEMMA RememberedType ==
  ASSUME TypeOK, NEW m \in Message, m.type = "orderBookL2",
         NEW i \in DOMAIN m.rows
  PROVE  Remembered(cache, m.action, i, m.rows[i].price)
           \in Prices \cup {NoPrice}
<1>1. i \in Ids /\ m.rows[i].price \in Prices \cup {NoPrice}
  BY MessageFields, RowsFields, RowFields
<1>2. cache[i] \in Prices \cup {NoPrice}
  BY <1>1 DEF TypeOK, PriceLookup
<1> QED
  BY <1>1, <1>2 DEF Remembered

LEMMA KeptNamed ==
  ASSUME NEW m \in Message, m.type = "orderBookL2"
  PROVE  /\ Kept(m) \subseteq Ids /\ Kept(m) \subseteq DOMAIN m.rows
         /\ Named(Kept(m)) \subseteq Symbols
         /\ Named(Kept(m)) \cap Discarded = {}
<1>1. DOMAIN m.rows \subseteq Ids
  BY MessageFields, RowsFields
<1> QED
  BY <1>1, SymbolsAssumption DEF Kept, Named

LEMMA ResubscribeType ==
  ASSUME NEW rejected \in SUBSET Symbols
  PROVE  /\ Cardinality(rejected) \in Nat
         /\ Resubscribe(rejected) \in Seq(Request)
<1>1. IsFiniteSet(rejected)
  BY SymbolsAssumption, FS_Subset
<1>2. Cardinality(rejected) \in Nat
  BY <1>1, FS_CardinalityType
<1>3. 2 * Cardinality(rejected) \in Nat
  BY <1>2
<1>4. \A n \in 1..2 * Cardinality(rejected) :
        [op |-> IF n % 2 = 1 THEN "unsubscribe" ELSE "subscribe",
         topic |-> "orderBookL2"] \in Request
  BY DEF Request, Topics
<1> QED
  BY <1>2, <1>3, <1>4, IsASeq DEF Resubscribe

LEMMA ProcessType ==
  ASSUME TypeOK, NEW m \in Message, m.type = "orderBookL2",
         NEW rows \in SUBSET DOMAIN m.rows, NEW groups \in SUBSET Symbols,
         NEW rejected \in SUBSET groups, Process(m, rows, groups, rejected)
  PROVE  /\ cache' \in PriceLookup
         /\ mbp' \in [Symbols -> Depth]
         /\ budget' \in [Events -> Nat]
<1>1. cache' \in PriceLookup
  <2> SUFFICES ASSUME NEW i \in Ids
               PROVE  (IF i \in rows
                       THEN Remembered(cache, m.action, i, m.rows[i].price)
                       ELSE cache[i]) \in Prices \cup {NoPrice}
    BY DEF Process, PriceLookup
  <2>1. cache[i] \in Prices \cup {NoPrice}
    BY DEF TypeOK, PriceLookup
  <2> QED
    BY <2>1, RememberedType
<1>2. mbp' \in [Symbols -> Depth]
  <2> SUFFICES ASSUME NEW s \in Symbols
               PROVE  (IF s \in groups \ rejected THEN Published(m, s)
                       ELSE mbp[s]) \in Depth
    BY DEF Process
  <2>1. mbp[s] \in Depth
    BY DEF TypeOK
  <2> QED
    BY <2>1, PublishedType
<1>3. budget' \in [Events -> Nat]
  <2>1. Cardinality(rejected) \in Nat
    BY ResubscribeType
  <2>2. budget \in [Events -> Nat] /\ "reject" \in Events
    BY DEF TypeOK, Events
  <2>3. budget["reject"] - Cardinality(rejected) \in Nat
    BY <2>1, <2>2 DEF Process
  <2> QED
    BY <2>2, <2>3 DEF Process
<1> QED
  BY <1>1, <1>2, <1>3

-------------------------------------------------------------------------------
(* Type correctness, action by action.                                     *)

LEMMA MessageTypes ==
  ASSUME TypeOK
  PROVE  /\ \A type \in {"welcome", "error", "unsubscribe"} :
              Plain(type) \in Message
         /\ \A action \in Actions, items \in SUBSET Symbols :
              Instrument(action, items) \in Message
         /\ \A items \in SUBSET Symbols :
              [type |-> "funding", items |-> items, after |-> Told] \in Message
         /\ \A topic \in Topics, book \in Book :
              [type |-> "subscribe", topic |-> topic, after |-> book]
                \in Message
         /\ \A action \in Actions, rows \in Rows, lost \in SUBSET Symbols,
               next \in Book : OrderBookL2(action, rows, lost, next) \in Message
BY ToldType DEF Plain, Instrument, OrderBookL2, Message

LEMMA SpendType ==
  ASSUME TypeOK, NEW event \in Events, Spend(event)
  PROVE  budget' \in [Events -> Nat]
<1>1. budget \in [Events -> Nat] /\ budget[event] - 1 \in Nat
  BY DEF TypeOK, Spend
<1> QED
  BY <1>1 DEF Spend

LEMMA EmptySequences == <<>> \in Seq(Message) /\ <<>> \in Seq(Request)
OBVIOUS

LEMMA ConnectionType ==
  ASSUME TypeOK, TransportReady \/ TransportLost \/ TransportClosed
  PROVE  TypeOK'
<1>1. CASE TransportReady
  <2>1. [type |-> "welcome", after |-> at] \in Message
    BY DEF TypeOK, Message
  <2>2. inbox' \in Seq(Message)
    BY <1>1, <2>1 DEF TransportReady
  <2> QED
    BY <1>1, <2>2 DEF TypeOK, TransportReady, books, instruments, exchange
<1>2. ASSUME Disconnected, budget' \in [Events -> Nat] PROVE TypeOK'
  <2>1. /\ topics' \in [Topics -> {"off", "pending", "on"}]
        /\ partial' \in [Topics -> BOOLEAN]
    BY <1>2 DEF Disconnected, ClearedFlags
  <2> QED
    BY <1>2, <2>1, EmptySequences DEF TypeOK, Disconnected, instruments, exchange
<1>3. CASE TransportLost
  BY <1>3, <1>2, SpendType DEF TransportLost, Events
<1>4. CASE TransportClosed
  BY <1>4, <1>2 DEF TransportClosed, TypeOK
<1> QED
  BY <1>1, <1>3, <1>4

LEMMA RequestTypes ==
  /\ Subscribe("instrument") \in Seq(Request)
  /\ Subscribe("orderBookL2") \in Seq(Request)
BY DEF Subscribe, Request, Topics

LEMMA DownloadType ==
  ASSUME TypeOK, NEW requests \in Seq(Request),
         \/ DownloadInstrument(requests) \/ DownloadOrderBookL2(requests)
         \/ DownloadDone(requests) \/ NoDownload(requests)
  PROVE  /\ outbox' \in Seq(Request)
         /\ status' \in {"DISCONNECTED", "LOGIN_SENT", "DOWNLOADING", "READY"}
         /\ download' \in {"UNDEFINED", "INSTRUMENT", "ORDER_BOOK_L2", "DONE"}
         /\ ready' \in BOOLEAN
<1>1. outbox \in Seq(Request) /\ outbox \o requests \in Seq(Request)
  BY ConcatProperties DEF TypeOK
<1>2. /\ (outbox \o requests) \o Subscribe("instrument") \in Seq(Request)
      /\ (outbox \o requests) \o Subscribe("orderBookL2") \in Seq(Request)
  BY <1>1, RequestTypes, ConcatProperties
<1>3. outbox' \in Seq(Request)
  BY <1>1, <1>2 DEF DownloadInstrument, DownloadOrderBookL2, DownloadDone,
                    NoDownload
<1> QED
  BY <1>3 DEF TypeOK, DownloadInstrument, DownloadOrderBookL2, DownloadDone,
              NoDownload

LEMMA SessionType ==
  ASSUME TypeOK, OnWelcome \/ OnSubscribe \/ OnError \/ OnUnsubscribe
  PROVE  TypeOK'
<1>1. CASE OnWelcome
  <2>1. Receive("welcome") /\ DownloadInstrument(<<>>)
    BY <1>1 DEF OnWelcome
  <2> QED
    BY <1>1, <2>1, EmptySequences, HeadTail, DownloadType
       DEF TypeOK, OnWelcome, instruments, exchange
<1>2. CASE OnSubscribe
  <2>1. Receive("subscribe")
    BY <1>2 DEF OnSubscribe
  <2> QED
    BY <1>2, <2>1, HeadTail
       DEF TypeOK, OnSubscribe, gateway, instruments, exchange
<1>3. CASE OnError
  <2>1. Receive("error")
    BY <1>3 DEF OnError
  <2> QED
    BY <1>3, <2>1, HeadTail DEF TypeOK, OnError, gateway, instruments, exchange
<1>4. CASE OnUnsubscribe
  <2>1. Receive("unsubscribe")
    BY <1>4 DEF OnUnsubscribe
  <2> QED
    BY <1>4, <2>1, HeadTail
       DEF TypeOK, OnUnsubscribe, gateway, instruments, exchange
<1> QED
  BY <1>1, <1>2, <1>3, <1>4

LEMMA InstrumentType ==
  ASSUME TypeOK, \/ OnInstrumentPartial \/ OnInstrumentUpdate
                 \/ OnInstrumentIgnored \/ OnFunding
  PROVE  TypeOK'
<1>1. CASE OnInstrumentPartial
  <2>1. Receive("instrument")
    BY <1>1 DEF OnInstrumentPartial
  <2>2. Head(inbox).items \subseteq Symbols
    BY <2>1, HeadTail, MessageFields
  <2>3. DownloadOrderBookL2(<<>>) \/ NoDownload(<<>>)
    BY <1>1 DEF OnInstrumentPartial
  <2>4. partial' \in [Topics -> BOOLEAN]
    BY <1>1 DEF OnInstrumentPartial, TypeOK
  <2> QED
    BY EmptySequences, <1>1, <2>1, <2>2, <2>3, <2>4, HeadTail, DownloadType
       DEF TypeOK, OnInstrumentPartial, exchange
<1>2. CASE OnInstrumentUpdate
  <2>1. Receive("instrument")
    BY <1>2 DEF OnInstrumentUpdate
  <2>2. Head(inbox).items \subseteq Symbols
    BY <2>1, HeadTail, MessageFields
  <2> QED
    BY <1>2, <2>1, <2>2, HeadTail
       DEF TypeOK, OnInstrumentUpdate, gateway, exchange
<1>3. CASE OnInstrumentIgnored
  <2>1. Receive("instrument")
    BY <1>3 DEF OnInstrumentIgnored
  <2>2. Head(inbox).items \subseteq Symbols
    BY <2>1, HeadTail, MessageFields
  <2> QED
    BY <1>3, <2>1, <2>2, HeadTail
       DEF TypeOK, OnInstrumentIgnored, gateway, exchange
<1>4. CASE OnFunding
  <2>1. Receive("funding")
    BY <1>4 DEF OnFunding
  <2>2. Head(inbox).items \subseteq Symbols
    BY <2>1, HeadTail, MessageFields
  <2> QED
    BY <1>4, <2>1, <2>2, HeadTail DEF TypeOK, OnFunding, gateway, exchange
<1> QED
  BY <1>1, <1>2, <1>3, <1>4

LEMMA OrderBookType ==
  ASSUME TypeOK,
         OnOrderBookL2Early \/ OnOrderBookL2 \/ OnOrderBookL2Unpriced
  PROVE  TypeOK'
<1> DEFINE m == Head(inbox)
<1>0. /\ Receive("orderBookL2")
      /\ m \in Message /\ m.type = "orderBookL2" /\ m.after \in Book
      /\ inbox' \in Seq(Message)
  <2>1. Receive("orderBookL2")
    BY DEF OnOrderBookL2Early, OnOrderBookL2, OnOrderBookL2Unpriced
  <2> QED
    BY <2>1, HeadTail
<1>00. /\ Kept(m) \subseteq Ids /\ Kept(m) \subseteq DOMAIN m.rows
       /\ Named(Kept(m)) \subseteq Symbols
  BY <1>0, KeptNamed
<1> HIDE DEF m
<1>1. CASE OnOrderBookL2Early
  BY <1>0, <1>1
     DEF TypeOK, OnOrderBookL2Early, gateway, instruments, exchange, m
<1>2. CASE OnOrderBookL2
  <2>1. PICK rejected \in SUBSET Named(Kept(m)) :
          /\ Process(m, Kept(m), Named(Kept(m)), rejected)
          /\ partial' = [partial EXCEPT !["orderBookL2"] =
                            m.action = "PARTIAL" \/ rejected = {}]
          /\ \/ DownloadDone(Resubscribe(rejected))
             \/ NoDownload(Resubscribe(rejected))
          /\ synced' = IF m.action = "PARTIAL" THEN Named(Kept(m)) \ rejected
                       ELSE IF rejected = {} THEN synced \ m.lost ELSE {}
    BY <1>2 DEF OnOrderBookL2, m
  <2>2. /\ cache' \in PriceLookup
        /\ mbp' \in [Symbols -> Depth]
        /\ budget' \in [Events -> Nat]
    BY <1>0, <1>00, <2>1, ProcessType
  <2>3. Resubscribe(rejected) \in Seq(Request)
    BY <1>00, <2>1, ResubscribeType
  <2>4. partial' \in [Topics -> BOOLEAN] /\ synced' \subseteq Symbols
    BY <1>00, <2>1 DEF TypeOK
  <2>5. /\ outbox' \in Seq(Request)
        /\ status' \in {"DISCONNECTED", "LOGIN_SENT", "DOWNLOADING", "READY"}
        /\ download' \in {"UNDEFINED", "INSTRUMENT", "ORDER_BOOK_L2", "DONE"}
        /\ ready' \in BOOLEAN
    BY <2>1, <2>3, DownloadType
  <2>6. UNCHANGED <<alive, instruments, link, topics, exchange>> /\ at' = m.after
    BY <1>2 DEF OnOrderBookL2, m
  <2> QED
    BY <1>0, <2>2, <2>4, <2>5, <2>6 DEF TypeOK, instruments, exchange
<1>3. CASE OnOrderBookL2Unpriced
  <2>1. PICK i \in Unpriced(m), groups \in SUBSET Named(Kept(m)),
             own \in SUBSET Kept(m), rejected \in SUBSET Named(Kept(m)) :
          rejected \subseteq groups /\ StopAt(m, i, groups, own, rejected)
    BY <1>3 DEF OnOrderBookL2Unpriced, m
  <2>7. /\ Process(m, own \cup {j \in Kept(m) : SymbolOf[j] \in groups},
                   groups, rejected)
        /\ partial' = [partial EXCEPT !["orderBookL2"] = @ /\ rejected = {}]
        /\ NoDownload(Resubscribe(rejected))
        /\ synced' = IF rejected = {}
                     THEN synced \ (m.lost \cup (Named(Kept(m)) \ groups))
                     ELSE {}
    BY <2>1, Zenon DEF StopAt
  <2>2. /\ cache' \in PriceLookup
        /\ mbp' \in [Symbols -> Depth]
        /\ budget' \in [Events -> Nat]
    BY <1>0, <1>00, <2>1, <2>7, ProcessType
  <2>3. Resubscribe(rejected) \in Seq(Request)
    BY <1>00, <2>1, ResubscribeType
  <2>4. partial' \in [Topics -> BOOLEAN] /\ synced' \subseteq Symbols
    BY <1>00, <2>7 DEF TypeOK
  <2>5. /\ outbox' \in Seq(Request)
        /\ status' \in {"DISCONNECTED", "LOGIN_SENT", "DOWNLOADING", "READY"}
        /\ download' \in {"UNDEFINED", "INSTRUMENT", "ORDER_BOOK_L2", "DONE"}
        /\ ready' \in BOOLEAN
    BY <2>7, <2>3, DownloadType
  <2>6. /\ UNCHANGED <<instruments, topics, exchange>> /\ at' = m.after
        /\ alive' \in BOOLEAN /\ link' \in {"down", "up", "closing"}
    BY <1>3 DEF OnOrderBookL2Unpriced, TypeOK, m
  <2> QED
    BY <1>0, <2>2, <2>4, <2>5, <2>6 DEF TypeOK, instruments, exchange
<1> QED
  BY <1>1, <1>2, <1>3

LEMMA SendType ==
  ASSUME TypeOK, NEW message \in Message,
         Send(<<message>>) \/ \E topic \in Topics : Tell(topic, message)
  PROVE  inbox' \in Seq(Message)
<1>1. inbox \in Seq(Message) /\ <<message>> \in Seq(Message)
  BY DEF TypeOK
<1>2. /\ inbox \o <<message>> \in Seq(Message)
      /\ Append(inbox, message) \in Seq(Message)
  BY <1>1, ConcatProperties
<1> QED
  BY <1>1, <1>2 DEF Send, Tell

LEMMA ServeType ==
  ASSUME TypeOK, NEW op, Serve(op)
  PROVE  /\ outbox' \in Seq(Request) /\ outbox' = Tail(outbox)
         /\ outbox # <<>> /\ Head(outbox).topic \in Topics
<1>1. outbox \in Seq(Request) /\ outbox # <<>>
  BY DEF TypeOK, Serve
<1>2. Head(outbox) \in Request /\ Tail(outbox) \in Seq(Request)
  BY <1>1
<1> QED
  BY <1>1, <1>2 DEF Serve, Request

LEMMA SnapshotType == TypeOK => Snapshot \in Rows
<1> SUFFICES ASSUME TypeOK PROVE Snapshot \in Rows
  OBVIOUS
<1> DEFINE D == {j \in Ids : RestsIn(lob, j)}
<1>1. D \in SUBSET Ids /\ Snapshot \in [D -> Row]
  BY DEF Snapshot, TypeOK, Book
<1> QED
  BY <1>1 DEF Rows

LEMMA DeltaType ==
  ASSUME TypeOK, NEW book \in QuotedBook, NEW action, NEW priced \in BOOLEAN
  PROVE  /\ Delta(action, priced, book) \in Rows
         /\ book \in Book
<1>1. book \in Book /\ lob \in Book
  BY DEF QuotedBook, TypeOK
<1>2. ASSUME NEW i \in Ids PROVE WireRow(action, priced, book, i) \in Row
  <2>1. /\ book[i].price \in Prices \cup {NoPrice}
        /\ book[i].size \in Sizes \cup {0}
        /\ lob[i].price \in Prices \cup {NoPrice}
    BY <1>1, RowFields DEF Book
  <2> QED
    BY <2>1 DEF WireRow, Row
<1>3. Changed(book) \in SUBSET Ids
  BY DEF Changed
<1>4. Delta(action, priced, book) \in [Changed(book) -> Row]
  BY <1>2, <1>3 DEF Delta
<1> QED
  BY <1>1, <1>3, <1>4 DEF Rows

LEMMA NamedType == \A ids \in SUBSET Ids : Named(ids) \subseteq Symbols
BY SymbolsAssumption DEF Named

LEMMA AnswerType ==
  ASSUME TypeOK, Answer \/ ExchangeRefuses
  PROVE  TypeOK'
<1>1. CASE ExchangeSubscribes
  <2> DEFINE topic == Head(outbox).topic
  <2> DEFINE book == IF topic = "orderBookL2" THEN lob ELSE Told
  <2>1. outbox' \in Seq(Request) /\ topic \in Topics
    BY <1>1, ServeType DEF ExchangeSubscribes
  <2>2. book \in Book
    BY ToldType DEF TypeOK
  <2>3. [type |-> "subscribe", topic |-> topic, after |-> book] \in Message
    BY <2>1, <2>2, MessageTypes
  <2>4. inbox' \in Seq(Message)
    BY <1>1, <2>3, SendType DEF ExchangeSubscribes
  <2>5. topics' \in [Topics -> {"off", "pending", "on"}]
    BY <1>1, <2>1 DEF ExchangeSubscribes, TypeOK
  <2> QED
    BY <1>1, <2>1, <2>4, <2>5
       DEF TypeOK, ExchangeSubscribes, gateway, books, instruments, exchange
<1>2. CASE ExchangeUnsubscribes
  <2>1. outbox' \in Seq(Request) /\ Head(outbox).topic \in Topics
    BY <1>2, ServeType DEF ExchangeUnsubscribes
  <2>2. inbox' \in Seq(Message)
    BY <1>2, MessageTypes, SendType DEF ExchangeUnsubscribes
  <2>3. topics' \in [Topics -> {"off", "pending", "on"}]
    BY <1>2, <2>1 DEF ExchangeUnsubscribes, TypeOK
  <2> QED
    BY <1>2, <2>1, <2>2, <2>3
       DEF TypeOK, ExchangeUnsubscribes, gateway, books, instruments, exchange
<1>3. CASE ExchangeRefuses
  <2>1. outbox' \in Seq(Request)
    BY <1>3, ServeType DEF ExchangeRefuses
  <2>2. inbox' \in Seq(Message)
    BY <1>3, MessageTypes, SendType DEF ExchangeRefuses
  <2>3. budget' \in [Events -> Nat]
    BY <1>3, SpendType DEF ExchangeRefuses, Events
  <2> QED
    BY <1>3, <2>1, <2>2, <2>3
       DEF TypeOK, ExchangeRefuses, gateway, books, instruments, exchange
<1>4. CASE InstrumentPartial
  <2>1. Instrument("PARTIAL", listed) \in Message
    BY MessageTypes DEF TypeOK, Actions
  <2>2. inbox' \in Seq(Message)
    BY <1>4, <2>1, SendType DEF InstrumentPartial
  <2>3. topics' \in [Topics -> {"off", "pending", "on"}]
    BY <1>4 DEF InstrumentPartial, TypeOK
  <2> QED
    BY <1>4, <2>2, <2>3
       DEF TypeOK, InstrumentPartial, gateway, books, instruments, exchange
<1>5. CASE OrderBookL2Partial
  <2>1. OrderBookL2("PARTIAL", Snapshot, {}, lob) \in Message
    BY MessageTypes, SnapshotType DEF TypeOK, Actions
  <2>2. inbox' \in Seq(Message)
    BY <1>5, <2>1, SendType DEF OrderBookL2Partial
  <2>3. topics' \in [Topics -> {"off", "pending", "on"}]
    BY <1>5 DEF OrderBookL2Partial, TypeOK
  <2> QED
    BY <1>5, <2>2, <2>3
       DEF TypeOK, OrderBookL2Partial, gateway, books, instruments, exchange
<1> QED
  BY <1>1, <1>2, <1>3, <1>4, <1>5 DEF Answer

LEMMA ChangeType ==
  ASSUME TypeOK, BookChanges \/ BookChangesUnseen
  PROVE  TypeOK'
<1>0. "orderBookL2" \in Topics
  BY DEF Topics
<1>1. CASE BookChanges
  <2>1. PICK book \in QuotedBook, action \in {"INSERT", "UPDATE", "DELETE"},
             priced \in Priced :
          /\ lob' = book
          /\ Tell("orderBookL2",
                  OrderBookL2(action, Delta(action, priced, book), {}, book))
    BY <1>1 DEF BookChanges
  <2>2. priced \in BOOLEAN
    BY BoundsAssumption
  <2>3. book \in Book /\ Delta(action, priced, book) \in Rows
    BY <2>2, DeltaType
  <2>4. OrderBookL2(action, Delta(action, priced, book), {}, book) \in Message
    BY <2>3, MessageTypes DEF Actions
  <2>5. inbox' \in Seq(Message)
    BY <1>0, <2>1, <2>4, SendType
  <2>6. budget' \in [Events -> Nat]
    BY <1>1, SpendType DEF BookChanges, Events
  <2> QED
    BY <1>1, <2>1, <2>3, <2>5, <2>6
       DEF TypeOK, BookChanges, gateway, books, instruments
<1>2. CASE BookChangesUnseen
  <2>1. PICK book \in QuotedBook, action \in {"INSERT", "UPDATE", "DELETE"} :
          /\ lob' = book
          /\ Tell("orderBookL2",
                  OrderBookL2(action, [i \in {} |-> NoRow],
                              Named(Changed(book)), book))
    BY <1>2 DEF BookChangesUnseen
  <2>2. [i \in {} |-> NoRow] \in Rows
    <3>1. [i \in {} |-> NoRow] \in [{} -> Row] /\ {} \in SUBSET Ids
      OBVIOUS
    <3> QED
      BY <3>1 DEF Rows
  <2>3. book \in Book /\ Named(Changed(book)) \subseteq Symbols
    BY NamedType DEF QuotedBook, Changed
  <2>4. OrderBookL2(action, [i \in {} |-> NoRow], Named(Changed(book)), book)
          \in Message
    BY <2>2, <2>3, MessageTypes DEF Actions
  <2>5. inbox' \in Seq(Message)
    BY <1>0, <2>1, <2>4, SendType
  <2>6. budget' \in [Events -> Nat]
    BY <1>2, SpendType DEF BookChangesUnseen, Events
  <2> QED
    BY <1>2, <2>1, <2>3, <2>5, <2>6
       DEF TypeOK, BookChangesUnseen, gateway, books, instruments
<1> QED
  BY <1>1, <1>2

LEMMA NewsType ==
  ASSUME TypeOK, SymbolListed \/ InstrumentChanges \/ FundingPublished
  PROVE  TypeOK'
<1>0. Topics = {"instrument", "orderBookL2"}
  BY DEF Topics
<1>1. CASE SymbolListed
  <2>1. PICK s \in Symbols \ listed :
          /\ listed' = listed \cup {s}
          /\ Tell("instrument", Instrument("INSERT", {s}))
    BY <1>1 DEF SymbolListed
  <2>2. Instrument("INSERT", {s}) \in Message
    BY <2>1, MessageTypes DEF Actions
  <2>3. inbox' \in Seq(Message)
    BY <1>0, <2>1, <2>2, SendType
  <2>4. budget' \in [Events -> Nat]
    BY <1>1, SpendType DEF SymbolListed, Events
  <2> QED
    BY <1>1, <2>1, <2>3, <2>4
       DEF TypeOK, SymbolListed, gateway, books, instruments
<1>2. CASE InstrumentChanges
  <2>1. PICK items \in SUBSET listed :
          Tell("instrument", Instrument("UPDATE", items))
    BY <1>2 DEF InstrumentChanges
  <2>2. Instrument("UPDATE", items) \in Message
    BY <2>1, MessageTypes DEF Actions, TypeOK
  <2>3. inbox' \in Seq(Message)
    BY <1>0, <2>1, <2>2, SendType
  <2>4. budget' \in [Events -> Nat]
    BY <1>2, SpendType DEF InstrumentChanges, Events
  <2> QED
    BY <1>2, <2>3, <2>4
       DEF TypeOK, InstrumentChanges, gateway, books, instruments, exchange
<1>3. CASE FundingPublished
  <2>1. PICK s \in listed :
          Tell("orderBookL2",
               [type |-> "funding", items |-> {s}, after |-> Told])
    BY <1>3 DEF FundingPublished
  <2>2. [type |-> "funding", items |-> {s}, after |-> Told] \in Message
    BY <2>1, MessageTypes DEF TypeOK
  <2>3. inbox' \in Seq(Message)
    BY <1>0, <2>1, <2>2, SendType
  <2>4. budget' \in [Events -> Nat]
    BY <1>3, SpendType DEF FundingPublished, Events
  <2> QED
    BY <1>3, <2>3, <2>4
       DEF TypeOK, FundingPublished, gateway, books, instruments, exchange
<1> QED
  BY <1>1, <1>2, <1>3

LEMMA InitType == Init => TypeOK
<1> SUFFICES ASSUME Init PROVE TypeOK
  OBVIOUS
<1>1. cache \in PriceLookup /\ mbp \in [Symbols -> Depth]
  BY DEF Init, EmptyLookup, PriceLookup, EmptyDepth, Depth
<1>2. lob \in Book
  BY DEF Init, QuotedBook
<1>3. budget \in [Events -> Nat]
  BY BoundsAssumption DEF Init
<1> QED
  BY <1>1, <1>2, <1>3, EmptySequences, SymbolsAssumption DEF Init, TypeOK

LEMMA NextType == TypeOK /\ [Next]_vars => TypeOK'
<1> SUFFICES ASSUME TypeOK, [Next]_vars PROVE TypeOK'
  OBVIOUS
<1>1. CASE UNCHANGED vars
  BY <1>1 DEF TypeOK, vars, gateway, books, instruments, wire, exchange
<1>2. CASE Next
  BY <1>2, ConnectionType, SessionType, InstrumentType, OrderBookType,
     AnswerType, ChangeType, NewsType DEF Next, Handle
<1> QED
  BY <1>1, <1>2

(* Every variable keeps its type: no handler leaves a book, a cache entry, *)
(* a queue or a counter outside its range.                                 *)
THEOREM TypeCorrect == Spec => []TypeOK
BY InitType, NextType, PTL DEF Spec


-------------------------------------------------------------------------------
(* The order of a session: Welcome, the instruments and their PARTIAL, and *)
(* only then anything about order books.                                   *)

LEMMA Takes ==
  ASSUME TypeOK, NEW type, Receive(type)
  PROVE  /\ 1 \in DOMAIN inbox /\ Head(inbox) = inbox[1] /\ inbox[1] \in Message
         /\ inbox[1].type = type
         /\ \A n \in DOMAIN inbox' : /\ n \in Nat /\ n >= 1 /\ n + 1 \in DOMAIN inbox
                                     /\ inbox'[n] = inbox[n + 1]
         /\ \A n \in DOMAIN inbox : /\ n \in Nat /\ n >= 1
                                    /\ n # 1 => /\ n - 1 \in DOMAIN inbox'
                                                /\ inbox'[n - 1] = inbox[n]
<1>1. inbox \in Seq(Message) /\ inbox # <<>> /\ inbox' = Tail(inbox)
      /\ Head(inbox).type = type
  BY DEF TypeOK, Receive
<1>2. 1 \in DOMAIN inbox /\ Head(inbox) = inbox[1] /\ inbox[1] \in Message
  BY <1>1
<1>3. \A n \in DOMAIN Tail(inbox) : /\ n \in Nat /\ n >= 1 /\ n + 1 \in DOMAIN inbox
                                    /\ Tail(inbox)[n] = inbox[n + 1]
  BY <1>1
<1>4. \A n \in DOMAIN inbox : /\ n \in Nat /\ n >= 1
                              /\ n # 1 => /\ n - 1 \in DOMAIN Tail(inbox)
                                          /\ Tail(inbox)[n - 1] = inbox[n]
  BY <1>1
<1> QED
  BY <1>1, <1>2, <1>3, <1>4

LEMMA Grows ==
  ASSUME NEW S, NEW s \in Seq(S), NEW x \in S
  PROVE  /\ s \o <<x>> = Append(s, x)
         /\ DOMAIN Append(s, x) = DOMAIN s \cup {Len(s) + 1}
         /\ Len(s) + 1 \notin DOMAIN s
         /\ \A n \in DOMAIN s : n \in Nat /\ n < Len(s) + 1
         /\ Len(s) \in Nat /\ Len(Append(s, x)) = Len(s) + 1
         /\ Append(s, x)[Len(s) + 1] = x
         /\ \A n \in DOMAIN s : Append(s, x)[n] = s[n]
OBVIOUS

LEMMA Serves ==
  ASSUME TypeOK, NEW op, Serve(op)
  PROVE  /\ 1 \in DOMAIN outbox /\ outbox[1] = Head(outbox) /\ outbox[1] \in Request
         /\ outbox[1].op = op
         /\ \A n \in DOMAIN outbox' : /\ n \in Nat /\ n >= 1 /\ n + 1 \in DOMAIN outbox
                                      /\ outbox'[n] = outbox[n + 1]
<1>1. outbox \in Seq(Request) /\ outbox # <<>> /\ outbox' = Tail(outbox)
      /\ Head(outbox).op = op
  BY DEF TypeOK, Serve
<1>2. 1 \in DOMAIN outbox /\ Head(outbox) = outbox[1] /\ outbox[1] \in Request
  BY <1>1
<1>3. \A n \in DOMAIN Tail(outbox) : /\ n \in Nat /\ n >= 1 /\ n + 1 \in DOMAIN outbox
                                     /\ Tail(outbox)[n] = outbox[n + 1]
  BY <1>1
<1> QED
  BY <1>1, <1>2, <1>3

(* The requests a handler adds are about order books.                      *)
LEMMA Requested ==
  ASSUME TypeOK, NEW requests \in Seq(Request), outbox' = outbox \o requests
  PROVE  \A n \in DOMAIN outbox' :
           \/ n \in DOMAIN outbox /\ outbox'[n] = outbox[n]
           \/ /\ n \notin DOMAIN outbox
              /\ \E k \in DOMAIN requests : outbox'[n] = requests[k]
<1>1. outbox \in Seq(Request)
  BY DEF TypeOK
<1> TAKE n \in DOMAIN outbox'
<1>2. CASE n \in DOMAIN outbox
  BY <1>1, <1>2
<1>3. CASE n \notin DOMAIN outbox
  <2>1. n - Len(outbox) \in DOMAIN requests /\ outbox'[n] = requests[n - Len(outbox)]
    BY <1>1, <1>3
  <2> QED
    BY <1>3, <2>1
<1> QED
  BY <1>2, <1>3

IsOpening(m) == m.type = "instrument" /\ m.action = "PARTIAL"
Openings == {n \in DOMAIN inbox : IsOpening(inbox[n])}
Fresh == /\ outbox = <<>> /\ topics = [t \in Topics |-> "off"]
         /\ partial = [t \in Topics |-> FALSE] /\ download = "UNDEFINED"

Greeting == \E n \in DOMAIN inbox : inbox[n].type = "welcome"
InstrumentsAsked ==
  /\ \A n \in DOMAIN outbox : outbox[n].topic = "instrument" =>
       outbox[n].op = "subscribe" /\ topics["instrument"] = "off"
  /\ \A n, k \in DOMAIN outbox :
       outbox[n].topic = "instrument" /\ outbox[k].topic = "instrument" => n = k
  /\ topics["instrument"] # "on" => Openings = {} /\ ~partial["instrument"]
  /\ \A n, k \in Openings : n = k
  /\ partial["instrument"] => Openings = {}
BooksWait ==
  ~partial["instrument"] =>
    /\ ~partial["orderBookL2"] /\ topics["orderBookL2"] = "off"
    /\ download \notin {"ORDER_BOOK_L2", "DONE"}
    /\ \A n \in DOMAIN outbox : outbox[n].topic = "instrument"
    /\ \A n \in DOMAIN inbox : inbox[n].type # "orderBookL2"
InSession ==
  /\ link = "down" => inbox = <<>> /\ Fresh
  /\ Greeting => DOMAIN inbox = {1} /\ Fresh
  /\ ready <=> download = "DONE"
  /\ InstrumentsAsked
  /\ BooksWait

LEMMA FreshFacts ==
  ASSUME Fresh
  PROVE  /\ outbox = <<>> /\ download = "UNDEFINED"
         /\ topics["instrument"] = "off" /\ topics["orderBookL2"] = "off"
         /\ ~partial["instrument"] /\ ~partial["orderBookL2"]
BY DEF Fresh, Topics

LEMMA ReadingSession ==
  ASSUME TypeOK, InSession, NEW type, Receive(type), type # "welcome",
         topics' = topics, link' \in {link, "closing"},
         \/ partial'["instrument"] = partial["instrument"]
         \/ partial'["instrument"] /\ IsOpening(inbox[1]),
         ready' <=> download' = "DONE",
         ~partial'["instrument"] =>
           ~partial'["orderBookL2"] /\ download' \notin {"ORDER_BOOK_L2", "DONE"},
         NEW requests \in Seq(Request), outbox' = outbox \o requests,
         \A k \in DOMAIN requests : requests[k].topic = "orderBookL2",
         requests = <<>> \/ partial'["instrument"]
  PROVE  InSession'
<1>1. /\ 1 \in DOMAIN inbox /\ inbox[1].type = type
      /\ \A n \in DOMAIN inbox' : /\ n \in Nat /\ n >= 1 /\ n + 1 \in DOMAIN inbox
                                  /\ inbox'[n] = inbox[n + 1]
  BY Takes
<1>2. ~Greeting /\ ~Greeting' /\ link # "down" /\ link' # "down"
  <2>1. ~Greeting
    BY <1>1 DEF InSession, Greeting
  <2>2. ~Greeting'
    BY <1>1, <2>1 DEF Greeting
  <2> QED
    BY <2>1, <2>2 DEF Receive
<1>3. /\ \A n \in Openings' : n + 1 \in Openings /\ n \in Nat /\ n >= 1
      /\ IsOpening(inbox[1]) => 1 \in Openings
  BY <1>1 DEF Openings
<1>4. \A n \in DOMAIN outbox' : \/ n \in DOMAIN outbox /\ outbox'[n] = outbox[n]
                                \/ n \notin DOMAIN outbox /\ outbox'[n].topic = "orderBookL2"
                                   /\ partial'["instrument"]
  <2>1. requests = <<>> => DOMAIN requests = {}
    OBVIOUS
  <2> QED
    BY <2>1, Requested
<1>5. partial["instrument"] => Openings = {}
  BY DEF InSession, InstrumentsAsked
<1>6. partial["instrument"] => partial'["instrument"]
  OBVIOUS
<1>7. InstrumentsAsked'
  <2>1. \A n \in DOMAIN outbox' : outbox'[n].topic = "instrument" =>
          /\ n \in DOMAIN outbox /\ outbox[n].topic = "instrument"
          /\ outbox'[n].op = "subscribe" /\ topics["instrument"] = "off"
    BY <1>4 DEF InSession, InstrumentsAsked
  <2>2. \A n, k \in Openings' : n = k
    BY <1>3 DEF InSession, InstrumentsAsked
  <2>3. partial'["instrument"] => Openings' = {}
    <3>1. partial["instrument"] => Openings' = {}
      BY <1>3, <1>5
    <3>2. 1 \in Openings => Openings' = {}
      <4>1. ASSUME 1 \in Openings, NEW n \in Openings' PROVE FALSE
        <5>1. n + 1 = 1
          BY <1>3, <4>1 DEF InSession, InstrumentsAsked
        <5> QED
          BY <1>3, <4>1, <5>1
      <4> QED
        BY <4>1
    <3> QED
      BY <1>3, <3>1, <3>2
  <2>4. topics["instrument"] # "on" => Openings' = {} /\ ~partial'["instrument"]
    BY <1>3 DEF InSession, InstrumentsAsked
  <2> QED
    BY <2>1, <2>2, <2>3, <2>4 DEF InSession, InstrumentsAsked
<1>8. BooksWait'
  BY <1>1, <1>4, <1>6 DEF InSession, BooksWait
<1> QED
  BY <1>2, <1>7, <1>8 DEF InSession

LEMMA SendingSession ==
  ASSUME TypeOK, InSession, link = "up", UNCHANGED <<link, partial, download, ready>>,
         NEW m \in Message, inbox' = Append(inbox, m), m.type # "welcome", ~Greeting,
         IsOpening(m) => topics["instrument"] = "pending",
         topics'["instrument"] # "on" => topics["instrument"] # "on" /\ ~IsOpening(m),
         m.type = "orderBookL2" \/ topics'["orderBookL2"] # "off" => partial["instrument"],
         outbox' = outbox
         \/ \A n \in DOMAIN outbox' : /\ n \in Nat /\ n + 1 \in DOMAIN outbox
                                      /\ outbox'[n] = outbox[n + 1],
         \A n \in DOMAIN outbox' :
           outbox'[n].topic = "instrument" => topics'["instrument"] = "off"
  PROVE  InSession'
<1>1. /\ DOMAIN inbox' = DOMAIN inbox \cup {Len(inbox) + 1}
      /\ inbox'[Len(inbox) + 1] = m
      /\ \A n \in DOMAIN inbox : inbox'[n] = inbox[n]
  BY Grows DEF TypeOK
<1>2. ~Greeting'
  BY <1>1 DEF Greeting
<1>3. /\ \A n \in Openings' : n \in Openings \/ (n = Len(inbox) + 1 /\ IsOpening(m))
  BY <1>1 DEF Openings
<1>4. IsOpening(m) => Openings = {} /\ ~partial["instrument"]
  BY DEF InSession, InstrumentsAsked
<1>5. InstrumentsAsked'
  <2>1. (\A n, k \in Openings' : n = k) /\ (partial["instrument"] => Openings' = {})
    BY <1>3, <1>4 DEF InSession, InstrumentsAsked
  <2>2. topics'["instrument"] # "on" => Openings' = {} /\ ~partial["instrument"]
    BY <1>3 DEF InSession, InstrumentsAsked
  <2>3. \A n \in DOMAIN outbox' : outbox'[n].topic = "instrument" => outbox'[n].op = "subscribe"
    BY DEF InSession, InstrumentsAsked
  <2>4. \A n, k \in DOMAIN outbox' :
          outbox'[n].topic = "instrument" /\ outbox'[k].topic = "instrument" => n = k
    <3>1. CASE outbox' = outbox
      BY <3>1 DEF InSession, InstrumentsAsked
    <3>2. CASE \A n \in DOMAIN outbox' : /\ n \in Nat /\ n + 1 \in DOMAIN outbox
                                         /\ outbox'[n] = outbox[n + 1]
      <4> SUFFICES ASSUME NEW n \in DOMAIN outbox', NEW k \in DOMAIN outbox',
                          outbox'[n].topic = "instrument", outbox'[k].topic = "instrument"
                   PROVE  n = k
        OBVIOUS
      <4>1. n + 1 = k + 1
        BY <3>2 DEF InSession, InstrumentsAsked
      <4> QED
        BY <3>2, <4>1
    <3> QED
      BY <3>1, <3>2
  <2> QED
    BY <2>1, <2>2, <2>3, <2>4 DEF InstrumentsAsked
<1>6. BooksWait'
  BY <1>1 DEF InSession, BooksWait
<1> QED
  BY <1>2, <1>5, <1>6 DEF InSession

LEMMA HandleSession ==
  ASSUME TypeOK, TypeOK', InSession, Handle
  PROVE  InSession'
<1>1. CASE OnWelcome
  <2>1. /\ Receive("welcome") /\ outbox' = outbox \o <<>> \o Subscribe("instrument")
        /\ download' = "INSTRUMENT" /\ UNCHANGED <<ready, partial, topics, link>>
    BY <1>1 DEF OnWelcome, DownloadInstrument
  <2>2. Greeting
    BY <2>1, Takes DEF Greeting
  <2>3. DOMAIN inbox = {1} /\ Fresh
    BY <2>2 DEF InSession
  <2>4. DOMAIN inbox' = {}
    <3>1. ASSUME NEW n \in DOMAIN inbox' PROVE FALSE
      <4>1. n \in Nat /\ n >= 1 /\ n + 1 \in DOMAIN inbox
        BY <2>1, Takes
      <4>2. n + 1 = 1
        BY <2>3, <4>1
      <4> QED
        BY <4>1, <4>2
    <3> QED
      BY <3>1
  <2>5. outbox' = Subscribe("instrument")
    BY <2>1, <2>3, FreshFacts DEF Subscribe
  <2>6. /\ DOMAIN outbox' = {1} /\ outbox'[1].topic = "instrument"
        /\ outbox'[1].op = "subscribe"
    BY <2>5 DEF Subscribe
  <2>7. ~Greeting' /\ Openings' = {}
    BY <2>4 DEF Greeting, Openings
  <2>8. InstrumentsAsked'
    BY <2>1, <2>3, <2>6, <2>7, FreshFacts DEF InstrumentsAsked
  <2>9. BooksWait'
    BY <2>1, <2>3, <2>4, <2>6, FreshFacts DEF BooksWait
  <2>10. link' # "down"
    BY <2>1 DEF Receive
  <2> QED
    BY <2>1, <2>3, <2>7, <2>8, <2>9, <2>10, FreshFacts DEF InSession
<1>2. ASSUME NEW type, Receive(type), type # "welcome", UNCHANGED <<gateway, outbox, link, topics>>
      PROVE  InSession'
  <2>1. outbox' = outbox \o <<>> /\ <<>> \in Seq(Request) /\ DOMAIN <<>> = {}
    BY <1>2 DEF TypeOK
  <2>2. UNCHANGED <<ready, partial, download>>
    BY <1>2 DEF gateway
  <2> QED
    BY <1>2, <2>1, <2>2, ReadingSession DEF InSession, BooksWait
<1>3. CASE \/ OnSubscribe \/ OnError \/ OnUnsubscribe \/ OnInstrumentUpdate
           \/ OnInstrumentIgnored \/ OnFunding \/ OnOrderBookL2Early
  <2>1. PICK type : Receive(type) /\ type # "welcome"
    BY <1>3 DEF OnSubscribe, OnError, OnUnsubscribe, OnInstrumentUpdate,
                OnInstrumentIgnored, OnFunding, OnOrderBookL2Early
  <2>2. UNCHANGED <<gateway, outbox, link, topics>>
    BY <1>3 DEF OnSubscribe, OnError, OnUnsubscribe, OnInstrumentUpdate,
                OnInstrumentIgnored, OnFunding, OnOrderBookL2Early
  <2> QED
    BY <1>2, <2>1, <2>2
<1>4. CASE OnInstrumentPartial
  <2>1. /\ Receive("instrument") /\ Head(inbox).action = "PARTIAL"
        /\ partial' = [partial EXCEPT !["instrument"] = TRUE]
        /\ UNCHANGED <<link, topics>>
        /\ IF download = "INSTRUMENT" THEN DownloadOrderBookL2(<<>>) ELSE NoDownload(<<>>)
    BY <1>4 DEF OnInstrumentPartial
  <2>2. partial'["instrument"] /\ IsOpening(inbox[1])
    BY <2>1, Takes DEF IsOpening, TypeOK, Topics
  <2>3. CASE download = "INSTRUMENT"
    <3>1. /\ outbox' = outbox \o <<>> \o Subscribe("orderBookL2")
          /\ download' = "ORDER_BOOK_L2" /\ ready' = ready
      BY <2>1, <2>3 DEF DownloadOrderBookL2
    <3>2. /\ outbox' = outbox \o Subscribe("orderBookL2")
          /\ Subscribe("orderBookL2") \in Seq(Request)
          /\ \A k \in DOMAIN Subscribe("orderBookL2") :
               Subscribe("orderBookL2")[k].topic = "orderBookL2"
      BY <3>1, RequestTypes DEF TypeOK, Subscribe
    <3>3. ready' <=> download' = "DONE"
      BY <2>3, <3>1 DEF InSession
    <3> QED
      BY <2>1, <2>2, <3>2, <3>3, ReadingSession
  <2>4. CASE download # "INSTRUMENT"
    <3>1. outbox' = outbox \o <<>> /\ <<>> \in Seq(Request) /\ DOMAIN <<>> = {}
      BY <2>1, <2>4 DEF NoDownload
    <3>2. ready' <=> download' = "DONE"
      BY <2>1, <2>4 DEF NoDownload, InSession
    <3> QED
      BY <2>1, <2>2, <3>1, <3>2, ReadingSession
  <2> QED
    BY <2>3, <2>4
<1>5. ASSUME NEW rejected \in SUBSET Symbols, Receive("orderBookL2"), topics' = topics,
             link' \in {link, "closing"}, partial'["instrument"] = partial["instrument"],
             DownloadDone(Resubscribe(rejected)) \/ NoDownload(Resubscribe(rejected))
      PROVE  InSession'
  <2>1. /\ 1 \in DOMAIN inbox /\ inbox[1].type = "orderBookL2"
    BY <1>5, Takes
  <2>2. partial["instrument"]
    BY <2>1 DEF InSession, BooksWait
  <2>3. /\ Resubscribe(rejected) \in Seq(Request)
        /\ \A k \in DOMAIN Resubscribe(rejected) : Resubscribe(rejected)[k].topic = "orderBookL2"
    BY ResubscribeType DEF Resubscribe
  <2>4. outbox' = outbox \o Resubscribe(rejected) /\ (ready' <=> download' = "DONE")
    BY <1>5 DEF DownloadDone, NoDownload, InSession
  <2> QED
    BY <1>5, <2>2, <2>3, <2>4, ReadingSession
<1>6. ASSUME OnOrderBookL2 \/ OnOrderBookL2Unpriced
      PROVE  \E rejected \in SUBSET Symbols :
               /\ DownloadDone(Resubscribe(rejected)) \/ NoDownload(Resubscribe(rejected))
               /\ partial'["instrument"] = partial["instrument"]
  <2>1. Receive("orderBookL2")
    BY <1>6 DEF OnOrderBookL2, OnOrderBookL2Unpriced
  <2>2. Named(Kept(Head(inbox))) \subseteq Symbols
    BY <2>1, Takes, KeptNamed
  <2>3. \A b : partial' = [partial EXCEPT !["orderBookL2"] = b] =>
                 partial'["instrument"] = partial["instrument"]
    BY DEF TypeOK, Topics
  <2>4. CASE OnOrderBookL2
    BY <2>2, <2>3, <2>4 DEF OnOrderBookL2
  <2>5. CASE OnOrderBookL2Unpriced
    <3>1. PICK i \in Unpriced(Head(inbox)), groups \in SUBSET Named(Kept(Head(inbox))),
               own \in SUBSET Kept(Head(inbox)), rejected \in SUBSET Named(Kept(Head(inbox))) :
            rejected \subseteq groups /\ StopAt(Head(inbox), i, groups, own, rejected)
      BY <2>5 DEF OnOrderBookL2Unpriced
    <3>2. /\ NoDownload(Resubscribe(rejected))
          /\ \E b : partial' = [partial EXCEPT !["orderBookL2"] = b]
      BY <3>1, Zenon DEF StopAt
    <3> QED
      BY <2>2, <2>3, <3>1, <3>2
  <2> QED
    BY <1>6, <2>4, <2>5
<1>7. CASE OnOrderBookL2 \/ OnOrderBookL2Unpriced
  <2>1. /\ Receive("orderBookL2") /\ topics' = topics /\ link' \in {link, "closing"}
    BY <1>7 DEF OnOrderBookL2, OnOrderBookL2Unpriced
  <2> QED
    BY <1>5, <1>6, <1>7, <2>1
<1> QED
  BY <1>1, <1>3, <1>4, <1>7 DEF Handle

LEMMA TellingSession ==
  ASSUME TypeOK, InSession, NEW topic \in Topics, NEW m \in Message, Tell(topic, m),
         m.type # "welcome", ~IsOpening(m), m.type = "orderBookL2" => topic = "orderBookL2",
         UNCHANGED <<gateway, link, outbox, topics>>
  PROVE  InSession'
<1>1. UNCHANGED <<ready, partial, download>>
  BY DEF gateway
<1>2. CASE UNCHANGED inbox
  BY <1>1, <1>2 DEF InSession, Greeting, Fresh, InstrumentsAsked, BooksWait, Openings
<1>3. CASE link = "up" /\ topics[topic] # "off" /\ inbox' = Append(inbox, m)
  <2>1. ~Greeting
    BY <1>3, FreshFacts DEF InSession, Topics
  <2>2. m.type = "orderBookL2" \/ topics["orderBookL2"] # "off" => partial["instrument"]
    BY <1>3 DEF InSession, BooksWait
  <2> QED
    BY <1>1, <1>3, <2>1, <2>2, SendingSession DEF InSession, InstrumentsAsked
<1> QED
  BY <1>2, <1>3 DEF Tell

LEMMA ExchangeSession ==
  ASSUME TypeOK, TypeOK', InSession, Answer \/ ExchangeRefuses
  PROVE  InSession'
<1>1. "instrument" \in Topics /\ "orderBookL2" \in Topics
      /\ \A s, t, v : t # s => [topics EXCEPT ![s] = v][t] = topics[t]
  BY DEF Topics
<1>2. \A s \in Topics : \A v : [topics EXCEPT ![s] = v][s] = v
  BY DEF TypeOK
<1>3. \A x : inbox \o <<x>> = Append(inbox, x)
  BY DEF TypeOK
<1>4. ASSUME NEW op, Serve(op)
      PROVE  /\ ~Greeting /\ link = "up"
             /\ \A n \in DOMAIN outbox' : /\ n \in Nat /\ n + 1 \in DOMAIN outbox
                                          /\ outbox'[n] = outbox[n + 1]
             /\ Head(outbox) \in Request /\ Head(outbox).op = op
             /\ Head(outbox).topic = "instrument" =>
                  /\ op = "subscribe" /\ topics["instrument"] = "off"
                  /\ \A n \in DOMAIN outbox' : outbox'[n].topic # "instrument"
             /\ Head(outbox).topic = "orderBookL2" => partial["instrument"]
             /\ Head(outbox).topic \in Topics
             /\ \A n \in DOMAIN outbox' : outbox'[n].topic = "instrument" =>
                                            topics["instrument"] = "off"
  <2>1. /\ 1 \in DOMAIN outbox /\ outbox[1] = Head(outbox) /\ outbox[1] \in Request
        /\ outbox[1].op = op
        /\ \A n \in DOMAIN outbox' : /\ n \in Nat /\ n >= 1 /\ n + 1 \in DOMAIN outbox
                                     /\ outbox'[n] = outbox[n + 1]
    BY <1>4, Serves
  <2>2. ~Greeting /\ link = "up"
    BY <1>4, FreshFacts DEF InSession, Serve
  <2>3. \A n \in DOMAIN outbox' : n + 1 # 1
    BY <2>1
  <2>4. Head(outbox).topic = "instrument" =>
          \A n \in DOMAIN outbox' : outbox'[n].topic # "instrument"
    BY <2>1, <2>3 DEF InSession, InstrumentsAsked
  <2>5. Head(outbox).topic \in Topics
    BY <2>1 DEF Request
  <2> QED
    BY <2>1, <2>2, <2>4, <2>5 DEF InSession, InstrumentsAsked, BooksWait
<1>5. CASE ExchangeSubscribes
  <2>1. PICK m \in Message : inbox' = Append(inbox, m) /\ m.type = "subscribe"
    <3> DEFINE m == [type |-> "subscribe", topic |-> Head(outbox).topic,
                     after |-> IF Head(outbox).topic = "orderBookL2" THEN lob ELSE Told]
    <3>1. m \in Message
      <4>1. Head(outbox).topic \in Topics
        BY <1>4, <1>5 DEF ExchangeSubscribes
      <4>2. (IF Head(outbox).topic = "orderBookL2" THEN lob ELSE Told) \in Book
        BY ToldType DEF TypeOK
      <4> QED
        BY <4>1, <4>2, MessageTypes
    <3> QED
      BY <1>3, <1>5, <3>1 DEF ExchangeSubscribes, Send
  <2>2. /\ Serve("subscribe") /\ topics' = [topics EXCEPT ![Head(outbox).topic] = "pending"]
        /\ UNCHANGED <<link, partial, download, ready>>
    BY <1>5 DEF ExchangeSubscribes, gateway
  <2>3. CASE Head(outbox).topic = "instrument"
    <3>1. topics'["orderBookL2"] = topics["orderBookL2"] /\ topics'["instrument"] = "pending"
      BY <1>1, <1>2, <2>2, <2>3
    <3>2. topics["instrument"] = "off" /\ ~IsOpening(m)
          /\ (topics["orderBookL2"] # "off" => partial["instrument"])
      BY <1>4, <2>1, <2>2, <2>3 DEF IsOpening, InSession, BooksWait
    <3> QED
      BY <1>4, <2>1, <2>2, <2>3, <3>1, <3>2, SendingSession
  <2>4. CASE Head(outbox).topic = "orderBookL2"
    <3>1. topics'["instrument"] = topics["instrument"]
      BY <1>1, <2>2, <2>4
    <3>2. partial["instrument"] /\ ~IsOpening(m)
      BY <1>4, <2>1, <2>2, <2>4 DEF IsOpening
    <3> QED
      BY <1>4, <2>1, <2>2, <2>4, <3>1, <3>2, SendingSession
  <2> QED
    BY <1>4, <2>2, <2>3, <2>4 DEF Topics
<1>6. CASE ExchangeUnsubscribes
  <2>1. PICK m \in Message : inbox' = Append(inbox, m) /\ m.type = "unsubscribe"
    BY <1>3, <1>6, MessageTypes DEF ExchangeUnsubscribes, Send, Plain
  <2>2. /\ Serve("unsubscribe") /\ topics' = [topics EXCEPT ![Head(outbox).topic] = "off"]
        /\ UNCHANGED <<link, partial, download, ready>>
    BY <1>6 DEF ExchangeUnsubscribes, gateway
  <2>3. Head(outbox).topic = "orderBookL2"
    BY <1>4, <2>2 DEF Topics
  <2>4. topics'["instrument"] = topics["instrument"]
    BY <1>1, <2>2, <2>3
  <2>5. partial["instrument"] /\ ~IsOpening(m)
    BY <1>4, <2>1, <2>2, <2>3 DEF IsOpening
  <2> QED
    BY <1>4, <2>1, <2>2, <2>3, <2>4, <2>5, SendingSession
<1>7. CASE ExchangeRefuses
  <2>1. PICK m \in Message : inbox' = Append(inbox, m) /\ m.type = "error"
    BY <1>3, <1>7, MessageTypes DEF ExchangeRefuses, Send, Plain
  <2>2. /\ Serve("subscribe") /\ topics' = topics
        /\ UNCHANGED <<link, partial, download, ready>>
    BY <1>7 DEF ExchangeRefuses, gateway
  <2>3. ~IsOpening(m) /\ (topics["orderBookL2"] # "off" => partial["instrument"])
    BY <2>1 DEF IsOpening, InSession, BooksWait
  <2> QED
    BY <1>4, <2>1, <2>2, <2>3, SendingSession
<1>8. CASE InstrumentPartial
  <2>1. PICK m \in Message : inbox' = Append(inbox, m) /\ m.type = "instrument"
    BY <1>3, <1>8, MessageTypes DEF InstrumentPartial, Send, Instrument, TypeOK, Actions
  <2>2. /\ topics["instrument"] = "pending" /\ link = "up"
        /\ topics' = [topics EXCEPT !["instrument"] = "on"]
        /\ UNCHANGED <<link, partial, download, ready, outbox>>
    BY <1>8 DEF InstrumentPartial, gateway, Send
  <2>3. topics'["instrument"] = "on" /\ topics'["orderBookL2"] = topics["orderBookL2"]
    BY <1>1, <1>2, <2>2
  <2>4. ~Greeting
    BY <2>2, FreshFacts DEF InSession
  <2>5. /\ \A n \in DOMAIN outbox : outbox[n].topic # "instrument"
        /\ (topics["orderBookL2"] # "off" => partial["instrument"])
    BY <2>2 DEF InSession, InstrumentsAsked, BooksWait
  <2> QED
    BY <2>1, <2>2, <2>3, <2>4, <2>5, SendingSession
<1>9. CASE OrderBookL2Partial
  <2>1. PICK m \in Message : inbox' = Append(inbox, m) /\ m.type = "orderBookL2"
    BY <1>3, <1>9, MessageTypes, SnapshotType
       DEF OrderBookL2Partial, Send, OrderBookL2, TypeOK, Actions
  <2>2. /\ topics["orderBookL2"] = "pending" /\ link = "up"
        /\ topics' = [topics EXCEPT !["orderBookL2"] = "on"]
        /\ UNCHANGED <<link, partial, download, ready, outbox>>
    BY <1>9 DEF OrderBookL2Partial, gateway, Send
  <2>3. topics'["instrument"] = topics["instrument"]
    BY <1>1, <2>2
  <2>4. ~Greeting /\ ~IsOpening(m) /\ partial["instrument"]
    BY <2>1, <2>2, FreshFacts DEF InSession, IsOpening, BooksWait
  <2>5. \A n \in DOMAIN outbox : outbox[n].topic = "instrument" => topics["instrument"] = "off"
    BY DEF InSession, InstrumentsAsked
  <2> QED
    BY <2>1, <2>2, <2>3, <2>4, <2>5, SendingSession
<1> QED
  BY <1>5, <1>6, <1>7, <1>8, <1>9 DEF Answer

LEMMA SessionNext ==
  ASSUME TypeOK, TypeOK', InSession, [Next]_vars
  PROVE  InSession'
<1>1. CASE TransportReady
  <2>1. Fresh /\ inbox = <<>>
    BY <1>1 DEF InSession, TransportReady
  <2>2. /\ inbox' = <<[type |-> "welcome", after |-> at]>> /\ link' = "up"
        /\ UNCHANGED <<ready, partial, download, outbox, topics>>
    BY <1>1 DEF TransportReady
  <2>3. DOMAIN inbox' = {1} /\ inbox'[1].type = "welcome"
    BY <2>2
  <2>4. Fresh' /\ Openings' = {}
    BY <2>1, <2>2, <2>3 DEF Fresh, Openings, IsOpening
  <2>5. DOMAIN outbox' = {}
    BY <2>1, <2>2 DEF Fresh
  <2>6. InstrumentsAsked' /\ BooksWait'
    BY <2>1, <2>2, <2>3, <2>4, <2>5, FreshFacts DEF InstrumentsAsked, BooksWait
  <2> QED
    BY <2>2, <2>3, <2>4, <2>6 DEF InSession
<1>2. CASE TransportLost \/ TransportClosed
  <2>1. Disconnected
    BY <1>2 DEF TransportLost, TransportClosed
  <2>2. /\ inbox' = <<>> /\ outbox' = <<>> /\ ready' = FALSE /\ download' = "UNDEFINED"
        /\ topics' = [t \in Topics |-> "off"] /\ partial' = [t \in Topics |-> FALSE]
    BY <2>1 DEF Disconnected, ClearedFlags
  <2>3. /\ topics'["instrument"] = "off" /\ topics'["orderBookL2"] = "off"
        /\ ~partial'["instrument"] /\ ~partial'["orderBookL2"]
    BY <2>2 DEF Topics
  <2>4. DOMAIN inbox' = {} /\ DOMAIN outbox' = {}
    BY <2>2
  <2>5. Fresh' /\ Openings' = {} /\ ~Greeting'
    BY <2>2, <2>4 DEF Fresh, Openings, Greeting
  <2>6. InstrumentsAsked' /\ BooksWait'
    BY <2>2, <2>3, <2>4, <2>5 DEF InstrumentsAsked, BooksWait
  <2> QED
    BY <2>2, <2>5, <2>6 DEF InSession
<1>3. CASE Handle
  BY <1>3, HandleSession
<1>4. CASE Answer \/ ExchangeRefuses
  BY <1>4, ExchangeSession
<1>5. CASE BookChanges
  <2>1. PICK book \in QuotedBook, action \in {"INSERT", "UPDATE", "DELETE"}, priced \in Priced :
          Tell("orderBookL2", OrderBookL2(action, Delta(action, priced, book), {}, book))
    BY <1>5 DEF BookChanges
  <2>2. Delta(action, priced, book) \in Rows
    BY BoundsAssumption, DeltaType
  <2>3. OrderBookL2(action, Delta(action, priced, book), {}, book) \in Message
    BY <2>2, MessageTypes DEF QuotedBook, Actions
  <2> QED
    BY <1>5, <2>1, <2>3, TellingSession DEF BookChanges, OrderBookL2, IsOpening, Topics
<1>6. CASE BookChangesUnseen
  <2>1. PICK book \in QuotedBook, action \in {"INSERT", "UPDATE", "DELETE"} :
          Tell("orderBookL2", OrderBookL2(action, [i \in {} |-> NoRow], Named(Changed(book)), book))
    BY <1>6 DEF BookChangesUnseen
  <2>2. [i \in {} |-> NoRow] \in Rows /\ Named(Changed(book)) \subseteq Symbols
    BY NoRowType, SymbolsAssumption DEF Rows, Named, Changed
  <2>3. OrderBookL2(action, [i \in {} |-> NoRow], Named(Changed(book)), book) \in Message
    BY <2>2, MessageTypes DEF QuotedBook, Actions
  <2> QED
    BY <1>6, <2>1, <2>3, TellingSession DEF BookChangesUnseen, OrderBookL2, IsOpening, Topics
<1>7. CASE SymbolListed
  <2>1. PICK s \in Symbols : Tell("instrument", Instrument("INSERT", {s}))
    BY <1>7 DEF SymbolListed
  <2>2. Instrument("INSERT", {s}) \in Message
    BY MessageTypes DEF Actions
  <2> QED
    BY <1>7, <2>1, <2>2, TellingSession DEF SymbolListed, Instrument, IsOpening, Topics
<1>8. CASE InstrumentChanges
  <2>1. PICK items \in SUBSET listed : Tell("instrument", Instrument("UPDATE", items))
    BY <1>8 DEF InstrumentChanges
  <2>2. Instrument("UPDATE", items) \in Message
    BY MessageTypes DEF Actions, TypeOK
  <2> QED
    BY <1>8, <2>1, <2>2, TellingSession DEF InstrumentChanges, Instrument, IsOpening, Topics
<1>9. CASE FundingPublished
  <2>1. PICK s \in listed :
          Tell("orderBookL2", [type |-> "funding", items |-> {s}, after |-> Told])
    BY <1>9 DEF FundingPublished
  <2>2. [type |-> "funding", items |-> {s}, after |-> Told] \in Message
    BY MessageTypes DEF TypeOK
  <2> QED
    BY <1>9, <2>1, <2>2, TellingSession DEF FundingPublished, IsOpening, Topics
<1>10. CASE UNCHANGED vars
  BY <1>10 DEF vars, gateway, wire, InSession, Greeting, Fresh, InstrumentsAsked,
               BooksWait, Openings
<1> QED
  BY <1>1, <1>2, <1>3, <1>4, <1>5, <1>6, <1>7, <1>8, <1>9, <1>10 DEF Next

LEMMA SessionInit == Init => InSession
<1> SUFFICES ASSUME Init PROVE InSession
  OBVIOUS
<1>1. /\ Fresh /\ inbox = <<>> /\ DOMAIN inbox = {} /\ DOMAIN outbox = {} /\ link = "down"
      /\ ready = FALSE
  BY DEF Init, Fresh
<1>2. ~Greeting /\ Openings = {}
  BY <1>1 DEF Greeting, Openings
<1> QED
  BY <1>1, <1>2, FreshFacts DEF InSession, InstrumentsAsked, BooksWait

(* The conditions of the two assert()s a release build leaves out are never  *)
(* met: the instruments are asked for once in a session and answered with    *)
(* one PARTIAL, and the download waits for order books only while it is not  *)
(* done.                                                                     *)
THEOREM AssertionsNeverFail == Spec => []AssertionsHold
<1>1. Init => InSession
  BY SessionInit
<1>2. TypeOK /\ TypeOK' /\ InSession /\ [Next]_vars => InSession'
  BY SessionNext
<1>3. InSession => AssertionsHold
  BY DEF InSession, InstrumentsAsked, AssertionsHold, Openings, IsOpening
<1>4. Spec => []TypeOK
  BY TypeCorrect
<1> QED
  BY <1>1, <1>2, <1>3, <1>4, PTL DEF Spec

-------------------------------------------------------------------------------
(* A symbol is introduced before its book: every row on inbox is of a symbol *)
(* that has reference data, was dropped, or is announced before it.          *)

Announced(m) ==
  IF m.type = "instrument" /\ m.action \in {"PARTIAL", "INSERT"} THEN m.items ELSE {}
Known(s, n) == \/ s \in reference \cup dropped
               \/ \E k \in DOMAIN inbox : k < n /\ s \in Announced(inbox[k])
Introduced ==
  /\ ListedIn(lob)
  /\ link = "up" /\ (partial["instrument"] \/ Openings # {}) =>
       \A s \in listed : Known(s, Len(inbox) + 1)
  /\ \A n \in DOMAIN inbox : inbox[n].type = "orderBookL2" =>
       \A i \in DOMAIN inbox[n].rows : Known(SymbolOf[i], n)
  /\ ReferenceBeforeBook

LEMMA ReadingIntroduced ==
  ASSUME TypeOK, InSession, Introduced, NEW type, Receive(type), exchange' = exchange,
         link' \in {link, "closing"},
         \/ partial'["instrument"] = partial["instrument"]
         \/ partial'["instrument"] /\ IsOpening(inbox[1]),
         reference \cup dropped \subseteq reference' \cup dropped',
         Announced(inbox[1]) \subseteq reference' \cup dropped',
         \A s \in Symbols \ (reference \cup dropped) : mbp'[s] = mbp[s]
  PROVE  Introduced'
<1>1. /\ 1 \in DOMAIN inbox
      /\ \A n \in DOMAIN inbox' : /\ n \in Nat /\ n >= 1 /\ n + 1 \in DOMAIN inbox
                                  /\ inbox'[n] = inbox[n + 1]
      /\ \A n \in DOMAIN inbox : /\ n \in Nat /\ n >= 1
                                 /\ n # 1 => /\ n - 1 \in DOMAIN inbox'
                                             /\ inbox'[n - 1] = inbox[n]
  BY Takes
<1>2. Len(inbox') \in Nat /\ Len(inbox) = Len(inbox') + 1
  BY DEF TypeOK, Receive
<1>3. ASSUME NEW s, NEW n \in Nat, Known(s, n + 1) PROVE Known(s, n)'
  <2>1. CASE s \in reference \cup dropped
    BY <2>1 DEF Known
  <2>2. ASSUME NEW k \in DOMAIN inbox, k < n + 1, s \in Announced(inbox[k]) PROVE Known(s, n)'
    <3>1. CASE k = 1
      BY <2>2, <3>1 DEF Known
    <3>2. CASE k # 1
      <4>1. k - 1 \in DOMAIN inbox' /\ inbox'[k - 1] = inbox[k] /\ k - 1 < n
        BY <1>1, <2>2, <3>2
      <4> QED
        BY <2>2, <4>1 DEF Known, Announced
    <3> QED
      BY <3>1, <3>2
  <2> QED
    BY <1>3, <2>1, <2>2 DEF Known
<1>4. partial'["instrument"] \/ Openings' # {} => partial["instrument"] \/ Openings # {}
  BY <1>1 DEF Openings
<1>5. link' = "up" => link = "up"
  OBVIOUS
<1>6. lob' = lob /\ listed' = listed
  BY DEF exchange
<1>7. \A n \in DOMAIN inbox' : inbox'[n].type = "orderBookL2" =>
        \A i \in DOMAIN inbox'[n].rows : Known(SymbolOf[i], n)'
  BY <1>1, <1>3 DEF Introduced
<1>8. link' = "up" /\ (partial'["instrument"] \/ Openings' # {}) =>
        \A s \in listed' : Known(s, Len(inbox) + 1)'
  <2> SUFFICES ASSUME link' = "up", partial'["instrument"] \/ Openings' # {}, NEW s \in listed
               PROVE  Known(s, Len(inbox) + 1)'
    BY <1>6
  <2>1. Known(s, Len(inbox) + 1)
    BY <1>4, <1>5 DEF Introduced
  <2> QED
    BY <1>2, <1>3, <2>1
<1>9. ReferenceBeforeBook'
  BY DEF Introduced, ReferenceBeforeBook
<1> QED
  BY <1>6, <1>7, <1>8, <1>9 DEF Introduced, ListedIn

LEMMA SendingIntroduced ==
  ASSUME TypeOK, InSession, Introduced, UNCHANGED <<link, partial, reference, dropped, mbp>>,
         NEW m \in Message, inbox' = Append(inbox, m), link = "up",
         ListedIn(lob)', \A s \in listed' : s \in listed \/ s \in Announced(m),
         IsOpening(m) => listed' \subseteq Announced(m),
         m.type = "orderBookL2" =>
           partial["instrument"] /\ \A i \in DOMAIN m.rows : SymbolOf[i] \in listed
  PROVE  Introduced'
<1>0. PICK last \in Nat : last = Len(inbox) + 1
  BY Grows DEF TypeOK
<1>1. /\ DOMAIN inbox' = DOMAIN inbox \cup {last}
      /\ inbox'[last] = m /\ Len(inbox') = last
      /\ \A n \in DOMAIN inbox : inbox'[n] = inbox[n]
      /\ \A n \in DOMAIN inbox : n \in Nat /\ n < last
  BY <1>0, Grows DEF TypeOK
<1>2. ASSUME NEW s, NEW n \in Nat, Known(s, n) PROVE Known(s, n)'
  BY <1>1, <1>2 DEF Known, Announced
<1>3. ASSUME NEW s, Known(s, last) \/ s \in Announced(m)
      PROVE  Known(s, last + 1)'
  <2>1. CASE s \in Announced(m)
    BY <1>1, <2>1 DEF Known, Announced
  <2>2. CASE Known(s, last)
    BY <1>1, <2>2 DEF Known, Announced
  <2> QED
    BY <1>3, <2>1, <2>2
<1>4. link' = "up" /\ (partial'["instrument"] \/ Openings' # {}) =>
        \A s \in listed' : Known(s, last + 1)'
  <2>1. Openings' # {} => Openings # {} \/ IsOpening(m)
    BY <1>1 DEF Openings
  <2>2. CASE IsOpening(m)
    BY <1>3, <2>2
  <2>3. CASE partial["instrument"] \/ Openings # {}
    BY <1>0, <1>3, <2>3 DEF Introduced
  <2> QED
    BY <2>1, <2>2, <2>3
<1>5. Len(inbox') + 1 = last + 1
  BY <1>1
<1>6. \A n \in DOMAIN inbox' : inbox'[n].type = "orderBookL2" =>
        \A i \in DOMAIN inbox'[n].rows : Known(SymbolOf[i], n)'
  <2>1. ASSUME NEW n \in DOMAIN inbox, inbox'[n].type = "orderBookL2",
               NEW i \in DOMAIN inbox'[n].rows
        PROVE  Known(SymbolOf[i], n)'
    BY <1>1, <1>2, <2>1 DEF Introduced
  <2>2. ASSUME m.type = "orderBookL2", NEW i \in DOMAIN m.rows
        PROVE  Known(SymbolOf[i], last)'
    <3>1. Known(SymbolOf[i], last)
      BY <1>0, <2>2 DEF Introduced
    <3> QED
      BY <1>1, <1>2, <3>1
  <2> QED
    BY <1>1, <2>1, <2>2
<1>7. ReferenceBeforeBook'
  BY DEF Introduced, ReferenceBeforeBook
<1> QED
  BY <1>4, <1>5, <1>6, <1>7 DEF Introduced

LEMMA PublishesIntroduced ==
  ASSUME TypeOK, Introduced, Receive("orderBookL2"),
         NEW rows \in SUBSET DOMAIN Head(inbox).rows,
         NEW groups \in SUBSET Named(Kept(Head(inbox))),
         NEW rejected \in SUBSET groups, Process(Head(inbox), rows, groups, rejected)
  PROVE  \A s \in Symbols \ (reference \cup dropped) : mbp'[s] = mbp[s]
<1>1. /\ 1 \in DOMAIN inbox /\ inbox[1] = Head(inbox) /\ inbox[1].type = "orderBookL2"
      /\ \A n \in DOMAIN inbox : n \in Nat /\ n >= 1
  BY Takes
<1>2. \A s \in groups : s \in reference \cup dropped
  <2> SUFFICES ASSUME NEW s \in groups PROVE s \in reference \cup dropped
    OBVIOUS
  <2>1. PICK i \in DOMAIN inbox[1].rows : s = SymbolOf[i]
    BY <1>1 DEF Named, Kept
  <2>2. Known(s, 1)
    BY <1>1, <2>1 DEF Introduced
  <2>3. \A k \in DOMAIN inbox : ~(k < 1)
    BY <1>1
  <2> QED
    BY <2>2, <2>3 DEF Known
<1> QED
  BY <1>2 DEF Process

LEMMA HandleIntroduced ==
  ASSUME TypeOK, InSession, Introduced, Handle
  PROVE  Introduced'
<1>1. exchange' = exchange
  BY DEF Handle, OnWelcome, OnSubscribe, OnError, OnUnsubscribe, OnInstrumentPartial,
         OnInstrumentUpdate, OnInstrumentIgnored, OnFunding, OnOrderBookL2Early,
         OnOrderBookL2, OnOrderBookL2Unpriced, exchange
<1>2. \A b : [partial EXCEPT !["orderBookL2"] = b]["instrument"] = partial["instrument"]
  BY DEF TypeOK, Topics
<1>3. CASE OnWelcome \/ OnSubscribe \/ OnError \/ OnUnsubscribe \/ OnFunding
           \/ OnOrderBookL2Early
  <2>1. PICK type : Receive(type) /\ type # "instrument"
    BY <1>3 DEF OnWelcome, OnSubscribe, OnError, OnUnsubscribe, OnFunding, OnOrderBookL2Early
  <2>2. Announced(inbox[1]) = {}
    BY <2>1, Takes DEF Announced
  <2>3. UNCHANGED <<link, partial, reference, dropped, mbp>>
    BY <1>3 DEF OnWelcome, OnSubscribe, OnError, OnUnsubscribe, OnFunding,
                OnOrderBookL2Early, gateway, instruments
  <2> QED
    BY <1>1, <2>1, <2>2, <2>3, ReadingIntroduced
<1>4. CASE OnInstrumentPartial
  <2>1. /\ Receive("instrument") /\ Head(inbox).action = "PARTIAL"
        /\ partial' = [partial EXCEPT !["instrument"] = TRUE]
        /\ reference' = reference \cup Head(inbox).items
        /\ reference \cup dropped \subseteq reference' \cup dropped'
        /\ UNCHANGED <<link, mbp>>
    BY <1>4 DEF OnInstrumentPartial
  <2>2. /\ partial'["instrument"] /\ IsOpening(inbox[1])
        /\ Announced(inbox[1]) \subseteq reference'
    BY <2>1, Takes DEF IsOpening, TypeOK, Topics, Announced
  <2> QED
    BY <1>1, <2>1, <2>2, ReadingIntroduced
<1>5. CASE OnInstrumentUpdate
  <2>1. /\ Receive("instrument") /\ Head(inbox).action = "UPDATE"
        /\ reference \subseteq reference' /\ UNCHANGED <<link, partial, mbp, dropped>>
    BY <1>5 DEF OnInstrumentUpdate, gateway
  <2>2. Announced(inbox[1]) = {}
    BY <2>1, Takes DEF Announced
  <2> QED
    BY <1>1, <2>1, <2>2, ReadingIntroduced
<1>6. CASE OnInstrumentIgnored
  <2>1. /\ Receive("instrument") /\ UNCHANGED <<link, partial, mbp, reference>>
        /\ Head(inbox).action = "PARTIAL" => partial["instrument"]
        /\ dropped' = IF Head(inbox).action = "INSERT" THEN dropped \cup Head(inbox).items
                                                       ELSE dropped
    BY <1>6 DEF OnInstrumentIgnored, gateway
  <2>2. /\ 1 \in DOMAIN inbox /\ inbox[1] = Head(inbox) /\ inbox[1].type = "instrument"
    BY <2>1, Takes
  <2>3. inbox[1].action # "PARTIAL"
    BY <2>1, <2>2 DEF InSession, InstrumentsAsked, Openings, IsOpening
  <2>4. Announced(inbox[1]) \subseteq dropped'
    BY <2>1, <2>2, <2>3 DEF Announced
  <2> QED
    BY <1>1, <2>1, <2>4, ReadingIntroduced
<1>7. ASSUME OnOrderBookL2 \/ OnOrderBookL2Unpriced
      PROVE  /\ \A s \in Symbols \ (reference \cup dropped) : mbp'[s] = mbp[s]
             /\ partial'["instrument"] = partial["instrument"]
  <2>1. Receive("orderBookL2")
    BY <1>7 DEF OnOrderBookL2, OnOrderBookL2Unpriced
  <2>2. Kept(Head(inbox)) \subseteq DOMAIN Head(inbox).rows
    BY DEF Kept
  <2>3. CASE OnOrderBookL2
    BY <1>2, <2>1, <2>2, <2>3, PublishesIntroduced DEF OnOrderBookL2
  <2>4. CASE OnOrderBookL2Unpriced
    <3>1. PICK i \in Unpriced(Head(inbox)), groups \in SUBSET Named(Kept(Head(inbox))),
               own \in SUBSET Kept(Head(inbox)), rejected \in SUBSET Named(Kept(Head(inbox))) :
            rejected \subseteq groups /\ StopAt(Head(inbox), i, groups, own, rejected)
      BY <2>4 DEF OnOrderBookL2Unpriced
    <3>2. Process(Head(inbox), own \cup {j \in Kept(Head(inbox)) : SymbolOf[j] \in groups},
                  groups, rejected)
      BY <3>1 DEF StopAt
    <3>3. \E b : partial' = [partial EXCEPT !["orderBookL2"] = b]
      BY <3>1, Zenon DEF StopAt
    <3>4. own \cup {j \in Kept(Head(inbox)) : SymbolOf[j] \in groups}
            \in SUBSET DOMAIN Head(inbox).rows
      BY <2>2
    <3>5. \A s \in Symbols \ (reference \cup dropped) : mbp'[s] = mbp[s]
      BY <2>1, <3>1, <3>2, <3>4, PublishesIntroduced
    <3>6. partial'["instrument"] = partial["instrument"]
      BY <1>2, <3>3
    <3> QED
      BY <3>5, <3>6
  <2> QED
    BY <1>7, <2>3, <2>4
<1>8. CASE OnOrderBookL2 \/ OnOrderBookL2Unpriced
  <2>1. /\ Receive("orderBookL2") /\ link' \in {link, "closing"}
        /\ UNCHANGED <<reference, dropped>>
    BY <1>8 DEF OnOrderBookL2, OnOrderBookL2Unpriced, instruments
  <2>2. Announced(inbox[1]) = {}
    BY <2>1, Takes DEF Announced
  <2> QED
    BY <1>1, <1>7, <1>8, <2>1, <2>2, ReadingIntroduced
<1> QED
  BY <1>3, <1>4, <1>5, <1>6, <1>8 DEF Handle

LEMMA TellingIntroduced ==
  ASSUME TypeOK, InSession, Introduced, NEW topic \in Topics, NEW m \in Message,
         Tell(topic, m), UNCHANGED <<gateway, reference, dropped, mbp, link, outbox, topics>>,
         ~IsOpening(m), m.type = "orderBookL2" => topic = "orderBookL2",
         ListedIn(lob)', \A s \in listed' : s \in listed \/ s \in Announced(m),
         listed' # listed => topic = "instrument",
         m.type = "orderBookL2" => \A i \in DOMAIN m.rows : SymbolOf[i] \in listed
  PROVE  Introduced'
<1>1. UNCHANGED partial
  BY DEF gateway
<1>2. CASE link = "up" /\ topics[topic] # "off" /\ inbox' = Append(inbox, m)
  <2>1. m.type = "orderBookL2" => partial["instrument"]
    BY <1>2 DEF InSession, BooksWait
  <2> QED
    BY <1>1, <1>2, <2>1, SendingIntroduced
<1>3. CASE ~(link = "up" /\ topics[topic] # "off") /\ UNCHANGED inbox
  <2>1. link = "up" /\ (partial["instrument"] \/ Openings # {}) => listed' = listed
    BY <1>3 DEF InSession, InstrumentsAsked
  <2> QED
    BY <1>1, <1>3, <2>1 DEF Introduced, Known, Openings, ReferenceBeforeBook
<1> QED
  BY <1>2, <1>3 DEF Tell

LEMMA AnswerIntroduced ==
  ASSUME TypeOK, InSession, Introduced, Answer \/ ExchangeRefuses
  PROVE  Introduced'
<1>1. /\ exchange' = exchange /\ link = "up"
      /\ UNCHANGED <<link, partial, reference, dropped, mbp>>
  BY DEF Answer, ExchangeSubscribes, ExchangeUnsubscribes, InstrumentPartial,
         OrderBookL2Partial, ExchangeRefuses, Send, gateway, books, instruments
<1>2. ListedIn(lob)' /\ listed' = listed
  BY <1>1 DEF exchange, Introduced, ListedIn
<1>3. \A x : inbox \o <<x>> = Append(inbox, x)
  BY DEF TypeOK
<1>4. ASSUME NEW m \in Message, inbox' = Append(inbox, m),
             m.type \in {"subscribe", "unsubscribe", "error"}
      PROVE  Introduced'
  <2>1. ~IsOpening(m) /\ m.type # "orderBookL2"
    BY <1>4 DEF IsOpening
  <2> QED
    BY <1>1, <1>2, <1>4, <2>1, SendingIntroduced
<1>5. CASE ExchangeSubscribes
  <2> DEFINE m == [type |-> "subscribe", topic |-> Head(outbox).topic,
                   after |-> IF Head(outbox).topic = "orderBookL2" THEN lob ELSE Told]
  <2>1. Head(outbox).topic \in Topics
    BY <1>5, Serves DEF ExchangeSubscribes, Request
  <2>2. (IF Head(outbox).topic = "orderBookL2" THEN lob ELSE Told) \in Book
    BY ToldType DEF TypeOK
  <2>3. m \in Message
    BY <2>1, <2>2, MessageTypes
  <2>4. inbox' = Append(inbox, m)
    BY <1>3, <1>5 DEF ExchangeSubscribes, Send
  <2> QED
    BY <1>4, <2>3, <2>4
<1>6. CASE ExchangeUnsubscribes \/ ExchangeRefuses
  <2>1. PICK type \in {"unsubscribe", "error"} : inbox' = Append(inbox, Plain(type))
    BY <1>3, <1>6 DEF ExchangeUnsubscribes, ExchangeRefuses, Send
  <2>2. Plain(type) \in Message /\ Plain(type).type = type
    BY MessageTypes DEF Plain
  <2> QED
    BY <1>4, <2>1, <2>2
<1>7. CASE InstrumentPartial
  <2>1. inbox' = Append(inbox, Instrument("PARTIAL", listed))
    BY <1>3, <1>7 DEF InstrumentPartial, Send
  <2>2. Instrument("PARTIAL", listed) \in Message
    BY MessageTypes DEF Actions, TypeOK
  <2>3. /\ Instrument("PARTIAL", listed).type = "instrument"
        /\ Announced(Instrument("PARTIAL", listed)) = listed
    BY DEF Instrument, Announced
  <2> QED
    BY <1>1, <1>2, <2>1, <2>2, <2>3, SendingIntroduced
<1>8. CASE OrderBookL2Partial
  <2> DEFINE m == OrderBookL2("PARTIAL", Snapshot, {}, lob)
  <2>1. inbox' = Append(inbox, m)
    BY <1>3, <1>8 DEF OrderBookL2Partial, Send
  <2>2. m \in Message
    BY MessageTypes, SnapshotType DEF Actions, TypeOK
  <2>3. /\ m.type = "orderBookL2" /\ ~IsOpening(m)
        /\ \A i \in DOMAIN m.rows : i \in Ids /\ lob[i] # NoRow
    BY DEF OrderBookL2, Snapshot, IsOpening, RestsIn
  <2>4. \A i \in DOMAIN m.rows : SymbolOf[i] \in listed
    <3> SUFFICES ASSUME NEW i \in DOMAIN m.rows PROVE SymbolOf[i] \in listed
      OBVIOUS
    <3>2. i \in Ids /\ lob[i] # NoRow
      BY <2>3
    <3>1. lob[i] # NoRow => SymbolOf[i] \in listed
      BY <3>2 DEF Introduced, ListedIn, RestsIn
    <3> QED
      BY <3>1, <3>2
  <2>5. partial["instrument"]
    BY <1>8 DEF OrderBookL2Partial, InSession, BooksWait
  <2> QED
    BY <1>1, <1>2, <2>1, <2>2, <2>3, <2>4, <2>5, SendingIntroduced
<1> QED
  BY <1>5, <1>6, <1>7, <1>8 DEF Answer

LEMMA NewsIntroduced ==
  ASSUME TypeOK, InSession, Introduced,
         \/ BookChanges \/ BookChangesUnseen \/ SymbolListed
         \/ InstrumentChanges \/ FundingPublished
  PROVE  Introduced'
<1>1. UNCHANGED <<gateway, reference, dropped, mbp, link, outbox, topics>>
      /\ "instrument" \in Topics /\ "orderBookL2" \in Topics
  BY DEF BookChanges, BookChangesUnseen, SymbolListed, InstrumentChanges,
         FundingPublished, books, instruments, Topics
<1>2. ASSUME NEW book, ListedIn(book), NEW i \in Changed(book)
      PROVE  SymbolOf[i] \in listed
  <2>1. i \in Ids /\ (RestsIn(book, i) \/ RestsIn(lob, i))
    BY <1>2 DEF Changed, RestsIn
  <2> QED
    BY <1>2, <2>1 DEF Introduced, ListedIn
<1>3. CASE BookChanges
  <2>1. PICK book \in QuotedBook, action \in {"INSERT", "UPDATE", "DELETE"}, priced \in Priced :
          /\ ListedIn(book) /\ lob' = book
          /\ Tell("orderBookL2", OrderBookL2(action, Delta(action, priced, book), {}, book))
    BY <1>3 DEF BookChanges
  <2> DEFINE m == OrderBookL2(action, Delta(action, priced, book), {}, book)
  <2>2. Delta(action, priced, book) \in Rows /\ book \in Book
    BY BoundsAssumption, DeltaType
  <2>3. m \in Message
    BY <2>2, MessageTypes DEF Actions
  <2>4. m.type = "orderBookL2" /\ ~IsOpening(m) /\ DOMAIN m.rows = Changed(book)
    BY DEF OrderBookL2, Delta, IsOpening
  <2>5. ListedIn(lob)' /\ listed' = listed
    BY <1>3, <2>1 DEF BookChanges, ListedIn
  <2> QED
    BY <1>1, <1>2, <2>1, <2>3, <2>4, <2>5, TellingIntroduced
<1>4. CASE BookChangesUnseen
  <2>1. PICK book \in QuotedBook, action \in {"INSERT", "UPDATE", "DELETE"} :
          /\ ListedIn(book) /\ lob' = book
          /\ Tell("orderBookL2", OrderBookL2(action, [i \in {} |-> NoRow], Named(Changed(book)), book))
    BY <1>4 DEF BookChangesUnseen
  <2> DEFINE m == OrderBookL2(action, [i \in {} |-> NoRow], Named(Changed(book)), book)
  <2>2. [i \in {} |-> NoRow] \in Rows /\ Named(Changed(book)) \subseteq Symbols /\ book \in Book
    BY NoRowType, SymbolsAssumption DEF Rows, Named, Changed, QuotedBook
  <2>3. m \in Message
    BY <2>2, MessageTypes DEF Actions
  <2>4. m.type = "orderBookL2" /\ ~IsOpening(m) /\ DOMAIN m.rows = {}
    BY DEF OrderBookL2, IsOpening
  <2>5. ListedIn(lob)' /\ listed' = listed
    BY <1>4, <2>1 DEF BookChangesUnseen, ListedIn
  <2> QED
    BY <1>1, <2>1, <2>3, <2>4, <2>5, TellingIntroduced
<1>5. CASE SymbolListed
  <2>1. PICK s \in Symbols : listed' = listed \cup {s} /\ Tell("instrument", Instrument("INSERT", {s}))
    BY <1>5 DEF SymbolListed
  <2>2. Instrument("INSERT", {s}) \in Message
    BY MessageTypes DEF Actions
  <2>3. /\ Instrument("INSERT", {s}).type = "instrument" /\ ~IsOpening(Instrument("INSERT", {s}))
        /\ Announced(Instrument("INSERT", {s})) = {s}
    BY DEF Instrument, IsOpening, Announced
  <2>4. ListedIn(lob)'
    BY <1>5, <2>1 DEF SymbolListed, Introduced, ListedIn
  <2> QED
    BY <1>1, <2>1, <2>2, <2>3, <2>4, TellingIntroduced
<1>6. CASE InstrumentChanges
  <2>1. PICK items \in SUBSET listed : Tell("instrument", Instrument("UPDATE", items))
    BY <1>6 DEF InstrumentChanges
  <2>2. Instrument("UPDATE", items) \in Message
    BY MessageTypes DEF Actions, TypeOK
  <2>3. /\ Instrument("UPDATE", items).type = "instrument"
        /\ ~IsOpening(Instrument("UPDATE", items))
    BY DEF Instrument, IsOpening
  <2>4. ListedIn(lob)' /\ listed' = listed
    BY <1>6 DEF InstrumentChanges, exchange, Introduced, ListedIn
  <2> QED
    BY <1>1, <2>1, <2>2, <2>3, <2>4, TellingIntroduced
<1>7. CASE FundingPublished
  <2>1. PICK s \in listed :
          Tell("orderBookL2", [type |-> "funding", items |-> {s}, after |-> Told])
    BY <1>7 DEF FundingPublished
  <2>2. [type |-> "funding", items |-> {s}, after |-> Told] \in Message
    BY MessageTypes DEF TypeOK
  <2>3. ListedIn(lob)' /\ listed' = listed
    BY <1>7 DEF FundingPublished, exchange, Introduced, ListedIn
  <2> QED
    BY <1>1, <2>1, <2>2, <2>3, TellingIntroduced DEF IsOpening
<1> QED
  BY <1>3, <1>4, <1>5, <1>6, <1>7

LEMMA IntroducedNext ==
  ASSUME TypeOK, InSession, Introduced, [Next]_vars
  PROVE  Introduced'
<1>1. CASE TransportReady
  <2>1. /\ inbox' = <<[type |-> "welcome", after |-> at]>>
        /\ UNCHANGED <<partial, lob, listed, reference, dropped, mbp>>
    BY <1>1 DEF TransportReady, books, instruments, exchange
  <2>2. DOMAIN inbox' = {1} /\ inbox'[1].type = "welcome" /\ ~partial'["instrument"]
    BY <1>1, <2>1, FreshFacts DEF InSession, TransportReady
  <2>3. Openings' = {}
    BY <2>2 DEF Openings, IsOpening
  <2> QED
    BY <2>1, <2>2, <2>3 DEF Introduced, ListedIn, ReferenceBeforeBook
<1>2. CASE TransportLost \/ TransportClosed
  <2>1. /\ link' = "down" /\ inbox' = <<>> /\ UNCHANGED <<lob, listed, reference, dropped, mbp>>
    BY <1>2 DEF TransportLost, TransportClosed, Disconnected, instruments, exchange
  <2>2. DOMAIN inbox' = {}
    BY <2>1
  <2> QED
    BY <2>1, <2>2 DEF Introduced, ListedIn, ReferenceBeforeBook
<1>3. CASE UNCHANGED vars
  BY <1>3 DEF vars, gateway, books, instruments, wire, exchange, Introduced, ListedIn,
              Known, Openings, ReferenceBeforeBook
<1> QED
  BY <1>1, <1>2, <1>3, HandleIntroduced, AnswerIntroduced, NewsIntroduced DEF Next

(* No book is published before the reference data of its symbol, except for  *)
(* a symbol whose listing the gateway ignored: the instruments' PARTIAL      *)
(* comes before any row of an order book in every session, and the products  *)
(* outlive the session.                                                      *)
THEOREM IntroducedFirst == Spec => []ReferenceBeforeBook
<1>1. Init => InSession /\ Introduced
  <2> SUFFICES ASSUME Init PROVE Introduced
    BY SessionInit
  <2>1. /\ ListedIn(lob) /\ DOMAIN inbox = {} /\ link = "down"
        /\ mbp = [s \in Symbols |-> EmptyDepth]
    BY DEF Init
  <2> QED
    BY <2>1 DEF Introduced, ReferenceBeforeBook
<1>2. TypeOK /\ TypeOK' /\ InSession /\ Introduced /\ [Next]_vars => (InSession /\ Introduced)'
  BY SessionNext, IntroducedNext
<1>3. Introduced => ReferenceBeforeBook
  BY DEF Introduced
<1>4. Spec => []TypeOK
  BY TypeCorrect
<1> QED
  BY <1>1, <1>2, <1>3, <1>4, PTL DEF Spec

===============================================================================
