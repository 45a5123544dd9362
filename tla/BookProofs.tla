------------------------------ MODULE BookProofs ------------------------------
(***************************************************************************)
(* The books shown by MarketData are the exchange's books, for any set of  *)
(* symbols, ids, prices and quantities, any number of sessions and any     *)
(* refusals and gaps, as long as an id keeps its price (StableQuotes).     *)
(* From the same invariant, the session implements BookFeed; a symbol that *)
(* is discarded is never shown; and while no row is left out of the stream *)
(* the connection is never closed and READY is complete.                   *)
(***************************************************************************)
EXTENDS MarketDataProofs

-------------------------------------------------------------------------------
(* Quotes and books.                                                       *)

LEMMA OnePrice ==
  ASSUME StableQuotes, NEW i \in Ids, NEW p \in Quotes[i], NEW q \in Quotes[i]
  PROVE  p = q
BY DEF StableQuotes

LEMMA OneId ==
  ASSUME StableQuotes, NEW i \in Ids, NEW j \in Ids, SymbolOf[i] = SymbolOf[j],
         NEW p, p \in Quotes[i], p \in Quotes[j]
  PROVE  i = j
BY DEF StableQuotes

LEMMA QuotedRow ==
  ASSUME NEW book \in QuotedBook, NEW i \in Ids
  PROVE  /\ book[i] \in Row
         /\ RestsIn(book, i) => /\ book[i].price \in Quotes[i]
                                /\ book[i].price \in Prices
                                /\ book[i].price # NoPrice
         /\ ~RestsIn(book, i) => book[i] = NoRow
<1>1. book[i] \in Row
  BY DEF QuotedBook, Book
<1>2. RestsIn(book, i) => book[i].price \in Quotes[i]
  BY DEF QuotedBook
<1>3. Quotes[i] \subseteq Prices /\ NoPrice \notin Prices
  BY QuotesAssumption, PricesAssumption DEF NoPrice
<1> QED
  BY <1>1, <1>2, <1>3 DEF RestsIn

LEMMA LevelFacts ==
  ASSUME NEW book \in QuotedBook, NEW s \in Symbols, NEW p \in Prices,
         NEW i \in LevelAt(book, s, p)
  PROVE  i \in Ids /\ SymbolOf[i] = s /\ RestsIn(book, i)
         /\ book[i].price = p /\ p \in Quotes[i]
<1>1. i \in Ids /\ SymbolOf[i] = s /\ book[i].price = p
  BY DEF LevelAt
<1>2. p # NoPrice
  BY PricesAssumption DEF NoPrice
<1>3. RestsIn(book, i)
  BY <1>1, <1>2 DEF RestsIn, NoRow
<1> QED
  BY <1>1, <1>3, QuotedRow

LEMMA ByPriceAt ==
  ASSUME StableQuotes, NEW book \in QuotedBook, NEW i \in Ids, RestsIn(book, i)
  PROVE  ByPrice(book, SymbolOf[i])[book[i].price] = book[i].size
<1> DEFINE s == SymbolOf[i]
           p == book[i].price
           c == CHOOSE j \in LevelAt(book, s, p) : TRUE
<1>1. p \in Prices /\ p \in Quotes[i] /\ s \in Symbols
  BY QuotedRow, SymbolsAssumption
<1>2. i \in LevelAt(book, s, p)
  BY DEF LevelAt
<1>3. c \in LevelAt(book, s, p)
  BY <1>2
<1>4. c = i
  BY <1>1, <1>3, LevelFacts, OneId
<1> QED
  BY <1>1, <1>2, <1>4 DEF ByPrice

LEMMA ByPriceNone ==
  ASSUME NEW book, NEW s, NEW p \in Prices, LevelAt(book, s, p) = {}
  PROVE  ByPrice(book, s)[p] = 0
BY DEF ByPrice

LEMMA ByPriceDomain ==
  ASSUME NEW book, NEW s
  PROVE  ByPrice(book, s) = [p \in Prices |-> ByPrice(book, s)[p]]
BY DEF ByPrice

-------------------------------------------------------------------------------
(* An incremental message carries a symbol from one book to the next.      *)

Carries(m, prev, s) ==
  /\ m.type = "orderBookL2" /\ m.action # "PARTIAL"
  /\ Describes(m, prev)
  /\ prev \in QuotedBook /\ m.after \in QuotedBook
  /\ s \in Symbols /\ s \notin m.lost /\ s \notin Discarded
  /\ \A i \in Ids : SymbolOf[i] = s /\ RestsIn(prev, i)
                    => cache[i] = prev[i].price

LEMMA CarriedRow ==
  ASSUME StableQuotes, TypeOK, NEW m \in Message, NEW prev, NEW s,
         Carries(m, prev, s), NEW i \in Kept(m), SymbolOf[i] = s
  PROVE  /\ i \in Ids
         /\ PriceOf(m, i) \in Quotes[i]
         /\ m.rows[i].size = m.after[i].size
         /\ RestsIn(m.after, i) => m.after[i].price = PriceOf(m, i)
         /\ RestsIn(prev, i) => prev[i].price = PriceOf(m, i)
<1>1. i \in Ids /\ i \in DOMAIN m.rows
  BY KeptNamed DEF Carries
<1>2. prev \in QuotedBook /\ m.after \in QuotedBook
  BY DEF Carries
<1>3. CASE m.action = "INSERT"
  <2>1. Inserts(m, i, prev)
    BY <1>1, <1>3 DEF Carries, Describes
  <2>2. PriceOf(m, i) = m.after[i].price
    BY <1>3, <2>1 DEF PriceOf, Resolved, Inserts
  <2> QED
    BY <1>1, <1>2, <2>1, <2>2, QuotedRow DEF Inserts
<1>4. CASE m.action = "UPDATE"
  <2>1. Updates(m, i, prev)
    BY <1>1, <1>4 DEF Carries, Describes
  <2>2. cache[i] = prev[i].price /\ cache[i] # NoPrice
    BY <1>1, <1>2, <2>1, QuotedRow DEF Carries, Updates
  <2>3. PriceOf(m, i) = prev[i].price
    BY <1>4, <2>2 DEF PriceOf, Resolved
  <2> QED
    BY <1>1, <1>2, <2>1, <2>3, QuotedRow DEF Updates
<1>5. CASE m.action = "DELETE"
  <2>1. Deletes(m, i, prev)
    BY <1>1, <1>5 DEF Carries, Describes
  <2>2. cache[i] = prev[i].price /\ cache[i] # NoPrice
    BY <1>1, <1>2, <2>1, QuotedRow DEF Carries, Deletes
  <2>3. PriceOf(m, i) = prev[i].price
    BY <1>5, <2>2 DEF PriceOf, Resolved
  <2>4. m.after[i].size = 0
    BY <1>1, <1>2, <2>1, QuotedRow DEF Deletes, NoRow
  <2> QED
    BY <1>1, <1>2, <2>1, <2>3, <2>4, QuotedRow DEF Deletes
<1> QED
  BY <1>3, <1>4, <1>5 DEF Carries, Describes

(* A resting row whose level no kept row of the message names is the same  *)
(* before and after.                                                       *)
LEMMA UntouchedRow ==
  ASSUME StableQuotes, TypeOK, NEW m \in Message, NEW prev, NEW s,
         Carries(m, prev, s), NEW i \in Ids, SymbolOf[i] = s, i \notin Kept(m)
  PROVE  prev[i] = m.after[i]
<1>1. prev[i] # m.after[i] => i \in DOMAIN m.rows
  BY DEF Carries, Describes
<1> QED
  BY <1>1 DEF Kept, Carries

LEMMA UntouchedLevel ==
  ASSUME StableQuotes, TypeOK, NEW m \in Message, NEW prev, NEW s,
         Carries(m, prev, s), NEW p \in Prices, RowsAt(m, s, p) = {}
  PROVE  ByPrice(prev, s)[p] = ByPrice(m.after, s)[p]
<1>1. prev \in QuotedBook /\ m.after \in QuotedBook /\ s \in Symbols
  BY DEF Carries
<1>2. ASSUME NEW i \in LevelAt(prev, s, p) PROVE i \notin Kept(m)
  BY <1>1, LevelFacts, CarriedRow DEF RowsAt
<1>3. ASSUME NEW i \in LevelAt(m.after, s, p) PROVE i \notin Kept(m)
  BY <1>1, LevelFacts, CarriedRow DEF RowsAt
<1>4. \A i \in LevelAt(prev, s, p) \cup LevelAt(m.after, s, p) :
        prev[i] = m.after[i]
  BY <1>1, <1>2, <1>3, LevelFacts, UntouchedRow
<1>5. LevelAt(prev, s, p) = LevelAt(m.after, s, p)
  BY <1>4 DEF LevelAt
<1> DEFINE c == CHOOSE i \in LevelAt(prev, s, p) : TRUE
<1>6. LevelAt(prev, s, p) # {} => prev[c] = m.after[c]
  BY <1>4
<1> QED
  BY <1>5, <1>6 DEF ByPrice

LEMMA CarriedBook ==
  ASSUME StableQuotes, TypeOK, NEW m \in Message, NEW prev, NEW s,
         Carries(m, prev, s), mbp[s] = ByPrice(prev, s)
  PROVE  /\ Published(m, s) = ByPrice(m.after, s)
         /\ s \notin Named(Kept(m)) => mbp[s] = ByPrice(m.after, s)
<1>0. prev \in QuotedBook /\ m.after \in QuotedBook /\ s \in Symbols
      /\ m.action # "PARTIAL" /\ m.type = "orderBookL2"
  BY DEF Carries
<1>1. ASSUME NEW p \in Prices
      PROVE  Published(m, s)[p] = ByPrice(m.after, s)[p]
  <2>1. CASE RowsAt(m, s, p) = {}
    <3>1. Published(m, s)[p] = mbp[s][p]
      BY <1>0, <2>1 DEF Published
    <3> QED
      BY <2>1, <3>1, UntouchedLevel
  <2>2. CASE RowsAt(m, s, p) # {}
    <3> DEFINE c == CHOOSE i \in RowsAt(m, s, p) : TRUE
    <3>1. c \in RowsAt(m, s, p)
      BY <2>2
    <3>2. c \in Kept(m) /\ SymbolOf[c] = s /\ PriceOf(m, c) = p
      BY <3>1 DEF RowsAt
    <3>3. Published(m, s)[p] = m.rows[c].size
      BY <2>2 DEF Published
    <3> HIDE DEF c
    <3>4. /\ c \in Ids /\ p \in Quotes[c]
          /\ m.rows[c].size = m.after[c].size
          /\ RestsIn(m.after, c) => m.after[c].price = p
      BY <3>2, CarriedRow
    <3>5. CASE RestsIn(m.after, c)
      BY <1>0, <3>2, <3>3, <3>4, <3>5, ByPriceAt
    <3>6. CASE ~RestsIn(m.after, c)
      <4>1. LevelAt(m.after, s, p) = {}
        <5> SUFFICES ASSUME NEW j \in LevelAt(m.after, s, p) PROVE FALSE
          OBVIOUS
        <5>1. j \in Ids /\ SymbolOf[j] = s /\ RestsIn(m.after, j)
              /\ p \in Quotes[j]
          BY <1>0, LevelFacts
        <5>2. j = c
          BY <3>2, <3>4, <5>1, OneId
        <5> QED
          BY <3>6, <5>1, <5>2
      <4>2. m.after[c].size = 0
        BY <1>0, <3>4, <3>6, QuotedRow DEF NoRow
      <4> QED
        BY <3>3, <3>4, <4>1, <4>2, ByPriceNone
    <3> QED
      BY <3>5, <3>6
  <2> QED
    BY <2>1, <2>2
<1>2. Published(m, s) = ByPrice(m.after, s)
  BY <1>1 DEF Published, ByPrice
<1>3. ASSUME s \notin Named(Kept(m)) PROVE mbp[s] = ByPrice(m.after, s)
  <2>1. \A p \in Prices : RowsAt(m, s, p) = {}
    BY <1>3 DEF RowsAt, Named
  <2>2. \A p \in Prices : ByPrice(prev, s)[p] = ByPrice(m.after, s)[p]
    BY <2>1, UntouchedLevel
  <2> QED
    BY <2>2 DEF ByPrice
<1> QED
  BY <1>2, <1>3

(* ... and keeps the price cache right for it.                             *)
LEMMA CarriedCache ==
  ASSUME StableQuotes, TypeOK, CacheSound, NEW m \in Message, NEW prev, NEW s,
         Carries(m, prev, s), NEW i \in Ids, SymbolOf[i] = s,
         RestsIn(m.after, i)
  PROVE  m.after[i].price = IF i \in Kept(m)
                            THEN Remembered(cache, m.action, i, m.rows[i].price)
                            ELSE cache[i]
<1>0. prev \in QuotedBook /\ m.after \in QuotedBook
  BY DEF Carries
<1>1. m.after[i].price \in Quotes[i] /\ m.after[i].price # NoPrice
  BY <1>0, QuotedRow
<1>2. CASE i \notin Kept(m)
  <2>1. prev[i] = m.after[i] /\ RestsIn(prev, i)
    BY <1>2, UntouchedRow DEF RestsIn
  <2> QED
    BY <1>2, <2>1 DEF Carries
<1>3. CASE i \in Kept(m)
  <2>1. i \in DOMAIN m.rows
    BY <1>3 DEF Kept
  <2>2. CASE m.action = "INSERT"
    <3>1. m.rows[i].price = m.after[i].price
      BY <2>1, <2>2 DEF Carries, Describes, Inserts
    <3>2. cache[i] \in {NoPrice, m.after[i].price}
      BY <1>1, OnePrice DEF CacheSound
    <3> QED
      BY <1>1, <1>3, <2>2, <3>1, <3>2 DEF Remembered
  <2>3. CASE m.action = "UPDATE"
    <3>1. cache[i] = m.after[i].price
      BY <2>1, <2>3 DEF Carries, Describes, Updates
    <3> QED
      BY <1>3, <2>3, <3>1 DEF Remembered
  <2>4. CASE m.action = "DELETE"
    BY <2>1, <2>4 DEF Carries, Describes, Deletes
  <2> QED
    BY <2>2, <2>3, <2>4 DEF Carries, Describes
<1> QED
  BY <1>2, <1>3

-------------------------------------------------------------------------------
(* A PARTIAL shows every symbol it has rows of as the exchange has it.     *)

Opens(m, s) ==
  /\ m.type = "orderBookL2" /\ m.action = "PARTIAL"
  /\ IsSnapshot(m) /\ m.after \in QuotedBook
  /\ s \in Named(Kept(m))

LEMMA SnapshotRow ==
  ASSUME TypeOK, NEW m \in Message, m.type = "orderBookL2",
         m.action = "PARTIAL", IsSnapshot(m), m.after \in QuotedBook,
         NEW i \in Kept(m)
  PROVE  /\ i \in Ids /\ RestsIn(m.after, i) /\ m.rows[i] = m.after[i]
         /\ PriceOf(m, i) = m.after[i].price /\ PriceOf(m, i) # NoPrice
<1>1. i \in Ids /\ i \in DOMAIN m.rows
  BY KeptNamed
<1>2. RestsIn(m.after, i) /\ m.rows[i] = m.after[i]
  BY <1>1 DEF IsSnapshot
<1>3. PriceOf(m, i) = m.after[i].price
  BY <1>2 DEF PriceOf, Resolved
<1> QED
  BY <1>1, <1>2, <1>3, QuotedRow

LEMMA OpenedBook ==
  ASSUME TypeOK, NEW m \in Message, NEW s, Opens(m, s)
  PROVE  Published(m, s) = ByPrice(m.after, s)
<1>0. /\ m.type = "orderBookL2" /\ m.action = "PARTIAL" /\ IsSnapshot(m)
      /\ m.after \in QuotedBook /\ s \in Symbols /\ s \notin Discarded
  BY KeptNamed DEF Opens
<1>1. ASSUME NEW p \in Prices PROVE RowsAt(m, s, p) = LevelAt(m.after, s, p)
  <2>1. ASSUME NEW i \in RowsAt(m, s, p) PROVE i \in LevelAt(m.after, s, p)
    BY <1>0, SnapshotRow DEF RowsAt, LevelAt
  <2>2. ASSUME NEW i \in LevelAt(m.after, s, p) PROVE i \in RowsAt(m, s, p)
    <3>1. i \in Ids /\ SymbolOf[i] = s /\ RestsIn(m.after, i)
          /\ m.after[i].price = p
      BY <1>0, LevelFacts
    <3>2. i \in Kept(m)
      BY <1>0, <3>1 DEF Kept, IsSnapshot
    <3> QED
      BY <1>0, <3>1, <3>2, SnapshotRow DEF RowsAt
  <2> QED
    BY <2>1, <2>2
<1>2. ASSUME NEW p \in Prices
      PROVE  Published(m, s)[p] = ByPrice(m.after, s)[p]
  <2>1. CASE RowsAt(m, s, p) = {}
    BY <1>0, <1>1, <2>1 DEF Published, ByPrice
  <2>2. CASE RowsAt(m, s, p) # {}
    <3> DEFINE c == CHOOSE i \in RowsAt(m, s, p) : TRUE
    <3>1. c \in Kept(m)
      BY <2>2 DEF RowsAt
    <3>2. m.rows[c].size = m.after[c].size
      BY <1>0, <3>1, SnapshotRow
    <3> QED
      BY <1>1, <2>2, <3>2 DEF Published, ByPrice
  <2> QED
    BY <2>1, <2>2
<1> QED
  BY <1>2 DEF Published, ByPrice

LEMMA OpenedCache ==
  ASSUME StableQuotes, TypeOK, CacheSound, NEW m \in Message, NEW s,
         Opens(m, s), NEW i \in Ids, SymbolOf[i] = s, RestsIn(m.after, i)
  PROVE  /\ i \in Kept(m)
         /\ m.after[i].price = Remembered(cache, m.action, i, m.rows[i].price)
<1>0. /\ m.type = "orderBookL2" /\ m.action = "PARTIAL" /\ IsSnapshot(m)
      /\ m.after \in QuotedBook /\ s \in Symbols /\ s \notin Discarded
  BY KeptNamed DEF Opens
<1>1. i \in Kept(m)
  BY <1>0 DEF Kept, IsSnapshot
<1>2. m.after[i].price \in Quotes[i] /\ m.rows[i].price = m.after[i].price
  BY <1>0, <1>1, SnapshotRow, QuotedRow
<1>3. cache[i] \in {NoPrice, m.after[i].price}
  BY <1>2, OnePrice DEF CacheSound
<1> QED
  BY <1>0, <1>1, <1>2, <1>3 DEF Remembered

-------------------------------------------------------------------------------
(* Messages tell the truth.                                                *)

LEMMA HeadFollows ==
  ASSUME TypeOK, TellsTrue, NEW type, Receive(type)
  PROVE  /\ Head(inbox).after \in QuotedBook
         /\ Follows(Head(inbox), at)
<1>1. inbox \in Seq(Message) /\ inbox # <<>>
  BY DEF TypeOK, Receive
<1>2. 1 \in 1..Len(inbox) /\ Head(inbox) = inbox[1]
  BY <1>1
<1> QED
  BY <1>2 DEF TellsTrue

(* Reading a message keeps the rest a truthful story.                      *)
LEMMA TailTells ==
  ASSUME TypeOK, TellsTrue, NEW type, Receive(type),
         at' = Head(inbox).after, lob' = lob, topics' = topics,
         link' \in {link, "closing"}
  PROVE  TellsTrue'
<1>1. /\ inbox \in Seq(Message) /\ inbox # <<>> /\ inbox' = Tail(inbox)
      /\ Head(inbox) = inbox[1]
  BY DEF TypeOK, Receive
<1>2. /\ Len(inbox') = Len(inbox) - 1 /\ Len(inbox) \in Nat \ {0}
      /\ \A n \in 1..Len(inbox') : inbox'[n] = inbox[n + 1]
  BY <1>1
<1>3. at' \in QuotedBook /\ lob' \in QuotedBook
  BY HeadFollows DEF TellsTrue
<1>4. ASSUME NEW n \in 1..Len(inbox')
      PROVE  /\ inbox'[n].after \in QuotedBook
             /\ Follows(inbox'[n], IF n = 1 THEN at' ELSE inbox'[n - 1].after)
  <2>1. n + 1 \in 1..Len(inbox) /\ n + 1 # 1 /\ (n + 1) - 1 = n
    BY <1>2
  <2>2. /\ inbox[n + 1].after \in QuotedBook
        /\ Follows(inbox[n + 1], inbox[n].after)
    BY <2>1 DEF TellsTrue
  <2>3. n # 1 => inbox'[n - 1] = inbox[n]
    <3>1. n # 1 => n - 1 \in 1..Len(inbox') /\ (n - 1) + 1 = n
      BY <1>2
    <3> QED
      BY <1>2, <3>1
  <2>4. n = 1 => at' = inbox[n].after
    BY <1>1
  <2> QED
    BY <1>2, <2>2, <2>3, <2>4
<1>5. Told' = Told
  <2>1. CASE Len(inbox) = 1
    <3>1. inbox' = <<>> /\ inbox[Len(inbox)] = inbox[1]
      BY <1>1, <1>2, <2>1
    <3> QED
      BY <1>1, <3>1 DEF Told
  <2>2. CASE Len(inbox) # 1
    <3>1. /\ Len(inbox') \in Nat /\ Len(inbox') >= 1
          /\ Len(inbox') + 1 = Len(inbox)
      BY <1>2, <2>2
    <3>2. inbox' # <<>>
      BY <3>1
    <3>3. inbox'[Len(inbox')] = inbox[Len(inbox)]
      BY <1>2, <3>1
    <3> QED
      BY <1>1, <3>2, <3>3 DEF Told
  <2> QED
    BY <2>1, <2>2
<1> QED
  BY <1>3, <1>4, <1>5 DEF TellsTrue

(* So does a new message that follows from the last one.                   *)
LEMMA AppendTells ==
  ASSUME TypeOK, TellsTrue, NEW message \in Message,
         inbox' = Append(inbox, message), at' = at, lob' \in QuotedBook,
         message.after \in QuotedBook, Follows(message, Told),
         link' = "up" /\ topics'["orderBookL2"] # "off" => message.after = lob',
         link' = "down" => topics'["orderBookL2"] = "off"
  PROVE  TellsTrue'
<1>1. inbox \in Seq(Message)
  BY DEF TypeOK
<1>2. /\ Len(inbox') = Len(inbox) + 1 /\ Len(inbox) \in Nat
      /\ \A n \in 1..Len(inbox) : inbox'[n] = inbox[n]
      /\ inbox'[Len(inbox) + 1] = message /\ inbox' # <<>>
  BY <1>1
<1>3. at' \in QuotedBook
  BY DEF TellsTrue
<1>4. ASSUME NEW n \in 1..Len(inbox')
      PROVE  /\ inbox'[n].after \in QuotedBook
             /\ Follows(inbox'[n], IF n = 1 THEN at' ELSE inbox'[n - 1].after)
  <2>1. CASE n \in 1..Len(inbox)
    <3>1. /\ inbox[n].after \in QuotedBook
          /\ Follows(inbox[n], IF n = 1 THEN at ELSE inbox[n - 1].after)
      BY <2>1 DEF TellsTrue
    <3>2. n # 1 => n - 1 \in 1..Len(inbox)
      BY <1>2, <2>1
    <3> QED
      BY <1>2, <2>1, <3>1, <3>2
  <2>2. CASE n = Len(inbox) + 1
    <3>1. Told = IF n = 1 THEN at ELSE inbox[n - 1].after
      <4>1. (n = 1) <=> (inbox = <<>>)
        BY <1>1, <1>2, <2>2
      <4>2. n - 1 = Len(inbox)
        BY <1>2, <2>2
      <4> QED
        BY <4>1, <4>2 DEF Told
    <3>2. n # 1 => n - 1 \in 1..Len(inbox)
      BY <1>2, <2>2
    <3>3. n # 1 => inbox'[n - 1] = inbox[n - 1]
      BY <1>2, <3>2
    <3> QED
      BY <1>2, <2>2, <3>1, <3>3
  <2> QED
    BY <1>2, <2>1, <2>2
<1>5. Told' = message.after
  BY <1>2 DEF Told
<1> QED
  BY <1>3, <1>4, <1>5 DEF TellsTrue

LEMMA ToldQuoted == TypeOK /\ TellsTrue => Told \in QuotedBook
<1> SUFFICES ASSUME TypeOK, TellsTrue PROVE Told \in QuotedBook
  OBVIOUS
<1>1. CASE inbox = <<>>
  BY <1>1 DEF Told, TellsTrue
<1>2. CASE inbox # <<>>
  <2>1. inbox \in Seq(Message)
    BY DEF TypeOK
  <2>2. Len(inbox) \in 1..Len(inbox)
    BY <1>2, <2>1
  <2> QED
    BY <1>2, <2>2 DEF Told, TellsTrue
<1> QED
  BY <1>1, <1>2

(* So does saying nothing, when nobody listens or nothing has changed.     *)
LEMMA QuietTells ==
  ASSUME TypeOK, TellsTrue, inbox' = inbox, at' = at, lob' \in QuotedBook,
         link' = "up" /\ topics'["orderBookL2"] # "off"
         => link = "up" /\ topics["orderBookL2"] # "off" /\ lob' = lob,
         link' = "down" => topics'["orderBookL2"] = "off"
  PROVE  TellsTrue'
<1>1. Told' = Told
  BY DEF Told
<1> QED
  BY <1>1 DEF TellsTrue

(* And an empty stream with nobody listening.                              *)
LEMMA SilentTells ==
  ASSUME TypeOK, TellsTrue, inbox' = <<>>, at' = at, lob' = lob,
         topics'["orderBookL2"] = "off"
  PROVE  TellsTrue'
BY DEF TellsTrue

-------------------------------------------------------------------------------
(* What the inductive invariant says of the gateway.                       *)

LEMMA BooksKept ==
  ASSUME CacheSound, SyncedKept, CacheCovers, BookMirrored,
         cache' = cache, mbp' = mbp,
         \/ synced' = {}
         \/ /\ synced' = synced /\ at' = at
            /\ partial'["orderBookL2"] = partial["orderBookL2"]
  PROVE  CacheSound' /\ SyncedKept' /\ CacheCovers' /\ BookMirrored'
<1>1. CASE synced' = {}
  BY <1>1 DEF CacheSound, SyncedKept, CacheCovers, BookMirrored
<1>2. CASE /\ synced' = synced /\ at' = at
           /\ partial'["orderBookL2"] = partial["orderBookL2"]
  BY <1>2 DEF CacheSound, SyncedKept, CacheCovers, BookMirrored
<1> QED
  BY <1>1, <1>2

(* Messages other than the order book's leave the books alone.             *)
LEMMA SessionKeeps ==
  ASSUME Inductive, OnWelcome \/ OnSubscribe \/ OnError \/ OnUnsubscribe
  PROVE  Inductive'
<1>1. TypeOK /\ TellsTrue /\ TypeOK'
  BY SessionType DEF Inductive
<1>2. PICK type : Receive(type) /\ type # "orderBookL2"
                  /\ (type = "subscribe" => OnSubscribe)
  BY DEF OnWelcome, OnSubscribe, OnError, OnUnsubscribe
<1>3. /\ at' = Head(inbox).after /\ lob' = lob /\ topics' = topics
      /\ link' = link /\ cache' = cache /\ mbp' = mbp /\ partial' = partial
  BY DEF OnWelcome, OnSubscribe, OnError, OnUnsubscribe, exchange, gateway
<1>4. TellsTrue'
  BY <1>1, <1>2, <1>3, TailTells
<1>5. Follows(Head(inbox), at) /\ Head(inbox).type = type
  BY <1>1, <1>2, HeadFollows, HeadTail
<1>6. CASE OnSubscribe
  <2>1. Head(inbox).topic # "orderBookL2" => at' = at /\ synced' = synced
    BY <1>2, <1>3, <1>5, <1>6 DEF Follows, OnSubscribe
  <2>2. Head(inbox).topic = "orderBookL2" => synced' = {}
    BY <1>6 DEF OnSubscribe
  <2> QED
    BY <1>1, <1>3, <1>4, <2>1, <2>2, BooksKept DEF Inductive
<1>7. CASE ~OnSubscribe
  <2>1. at' = at /\ synced' = synced
    BY <1>2, <1>3, <1>5, <1>7
       DEF Follows, OnWelcome, OnError, OnUnsubscribe
  <2> QED
    BY <1>1, <1>3, <1>4, <2>1, BooksKept DEF Inductive
<1> QED
  BY <1>6, <1>7

LEMMA InstrumentKeeps ==
  ASSUME Inductive, \/ OnInstrumentPartial \/ OnInstrumentUpdate
                    \/ OnInstrumentIgnored \/ OnFunding
  PROVE  Inductive'
<1>1. TypeOK /\ TellsTrue /\ TypeOK'
  BY InstrumentType DEF Inductive
<1>2. PICK type \in {"instrument", "funding"} : Receive(type)
  BY DEF OnInstrumentPartial, OnInstrumentUpdate, OnInstrumentIgnored, OnFunding
<1>3. /\ at' = Head(inbox).after /\ lob' = lob /\ topics' = topics
      /\ link' = link /\ cache' = cache /\ mbp' = mbp /\ synced' = synced
  BY DEF OnInstrumentPartial, OnInstrumentUpdate, OnInstrumentIgnored,
         OnFunding, exchange
<1>4. TellsTrue'
  BY <1>1, <1>2, <1>3, TailTells
<1>5. at' = at
  BY <1>1, <1>2, <1>3, HeadFollows, HeadTail DEF Follows
<1>6. partial'["orderBookL2"] = partial["orderBookL2"]
  <2>1. CASE OnInstrumentPartial
    BY <1>1, <2>1 DEF OnInstrumentPartial, TypeOK, Topics
  <2>2. CASE OnInstrumentUpdate \/ OnInstrumentIgnored \/ OnFunding
    BY <2>2 DEF OnInstrumentUpdate, OnInstrumentIgnored, OnFunding, gateway
  <2> QED
    BY <2>1, <2>2
<1> QED
  BY <1>1, <1>3, <1>4, <1>5, <1>6, BooksKept DEF Inductive

LEMMA EarlyKeeps ==
  ASSUME Inductive, OnOrderBookL2Early
  PROVE  Inductive'
<1>1. TypeOK /\ TellsTrue /\ TypeOK'
  BY OrderBookType DEF Inductive
<1>2. /\ Receive("orderBookL2")
      /\ at' = Head(inbox).after /\ lob' = lob /\ topics' = topics
      /\ link' = link /\ cache' = cache /\ mbp' = mbp /\ synced' = synced
  BY DEF OnOrderBookL2Early, exchange
<1>3. TellsTrue'
  BY <1>1, <1>2, TailTells
<1>4. synced' = {}
  BY <1>2 DEF OnOrderBookL2Early, Inductive, SyncedKept
<1> QED
  BY <1>1, <1>2, <1>3, <1>4, BooksKept DEF Inductive

-------------------------------------------------------------------------------
(* Order book messages.                                                    *)

LEMMA CacheStaysSound ==
  ASSUME CacheSound, NEW m \in Message, m.type = "orderBookL2",
         m.after \in QuotedBook, NEW prev, Follows(m, prev),
         NEW rows \in SUBSET Kept(m), NEW groups, NEW rejected,
         Process(m, rows, groups, rejected)
  PROVE  CacheSound'
<1> SUFFICES ASSUME NEW i \in Ids PROVE cache'[i] \in Quotes[i] \cup {NoPrice}
  BY DEF CacheSound
<1>1. cache'[i] = IF i \in rows
                  THEN Remembered(cache, m.action, i, m.rows[i].price)
                  ELSE cache[i]
  BY DEF Process
<1>2. cache[i] \in Quotes[i] \cup {NoPrice}
  BY DEF CacheSound
<1>3. CASE i \in rows /\ m.action \in {"PARTIAL", "INSERT"}
  <2>1. i \in DOMAIN m.rows
    BY <1>3, KeptNamed
  <2>2. RestsIn(m.after, i) /\ m.rows[i] = m.after[i]
    BY <1>3, <2>1 DEF Follows, IsSnapshot, Describes, Inserts
  <2>3. m.rows[i].price \in Quotes[i]
    BY <2>2, QuotedRow
  <2> QED
    BY <1>1, <1>2, <2>3 DEF Remembered
<1>4. CASE ~(i \in rows /\ m.action \in {"PARTIAL", "INSERT"})
  BY <1>1, <1>2, <1>4 DEF Remembered
<1> QED
  BY <1>3, <1>4

(* What it takes for a symbol to be shown rightly after a message: it was  *)
(* before, and its rows were all processed; or the message is a PARTIAL.   *)
Shown(s) == /\ mbp[s] = ByPrice(at, s)
            /\ \A i \in Ids : SymbolOf[i] = s /\ RestsIn(at, i)
                              => cache[i] = at[i].price

LEMMA ShownNext ==
  ASSUME StableQuotes, TypeOK, CacheSound, NEW m \in Message,
         NEW rows \in SUBSET Kept(m), NEW groups, NEW rejected,
         Process(m, rows, groups, rejected), at' = m.after,
         NEW s \in Symbols, s \notin rejected,
         \A i \in Kept(m) : SymbolOf[i] = s => i \in rows,
         \/ Opens(m, s) /\ s \in groups
         \/ /\ Carries(m, at, s) /\ mbp[s] = ByPrice(at, s)
            /\ s \in groups \/ s \notin Named(Kept(m))
  PROVE  Shown(s)'
<1>1. mbp'[s] = IF s \in groups THEN Published(m, s) ELSE mbp[s]
  BY DEF Process
<1>2. mbp'[s] = ByPrice(m.after, s)
  BY <1>1, OpenedBook, CarriedBook
<1>3. ASSUME NEW i \in Ids, SymbolOf[i] = s, RestsIn(m.after, i)
      PROVE  cache'[i] = m.after[i].price
  <2>1. cache'[i] = IF i \in rows
                    THEN Remembered(cache, m.action, i, m.rows[i].price)
                    ELSE cache[i]
    BY DEF Process
  <2>2. i \in rows <=> i \in Kept(m)
    BY <1>3
  <2> QED
    BY <1>3, <2>1, <2>2, OpenedCache, CarriedCache
<1> QED
  BY <1>2, <1>3 DEF Shown

LEMMA OrderBookKeeps ==
  ASSUME StableQuotes, Inductive, OnOrderBookL2
  PROVE  Inductive'
<1> DEFINE m == Head(inbox)
           groups == Named(Kept(m))
<1>1. TypeOK /\ TellsTrue /\ TypeOK' /\ CacheSound /\ SyncedKept
      /\ CacheCovers /\ BookMirrored
  BY OrderBookType DEF Inductive
<1>2. /\ Receive("orderBookL2")
      /\ at' = m.after /\ lob' = lob /\ topics' = topics /\ link' = link
  BY DEF OnOrderBookL2, exchange
<1>3. m \in Message /\ m.type = "orderBookL2" /\ m.after \in QuotedBook
      /\ Follows(m, at)
  BY <1>1, <1>2, HeadTail, HeadFollows
<1>4. TellsTrue'
  BY <1>1, <1>2, TailTells
<1>5. PICK rejected \in SUBSET groups :
        /\ Process(m, Kept(m), groups, rejected)
        /\ partial' = [partial EXCEPT !["orderBookL2"] =
                         m.action = "PARTIAL" \/ rejected = {}]
        /\ synced' = IF m.action = "PARTIAL" THEN groups \ rejected
                     ELSE IF rejected = {} THEN synced \ m.lost ELSE {}
  BY DEF OnOrderBookL2
<1> HIDE DEF m
<1>6. groups \subseteq Symbols /\ groups \cap Discarded = {}
  BY <1>3, KeptNamed
<1>7. CacheSound'
  BY <1>1, <1>3, <1>5, CacheStaysSound
<1>8. SyncedKept'
  <2>1. partial'["orderBookL2"] = (m.action = "PARTIAL" \/ rejected = {})
    BY <1>1, <1>5 DEF TypeOK, Topics
  <2>2. synced' # {} => m.action = "PARTIAL" \/ rejected = {}
    BY <1>5
  <2>3. synced' \cap Discarded = {}
    BY <1>1, <1>5, <1>6 DEF SyncedKept
  <2> QED
    BY <2>1, <2>2, <2>3 DEF SyncedKept
<1>9. ASSUME NEW s \in synced' PROVE Shown(s)'
  <2>1. s \in Symbols /\ s \notin rejected
    BY <1>1, <1>5, <1>6, <1>9 DEF TypeOK
  <2>2. CASE m.action = "PARTIAL"
    <3>1. s \in groups
      BY <1>5, <1>9, <2>2
    <3>2. Opens(m, s)
      BY <1>3, <2>2, <3>1 DEF Opens, Follows
    <3> QED
      BY <1>1, <1>2, <1>3, <1>5, <2>1, <3>1, <3>2, ShownNext
  <2>3. CASE m.action # "PARTIAL"
    <3>1. s \in synced /\ s \notin m.lost
      BY <1>5, <1>9, <2>3
    <3>2. Carries(m, at, s) /\ mbp[s] = ByPrice(at, s)
      BY <1>1, <1>3, <2>1, <2>3, <3>1
         DEF Carries, Follows, TellsTrue, SyncedKept, CacheCovers, BookMirrored
    <3> QED
      BY <1>1, <1>2, <1>3, <1>5, <2>1, <3>2, ShownNext
  <2> QED
    BY <2>2, <2>3
<1>10. CacheCovers' /\ BookMirrored'
  BY <1>9 DEF Shown, CacheCovers, BookMirrored
<1> QED
  BY <1>1, <1>4, <1>7, <1>8, <1>10 DEF Inductive

(* A message cut short shows rightly the symbols that stay synced.         *)
LEMMA UnpricedKeeps ==
  ASSUME StableQuotes, Inductive, OnOrderBookL2Unpriced
  PROVE  Inductive'
<1> DEFINE m == Head(inbox)
<1>1. TypeOK /\ TellsTrue /\ TypeOK' /\ CacheSound /\ SyncedKept
      /\ CacheCovers /\ BookMirrored
  BY OrderBookType DEF Inductive
<1>2. /\ Receive("orderBookL2")
      /\ m.action = "PARTIAL" \/ partial["orderBookL2"]
      /\ at' = m.after /\ lob' = lob /\ topics' = topics
      /\ link' \in {link, "closing"}
  BY DEF OnOrderBookL2Unpriced, exchange
<1>3. m \in Message /\ m.type = "orderBookL2" /\ m.after \in QuotedBook
      /\ Follows(m, at)
  BY <1>1, <1>2, HeadTail, HeadFollows
<1>4. TellsTrue'
  BY <1>1, <1>2, TailTells
<1>5. PICK i \in Unpriced(m), groups \in SUBSET Named(Kept(m)),
           own \in SUBSET Kept(m) :
        \E rejected \in SUBSET groups : StopAt(m, i, groups, own, rejected)
  BY DEF OnOrderBookL2Unpriced
<1>6. PICK rejected \in SUBSET groups : StopAt(m, i, groups, own, rejected)
  BY <1>5
<1> HIDE DEF m
<1> DEFINE rows == own \cup {j \in Kept(m) : SymbolOf[j] \in groups}
<1>7. /\ SymbolOf[i] \notin groups /\ i \in Kept(m)
      /\ \A j \in own : SymbolOf[j] = SymbolOf[i]
      /\ Process(m, rows, groups, rejected)
      /\ rows \in SUBSET Kept(m)
      /\ partial' = [partial EXCEPT !["orderBookL2"] = @ /\ rejected = {}]
      /\ synced' = IF rejected = {}
                   THEN synced \ (m.lost \cup (Named(Kept(m)) \ groups))
                   ELSE {}
  BY <1>5, <1>6 DEF StopAt, Unpriced
<1> HIDE DEF rows
<1>8. m.action # "PARTIAL"
  <2>1. PriceOf(m, i) = NoPrice
    BY <1>5 DEF Unpriced
  <2> QED
    BY <1>1, <1>3, <1>7, <2>1, SnapshotRow DEF Follows
<1>9. CacheSound'
  BY <1>1, <1>3, <1>7, CacheStaysSound
<1>10. SyncedKept'
  <2>1. rejected = {} => partial'["orderBookL2"]
    <3>1. rejected = {} => partial'["orderBookL2"] = partial["orderBookL2"]
      BY <1>1, <1>7 DEF TypeOK, Topics
    <3> QED
      BY <1>2, <1>8, <3>1
  <2>2. synced' # {} => rejected = {}
    BY <1>7
  <2>3. synced' \cap Discarded = {}
    BY <1>1, <1>7 DEF SyncedKept
  <2> QED
    BY <2>1, <2>2, <2>3 DEF SyncedKept
<1>11. ASSUME NEW s \in synced' PROVE Shown(s)'
  <2>1. /\ rejected = {} /\ s \in synced /\ s \notin m.lost /\ s \in Symbols
        /\ s \in groups \/ s \notin Named(Kept(m))
    BY <1>1, <1>7, <1>11 DEF TypeOK
  <2>2. \A j \in Kept(m) : SymbolOf[j] = s => j \in rows
    BY <2>1 DEF Named, rows
  <2>3. Carries(m, at, s) /\ mbp[s] = ByPrice(at, s)
    BY <1>1, <1>3, <1>8, <2>1
       DEF Carries, Follows, TellsTrue, SyncedKept, CacheCovers, BookMirrored
  <2> QED
    BY <1>1, <1>2, <1>3, <1>7, <2>1, <2>2, <2>3, ShownNext
<1>12. CacheCovers' /\ BookMirrored'
  BY <1>11 DEF Shown, CacheCovers, BookMirrored
<1> QED
  BY <1>1, <1>4, <1>9, <1>10, <1>12 DEF Inductive

-------------------------------------------------------------------------------
(* The connection and the exchange.                                        *)

LEMMA ConnectionKeeps ==
  ASSUME Inductive, TransportReady \/ TransportLost \/ TransportClosed
  PROVE  Inductive'
<1>1. TypeOK /\ TellsTrue /\ TypeOK'
  BY ConnectionType DEF Inductive
<1>2. CASE TransportReady
  <2>1. /\ at' = at /\ synced' = synced /\ partial' = partial
        /\ cache' = cache /\ mbp' = mbp /\ lob' = lob
        /\ inbox' = <<[type |-> "welcome", after |-> at]>>
    BY <1>2 DEF TransportReady, books, exchange
  <2>2. topics' = topics /\ link = "down"
    BY <1>2 DEF TransportReady
  <2>3. inbox' = Append(<<>>, [type |-> "welcome", after |-> at])
        /\ Len(inbox') = 1 /\ inbox'[1] = [type |-> "welcome", after |-> at]
    BY <2>1
  <2>4. topics'["orderBookL2"] = "off" /\ at \in QuotedBook /\ lob \in QuotedBook
    BY <1>1, <2>2 DEF TellsTrue
  <2>5. Follows(inbox'[1], at')
    BY <2>1, <2>3 DEF Follows
  <2>6. TellsTrue'
    BY <2>1, <2>3, <2>4, <2>5 DEF TellsTrue
  <2> QED
    BY <1>1, <2>1, <2>6, BooksKept DEF Inductive
<1>3. CASE TransportLost \/ TransportClosed
  <2>1. Disconnected
    BY <1>3 DEF TransportLost, TransportClosed
  <2>2. topics'["orderBookL2"] = "off"
    BY <2>1 DEF Disconnected, Topics
  <2>3. TellsTrue'
    BY <1>1, <2>1, <2>2, SilentTells DEF Disconnected, exchange
  <2> QED
    BY <1>1, <2>1, <2>3, BooksKept DEF Disconnected, Inductive
<1> QED
  BY <1>2, <1>3

(* A message without rows that says nothing new of the book.               *)
LEMMA NewsTells ==
  ASSUME TypeOK, TellsTrue, NEW message \in Message,
         inbox' \in {inbox, Append(inbox, message)}, at' = at, lob' = lob,
         message.type # "orderBookL2", message.after = Told,
         link' = link,
         topics'["orderBookL2"] \in {"off", topics["orderBookL2"]}
  PROVE  TellsTrue'
<1>1. lob \in QuotedBook /\ Told \in QuotedBook
  BY ToldQuoted DEF TellsTrue
<1>0. link' = "down" => topics'["orderBookL2"] = "off"
  BY DEF TellsTrue
<1>2. CASE inbox' = inbox
  BY <1>0, <1>1, <1>2, QuietTells
<1>3. CASE inbox' = Append(inbox, message)
  <2>1. Follows(message, Told)
    BY DEF Follows
  <2>2. link' = "up" /\ topics'["orderBookL2"] # "off" => message.after = lob'
    BY DEF TellsTrue
  <2> QED
    BY <1>0, <1>1, <1>3, <2>1, <2>2, AppendTells
<1> QED
  BY <1>2, <1>3

LEMMA Sends ==
  ASSUME TypeOK, NEW message \in Message
  PROVE  /\ Send(<<message>>) => inbox' = Append(inbox, message) /\ link = "up"
         /\ \A topic : Tell(topic, message)
                       => inbox' \in {inbox, Append(inbox, message)}
<1>1. inbox \in Seq(Message)
  BY DEF TypeOK
<1>2. inbox \o <<message>> = Append(inbox, message)
  BY <1>1, AppendProperties, ConcatProperties
<1> QED
  BY <1>2 DEF Send, Tell

(* What is heard of instruments leaves the books as they are told of.      *)
LEMMA NewsSent ==
  ASSUME TypeOK, SymbolListed \/ InstrumentChanges \/ FundingPublished
  PROVE  \E message \in Message :
           /\ message.type # "orderBookL2" /\ message.after = Told
           /\ inbox' \in {inbox, Append(inbox, message)}
<1>1. CASE SymbolListed
  <2>1. PICK s \in Symbols : Tell("instrument", Instrument("INSERT", {s}))
    BY <1>1 DEF SymbolListed
  <2> DEFINE message == Instrument("INSERT", {s})
  <2>2. message \in Message
    BY MessageTypes DEF Actions
  <2>3. message.type # "orderBookL2" /\ message.after = Told
    BY DEF Instrument
  <2>4. inbox' \in {inbox, Append(inbox, message)}
    BY <2>1, <2>2, Sends
  <2> HIDE DEF message
  <2> QED
    BY <2>2, <2>3, <2>4
<1>2. CASE InstrumentChanges
  <2>1. PICK items \in SUBSET Symbols :
          Tell("instrument", Instrument("UPDATE", items))
    BY <1>2 DEF InstrumentChanges, TypeOK
  <2> DEFINE message == Instrument("UPDATE", items)
  <2>2. message \in Message
    BY MessageTypes DEF Actions
  <2>3. message.type # "orderBookL2" /\ message.after = Told
    BY DEF Instrument
  <2>4. inbox' \in {inbox, Append(inbox, message)}
    BY <2>1, <2>2, Sends
  <2> HIDE DEF message
  <2> QED
    BY <2>2, <2>3, <2>4
<1>3. CASE FundingPublished
  <2>1. PICK s \in Symbols :
          Tell("orderBookL2",
               [type |-> "funding", items |-> {s}, after |-> Told])
    BY <1>3 DEF FundingPublished, TypeOK
  <2> DEFINE message == [type |-> "funding", items |-> {s}, after |-> Told]
  <2>2. message \in Message
    BY MessageTypes
  <2>3. message.type # "orderBookL2" /\ message.after = Told
    OBVIOUS
  <2>4. inbox' \in {inbox, Append(inbox, message)}
    BY <2>1, <2>2, Sends
  <2> HIDE DEF message
  <2> QED
    BY <2>2, <2>3, <2>4
<1> QED
  BY <1>1, <1>2, <1>3

LEMMA NewsKeeps ==
  ASSUME Inductive, SymbolListed \/ InstrumentChanges \/ FundingPublished
  PROVE  Inductive'
<1>1. TypeOK /\ TellsTrue /\ TypeOK'
  BY NewsType DEF Inductive
<1>2. /\ at' = at /\ synced' = synced /\ partial' = partial /\ cache' = cache
      /\ mbp' = mbp /\ lob' = lob /\ link' = link /\ topics' = topics
  BY DEF SymbolListed, InstrumentChanges, FundingPublished, exchange, gateway,
         books
<1>3. PICK message \in Message :
        /\ message.type # "orderBookL2" /\ message.after = Told
        /\ inbox' \in {inbox, Append(inbox, message)}
  BY <1>1, NewsSent
<1>4. TellsTrue'
  BY <1>1, <1>2, <1>3, NewsTells
<1> QED
  BY <1>1, <1>2, <1>4, BooksKept DEF Inductive

LEMMA AnswerKeeps ==
  ASSUME Inductive, Answer \/ ExchangeRefuses
  PROVE  Inductive'
<1>1. TypeOK /\ TellsTrue /\ TypeOK'
  BY AnswerType DEF Inductive
<1>2. /\ at' = at /\ synced' = synced /\ partial' = partial /\ cache' = cache
      /\ mbp' = mbp /\ lob' = lob /\ link' = link
  BY DEF Answer, ExchangeRefuses, ExchangeSubscribes, ExchangeUnsubscribes,
         InstrumentPartial, OrderBookL2Partial, exchange, gateway, books
<1>3. lob \in QuotedBook /\ at \in QuotedBook /\ "orderBookL2" \in Topics
  BY <1>1 DEF TellsTrue, Topics
<1>4. topics \in [Topics -> {"off", "pending", "on"}]
  BY <1>1 DEF TypeOK
<1>5. CASE ExchangeSubscribes
  <2>1. PICK topic \in Topics : topic = Head(outbox).topic
    BY <1>1, <1>5, ServeType DEF ExchangeSubscribes
  <2>2. PICK message \in Message :
          /\ message = [type |-> "subscribe", topic |-> topic,
                        after |-> IF topic = "orderBookL2" THEN lob ELSE Told]
          /\ Send(<<message>>)
    <3> DEFINE book == IF topic = "orderBookL2" THEN lob ELSE Told
    <3>1. book \in Book
      BY <1>1, ToldType DEF TypeOK
    <3>2. [type |-> "subscribe", topic |-> topic, after |-> book] \in Message
      BY <1>1, <3>1, MessageTypes
    <3>3. Send(<<[type |-> "subscribe", topic |-> topic, after |-> book]>>)
      BY <1>5, <2>1 DEF ExchangeSubscribes
    <3> QED
      BY <3>2, <3>3
  <2>3. inbox' = Append(inbox, message) /\ link = "up"
    BY <1>1, <2>2, Sends
  <2>4. topics'["orderBookL2"] = IF topic = "orderBookL2" THEN "pending"
                                 ELSE topics["orderBookL2"]
    BY <1>3, <1>4, <1>5, <2>1 DEF ExchangeSubscribes
  <2>5. /\ message.type = "subscribe" /\ message.topic = topic
        /\ message.after = IF topic = "orderBookL2" THEN lob ELSE Told
    BY <2>2
  <2>6. ASSUME topic = "orderBookL2" PROVE TellsTrue'
    <3>1. message.after = lob /\ Follows(message, Told)
      BY <2>5, <2>6 DEF Follows
    <3>2. lob' \in QuotedBook /\ message.after = lob'
          /\ message.after \in QuotedBook
      BY <1>2, <1>3, <3>1
    <3>3. link' # "down"
      BY <1>2, <2>3
    <3> QED
      BY <1>1, <1>2, <2>3, <3>1, <3>2, <3>3, AppendTells
  <2>7. ASSUME topic # "orderBookL2" PROVE TellsTrue'
    <3>1. message.type # "orderBookL2" /\ message.after = Told
      BY <2>5, <2>7
    <3>2. topics'["orderBookL2"] = topics["orderBookL2"]
      BY <2>4, <2>7
    <3> QED
      BY <1>1, <1>2, <2>3, <3>1, <3>2, NewsTells
  <2>8. TellsTrue'
    BY <2>6, <2>7
  <2> QED
    BY <1>1, <1>2, <2>8, BooksKept DEF Inductive
<1>6. CASE ExchangeUnsubscribes \/ ExchangeRefuses
  <2>1. PICK type \in {"error", "unsubscribe"} : Send(<<Plain(type)>>)
    BY <1>6 DEF ExchangeUnsubscribes, ExchangeRefuses
  <2>2. Plain(type) \in Message
    BY <1>1, <2>1, MessageTypes
  <2>3. Plain(type).type = type /\ Plain(type).after = Told
    BY DEF Plain
  <2>4. inbox' = Append(inbox, Plain(type))
    BY <1>1, <2>1, <2>2, Sends
  <2>5. topics'["orderBookL2"] \in {"off", topics["orderBookL2"]}
    BY <1>3, <1>4, <1>6 DEF ExchangeUnsubscribes, ExchangeRefuses
  <2>6. TellsTrue'
    BY <1>1, <1>2, <2>2, <2>3, <2>4, <2>5, NewsTells
  <2> QED
    BY <1>1, <1>2, <2>6, BooksKept DEF Inductive
<1>7. CASE InstrumentPartial
  <2> DEFINE message == Instrument("PARTIAL", listed)
  <2>1. message \in Message
    BY <1>1, MessageTypes DEF TypeOK, Actions
  <2>2. message.type # "orderBookL2" /\ message.after = Told
    BY DEF Instrument
  <2>3. inbox' = Append(inbox, message)
    BY <1>1, <1>7, <2>1, Sends DEF InstrumentPartial
  <2>4. topics'["orderBookL2"] = topics["orderBookL2"]
    BY <1>3, <1>4, <1>7 DEF InstrumentPartial
  <2> HIDE DEF message
  <2>5. TellsTrue'
    BY <1>1, <1>2, <2>1, <2>2, <2>3, <2>4, NewsTells
  <2> QED
    BY <1>1, <1>2, <2>5, BooksKept DEF Inductive
<1>8. CASE OrderBookL2Partial
  <2> DEFINE message == OrderBookL2("PARTIAL", Snapshot, {}, lob)
  <2>1. message \in Message
    BY <1>1, SnapshotType, MessageTypes DEF TypeOK, Actions
  <2>2. inbox' = Append(inbox, message) /\ link = "up"
    BY <1>1, <1>8, <2>1, Sends DEF OrderBookL2Partial
  <2>3. message.after = lob' /\ message.after \in QuotedBook
    BY <1>2, <1>3 DEF OrderBookL2
  <2>4. IsSnapshot(message)
    BY DEF IsSnapshot, OrderBookL2, Snapshot
  <2>5. Follows(message, Told)
    BY <2>4 DEF Follows, OrderBookL2
  <2> HIDE DEF message
  <2>6. TellsTrue'
    BY <1>1, <1>2, <2>1, <2>2, <2>3, <2>5, AppendTells
  <2> QED
    BY <1>1, <1>2, <2>6, BooksKept DEF Inductive
<1> QED
  BY <1>5, <1>6, <1>7, <1>8 DEF Answer

(* The wire form of a change of the exchange's book describes it.          *)
LEMMA DeltaDescribes ==
  ASSUME TypeOK, lob \in QuotedBook, NEW book \in QuotedBook,
         NEW action \in {"INSERT", "UPDATE", "DELETE"}, NEW priced \in BOOLEAN,
         Does(action, book)
  PROVE  Describes(OrderBookL2(action, Delta(action, priced, book), {}, book),
                   lob)
<1> DEFINE m == OrderBookL2(action, Delta(action, priced, book), {}, book)
<1>1. /\ m.action = action /\ m.after = book /\ m.lost = {}
      /\ m.rows = Delta(action, priced, book)
      /\ DOMAIN m.rows = Changed(book)
  BY DEF OrderBookL2, Delta
<1> HIDE DEF m
<1>2. ASSUME NEW i \in Changed(book)
      PROVE  /\ action = "INSERT" => Inserts(m, i, lob)
             /\ action = "UPDATE" => Updates(m, i, lob)
             /\ action = "DELETE" => Deletes(m, i, lob)
  <2>1. i \in Ids /\ book[i] # lob[i]
    BY DEF Changed
  <2>2. m.rows[i] = WireRow(action, priced, book, i)
    BY <1>1 DEF Delta
  <2>3. book[i] \in Row /\ lob[i] \in Row
    BY <2>1, QuotedRow
  <2>4. m.rows[i].size = book[i].size
    BY <2>2 DEF WireRow
  <2>5. CASE action = "INSERT"
    <3>1. ~RestsIn(lob, i) /\ RestsIn(book, i)
      BY <2>1, <2>5 DEF Does, RestsIn
    <3>2. m.rows[i] = [price |-> book[i].price, size |-> book[i].size]
      BY <2>2, <2>5 DEF WireRow
    <3>3. m.rows[i] = book[i]
      BY <2>3, <3>2 DEF Row
    <3> QED
      BY <1>1, <2>5, <3>1, <3>3 DEF Inserts
  <2>6. CASE action = "UPDATE"
    BY <1>1, <2>1, <2>2, <2>4, <2>6 DEF Does, Updates, WireRow
  <2>7. CASE action = "DELETE"
    <3>1. RestsIn(lob, i) /\ ~RestsIn(book, i) /\ book[i].size = 0
      BY <2>1, <2>7 DEF Does, RestsIn, NoRow
    <3> QED
      BY <1>1, <2>2, <2>4, <2>7, <3>1 DEF Deletes, WireRow
  <2> QED
    BY <2>5, <2>6, <2>7
<1>3. \A i \in Ids : lob[i] # book[i] => i \in Changed(book)
  BY DEF Changed
<1>4. Describes(m, lob)
  BY <1>1, <1>2, <1>3 DEF Describes
<1> QED
  BY <1>4 DEF m

LEMMA UnseenDescribes ==
  ASSUME TypeOK, lob \in QuotedBook, NEW book \in QuotedBook,
         NEW action \in {"INSERT", "UPDATE", "DELETE"}
  PROVE  Describes(OrderBookL2(action, [i \in {} |-> NoRow],
                               Named(Changed(book)), book), lob)
BY DEF Describes, OrderBookL2, Named, Changed

(* A change of the exchange's book is described, if at all.                *)
LEMMA ChangeSent ==
  ASSUME TypeOK, lob \in QuotedBook, BookChanges \/ BookChangesUnseen
  PROVE  \E message \in Message :
           /\ lob' \in QuotedBook /\ message.after = lob'
           /\ message.type = "orderBookL2" /\ message.action # "PARTIAL"
           /\ Describes(message, lob)
           /\ Tell("orderBookL2", message)
<1>1. CASE BookChanges
  <2>1. PICK book \in QuotedBook, action \in {"INSERT", "UPDATE", "DELETE"},
             priced \in Priced :
          /\ lob' = book /\ Does(action, book)
          /\ Tell("orderBookL2",
                  OrderBookL2(action, Delta(action, priced, book), {}, book))
    BY <1>1 DEF BookChanges
  <2> DEFINE message ==
               OrderBookL2(action, Delta(action, priced, book), {}, book)
  <2>2. priced \in BOOLEAN
    BY BoundsAssumption
  <2>3. message \in Message
    BY <2>2, DeltaType, MessageTypes DEF Actions
  <2>4. Describes(message, lob)
    BY <2>1, <2>2, DeltaDescribes
  <2>5. /\ message.after = book /\ message.type = "orderBookL2"
        /\ message.action # "PARTIAL"
    BY DEF OrderBookL2
  <2>6. Tell("orderBookL2", message)
    BY <2>1
  <2> HIDE DEF message
  <2> QED
    BY <2>1, <2>3, <2>4, <2>5, <2>6
<1>2. CASE BookChangesUnseen
  <2>1. PICK book \in QuotedBook, action \in {"INSERT", "UPDATE", "DELETE"} :
          /\ lob' = book
          /\ Tell("orderBookL2",
                  OrderBookL2(action, [i \in {} |-> NoRow],
                              Named(Changed(book)), book))
    BY <1>2 DEF BookChangesUnseen
  <2> DEFINE message == OrderBookL2(action, [i \in {} |-> NoRow],
                                    Named(Changed(book)), book)
  <2>2. [i \in {} |-> NoRow] \in Rows
    <3>1. [i \in {} |-> NoRow] \in [{} -> Row] /\ {} \in SUBSET Ids
      OBVIOUS
    <3> QED
      BY <3>1 DEF Rows
  <2>3. message \in Message
    BY <2>2, NamedType, MessageTypes DEF Actions, QuotedBook, Changed
  <2>4. Describes(message, lob)
    BY UnseenDescribes
  <2>5. /\ message.after = book /\ message.type = "orderBookL2"
        /\ message.action # "PARTIAL"
    BY DEF OrderBookL2
  <2>6. Tell("orderBookL2", message)
    BY <2>1
  <2> HIDE DEF message
  <2> QED
    BY <2>1, <2>3, <2>4, <2>5, <2>6
<1> QED
  BY <1>1, <1>2

LEMMA ChangeKeeps ==
  ASSUME Inductive, BookChanges \/ BookChangesUnseen
  PROVE  Inductive'
<1>1. TypeOK /\ TellsTrue /\ TypeOK'
  BY ChangeType DEF Inductive
<1>2. /\ at' = at /\ synced' = synced /\ partial' = partial /\ cache' = cache
      /\ mbp' = mbp /\ link' = link /\ topics' = topics
  BY DEF BookChanges, BookChangesUnseen, gateway, books
<1>3. lob \in QuotedBook
  BY <1>1 DEF TellsTrue
<1>4. PICK message \in Message :
        /\ lob' \in QuotedBook /\ message.after = lob'
        /\ message.type = "orderBookL2" /\ message.action # "PARTIAL"
        /\ Describes(message, lob)
        /\ Tell("orderBookL2", message)
  BY <1>1, <1>3, ChangeSent
<1>5. link' = "down" => topics'["orderBookL2"] = "off"
  BY <1>1, <1>2 DEF TellsTrue
<1>6. TellsTrue'
  <2>1. CASE link = "up" /\ topics["orderBookL2"] # "off"
    <3>1. inbox' = Append(inbox, message)
      BY <1>4, <2>1 DEF Tell
    <3>2. Told = lob
      BY <1>1, <2>1 DEF TellsTrue
    <3>3. Follows(message, Told)
      BY <1>4, <3>2 DEF Follows
    <3> QED
      BY <1>1, <1>2, <1>4, <1>5, <3>1, <3>3, AppendTells
  <2>2. CASE ~(link = "up" /\ topics["orderBookL2"] # "off")
    <3>1. inbox' = inbox
      BY <1>4, <2>2 DEF Tell
    <3> QED
      BY <1>1, <1>2, <1>4, <1>5, <2>2, <3>1, QuietTells
  <2> QED
    BY <2>1, <2>2
<1> QED
  BY <1>1, <1>2, <1>6, BooksKept DEF Inductive

-------------------------------------------------------------------------------
(* The invariant and what follows from it.                                 *)

LEMMA InductiveInit == Init => Inductive
<1> SUFFICES ASSUME Init PROVE Inductive
  OBVIOUS
<1>1. TypeOK
  BY InitType
<1>2. TellsTrue
  <2>1. inbox = <<>> /\ at \in QuotedBook /\ lob \in QuotedBook /\ link = "down"
    BY DEF Init
  <2>2. topics["orderBookL2"] = "off"
    BY DEF Init, Topics
  <2> QED
    BY <2>1, <2>2 DEF TellsTrue
<1>3. CacheSound /\ SyncedKept /\ CacheCovers /\ BookMirrored
  BY DEF Init, CacheSound, SyncedKept, CacheCovers, BookMirrored, EmptyLookup
<1> QED
  BY <1>1, <1>2, <1>3 DEF Inductive

LEMMA StutterKeeps == Inductive /\ UNCHANGED vars => Inductive'
<1> SUFFICES ASSUME Inductive, UNCHANGED vars PROVE Inductive'
  OBVIOUS
<1>1. TypeOK /\ TellsTrue /\ lob \in QuotedBook
  BY DEF Inductive, TellsTrue
<1>2. /\ cache' = cache /\ mbp' = mbp /\ synced' = synced /\ at' = at
      /\ partial' = partial /\ inbox' = inbox /\ lob' = lob /\ link' = link
      /\ topics' = topics
  BY DEF vars, gateway, books, wire, exchange
<1>3. TypeOK'
  BY <1>1, NextType
<1>4. link' = "down" => topics'["orderBookL2"] = "off"
  BY <1>1, <1>2 DEF TellsTrue
<1>5. TellsTrue'
  BY <1>1, <1>2, <1>4, QuietTells
<1> QED
  BY <1>2, <1>3, <1>5, BooksKept DEF Inductive

LEMMA InductiveNext ==
  ASSUME StableQuotes
  PROVE  Inductive /\ [Next]_vars => Inductive'
<1> SUFFICES ASSUME Inductive, Next PROVE Inductive'
  BY StutterKeeps
<1> QED
  BY ConnectionKeeps, SessionKeeps, InstrumentKeeps, EarlyKeeps, OrderBookKeeps,
     UnpricedKeeps, AnswerKeeps, NewsKeeps, ChangeKeeps DEF Next, Handle

(* As long as ids keep their prices, what is on the wire tells the truth,  *)
(* the price cache is never wrong, and the books shown are those told of.  *)
THEOREM Truthful ==
  ASSUME StableQuotes
  PROVE  Spec => []Inductive
BY InductiveInit, InductiveNext, PTL DEF Spec

(* A symbol shown a snapshot since the subscription has exactly the book   *)
(* the exchange had when it sent the last message received.                *)
THEOREM Mirrored ==
  ASSUME StableQuotes
  PROVE  Spec => []BookMirrored
<1>1. Inductive => BookMirrored
  BY DEF Inductive
<1> QED
  BY <1>1, Truthful, PTL

(* The price cache knows every resting level of such a symbol.             *)
THEOREM Covered ==
  ASSUME StableQuotes
  PROVE  Spec => []CacheCovers
<1>1. Inductive => CacheCovers
  BY DEF Inductive
<1> QED
  BY <1>1, Truthful, PTL

(* With every message read and the stream on, the book shown is the        *)
(* exchange's.                                                             *)
THEOREM Current ==
  ASSUME StableQuotes
  PROVE  Spec => []BookCurrent
<1>1. Inductive => BookCurrent
  <2> SUFFICES ASSUME Inductive, link = "up", topics["orderBookL2"] = "on",
                      inbox = <<>>, NEW s \in synced
               PROVE  mbp[s] = ByPrice(lob, s)
    BY DEF BookCurrent
  <2>1. at = lob
    BY DEF Inductive, TellsTrue, Told
  <2> QED
    BY <2>1 DEF Inductive, BookMirrored
<1> QED
  BY <1>1, Truthful, PTL

-------------------------------------------------------------------------------
(* The session as a feed of views: what each step looks like there.        *)

Views == [Symbols -> Depth]
Wire(box) == [n \in DOMAIN box |-> AllByPrice(box[n].after)]

(* A connection that is down has nothing left to read.                     *)
Silent == link = "down" => inbox = <<>>

LEMMA ViewType ==
  ASSUME NEW book \in Book
  PROVE  AllByPrice(book) \in Views
<1>1. ASSUME NEW s \in Symbols, NEW p \in Prices
      PROVE  ByPrice(book, s)[p] \in Sizes \cup {0}
  <2> DEFINE c == CHOOSE i \in LevelAt(book, s, p) : TRUE
  <2>1. LevelAt(book, s, p) # {} => c \in Ids
    BY DEF LevelAt
  <2>2. c \in Ids => book[c].size \in Sizes \cup {0}
    BY DEF Book, Row
  <2> QED
    BY <2>1, <2>2 DEF ByPrice
<1>2. ASSUME NEW s \in Symbols PROVE ByPrice(book, s) \in Depth
  BY <1>1 DEF ByPrice, Depth
<1> QED
  BY <1>2 DEF AllByPrice, Views

LEMMA WireType ==
  ASSUME NEW box \in Seq(Message)
  PROVE  /\ Wire(box) \in Seq(Views) /\ Len(Wire(box)) = Len(box)
         /\ \A n \in 1..Len(box) : Wire(box)[n] = AllByPrice(box[n].after)
<1>1. DOMAIN box = 1..Len(box) /\ Len(box) \in Nat
      /\ \A n \in 1..Len(box) : box[n] \in Message
  OBVIOUS
<1>2. \A n \in 1..Len(box) : AllByPrice(box[n].after) \in Views
  BY <1>1, MessageAfter, ViewType
<1> QED
  BY <1>1, <1>2 DEF Wire

(* The last of the feed is what the gateway will have been told of.        *)
LEMMA WireLast ==
  ASSUME TypeOK
  PROVE  AllByPrice(Told) = IF Wire(inbox) = <<>> THEN AllByPrice(at)
                                                  ELSE Wire(inbox)[Len(Wire(inbox))]
<1>1. inbox \in Seq(Message)
  BY DEF TypeOK
<1>2. CASE inbox = <<>>
  <2>1. Wire(inbox) \in Seq(Views) /\ Len(inbox) = 0 /\ Len(Wire(inbox)) = Len(inbox)
    BY <1>1, <1>2, WireType
  <2>2. Wire(inbox) = <<>>
    BY <2>1
  <2> QED
    BY <1>2, <2>2 DEF Told
<1>3. CASE inbox # <<>>
  <2>1. Len(inbox) \in 1..Len(inbox)
    BY <1>1, <1>3
  <2>2. /\ Wire(inbox) # <<>>
        /\ Wire(inbox)[Len(Wire(inbox))] = AllByPrice(inbox[Len(inbox)].after)
    BY <1>1, <2>1, WireType
  <2> QED
    BY <1>3, <2>2 DEF Told
<1> QED
  BY <1>2, <1>3

LEMMA WireAppend ==
  ASSUME NEW box \in Seq(Message), NEW message \in Message
  PROVE  Wire(Append(box, message)) = Append(Wire(box), AllByPrice(message.after))
<1> DEFINE view == AllByPrice(message.after)
           longer == Append(box, message)
<1>1. /\ longer \in Seq(Message) /\ Len(longer) = Len(box) + 1 /\ Len(box) \in Nat
      /\ \A n \in 1..Len(box) : longer[n] = box[n]
      /\ longer[Len(box) + 1] = message
  OBVIOUS
<1>2. view \in Views
  BY MessageAfter, ViewType
<1> HIDE DEF view, longer
<1>3. /\ Wire(longer) \in Seq(Views) /\ Len(Wire(longer)) = Len(box) + 1
      /\ \A n \in 1..Len(box) + 1 : Wire(longer)[n] = AllByPrice(longer[n].after)
  BY <1>1, WireType
<1>4. /\ Append(Wire(box), view) \in Seq(Views)
      /\ Len(Append(Wire(box), view)) = Len(box) + 1
      /\ \A n \in 1..Len(box) : Append(Wire(box), view)[n] = Wire(box)[n]
      /\ Append(Wire(box), view)[Len(box) + 1] = view
  BY <1>2, WireType
<1>5. ASSUME NEW n \in 1..Len(box) + 1 PROVE Wire(longer)[n] = Append(Wire(box), view)[n]
  <2>1. CASE n \in 1..Len(box)
    BY <1>1, <1>3, <1>4, <2>1, WireType
  <2>2. CASE n = Len(box) + 1
    BY <1>1, <1>3, <1>4, <2>2 DEF view
  <2>3. n \in 1..Len(box) \/ n = Len(box) + 1
    <3>1. Len(box) \in Nat
      OBVIOUS
    <3> QED
      BY <3>1
  <2> QED
    BY <2>1, <2>2, <2>3
<1>6. Wire(longer) = Append(Wire(box), view)
  BY <1>3, <1>4, <1>5, SeqEqual
<1> QED
  BY <1>6 DEF view, longer

LEMMA WireTail ==
  ASSUME NEW box \in Seq(Message), box # <<>>
  PROVE  /\ Wire(box) # <<>> /\ Wire(Tail(box)) = Tail(Wire(box))
         /\ Head(Wire(box)) = AllByPrice(Head(box).after)
<1> DEFINE rest == Tail(box)
<1>1. /\ rest \in Seq(Message) /\ Len(rest) = Len(box) - 1 /\ Len(box) \in Nat \ {0}
      /\ \A n \in 1..Len(rest) : rest[n] = box[n + 1]
      /\ Head(box) = box[1]
  OBVIOUS
<1> HIDE DEF rest
<1>2. /\ Wire(rest) \in Seq(Views) /\ Len(Wire(rest)) = Len(rest)
      /\ \A n \in 1..Len(rest) : Wire(rest)[n] = AllByPrice(rest[n].after)
  BY <1>1, WireType
<1>3. Wire(box) # <<>> /\ Head(Wire(box)) = Wire(box)[1]
  BY <1>1, WireType
<1>4. /\ Tail(Wire(box)) \in Seq(Views) /\ Len(Tail(Wire(box))) = Len(rest)
      /\ \A n \in 1..Len(rest) : Tail(Wire(box))[n] = Wire(box)[n + 1]
  BY <1>1, <1>3, WireType
<1>5. ASSUME NEW n \in 1..Len(rest) PROVE Wire(rest)[n] = Tail(Wire(box))[n]
  <2>1. n + 1 \in 1..Len(box)
    BY <1>1
  <2> QED
    BY <1>1, <1>2, <1>4, <2>1, WireType
<1>6. Wire(rest) = Tail(Wire(box))
  BY <1>2, <1>4, <1>5, SeqEqual
<1> QED
  BY <1>1, <1>3, <1>6, WireType DEF rest

Fed == <<AllByPrice(lob), Wire(inbox), AllByPrice(at), synced, mbp>>

LEMMA FeedInitially ==
  ASSUME Init
  PROVE  Feed!Init
<1>1. TypeOK
  BY InitType
<1>2. AllByPrice(lob) \in [Symbols -> Depth]
  BY <1>1, ViewType DEF TypeOK, Views
<1>3. mbp \in [Symbols -> Depth]
  BY <1>1 DEF TypeOK
<1>4. inbox = <<>> /\ at = lob /\ synced = {}
  BY DEF Init
<1>5. [n \in DOMAIN inbox |-> AllByPrice(inbox[n].after)] = <<>>
  BY <1>4
<1> QED
  BY <1>2, <1>3, <1>4, <1>5 DEF Feed!Init

LEMMA FeedTakes ==
  ASSUME TypeOK, TypeOK', BookMirrored', NEW type, Receive(type),
         at' = Head(inbox).after, lob' = lob
  PROVE  Feed!Take
<1>1. inbox \in Seq(Message) /\ inbox # <<>> /\ inbox' = Tail(inbox)
  BY DEF TypeOK, Receive
<1>2. /\ Wire(inbox) # <<>> /\ Wire(inbox') = Tail(Wire(inbox))
      /\ AllByPrice(at') = Head(Wire(inbox))
  BY <1>1, WireTail
<1>3. synced' \subseteq Symbols /\ mbp' \in [Symbols -> Depth]
  BY DEF TypeOK
<1>4. \A s \in synced' : mbp'[s] = AllByPrice(at')[s]
  BY <1>3 DEF BookMirrored, AllByPrice
<1>5. AllByPrice(lob') = AllByPrice(lob)
  OBVIOUS
<1> QED
  BY <1>2, <1>3, <1>4, <1>5 DEF Feed!Take, Wire

LEMMA FeedGrows ==
  ASSUME TypeOK, NEW message \in Message, inbox' = Append(inbox, message),
         at' = at, synced' = synced, mbp' = mbp,
         \/ lob' = lob /\ message.after \in {Told, lob}
         \/ lob' \in Book /\ message.after = lob'
  PROVE  Feed!Next
<1>1. Wire(inbox') = Append(Wire(inbox), AllByPrice(message.after))
  BY WireAppend DEF TypeOK
<1>2. CASE lob' = lob /\ message.after = Told
  <2>1. Wire(inbox') = Append(Wire(inbox), IF Wire(inbox) = <<>> THEN AllByPrice(at)
                                           ELSE Wire(inbox)[Len(Wire(inbox))])
    BY <1>1, <1>2, WireLast
  <2>2. Feed!Repeat
    BY <1>2, <2>1 DEF Feed!Repeat, Wire
  <2> QED
    BY <2>2 DEF Feed!Next
<1>3. CASE lob' = lob /\ message.after = lob
  <2>1. Feed!Start
    BY <1>1, <1>3 DEF Feed!Start, Wire
  <2> QED
    BY <2>1 DEF Feed!Next
<1>4. CASE lob' \in Book /\ message.after = lob'
  <2>1. AllByPrice(lob') \in [Symbols -> Depth]
    BY <1>4, ViewType DEF Views
  <2>2. Feed!Change
    BY <1>1, <1>4, <2>1 DEF Feed!Change, Wire
  <2> QED
    BY <2>2 DEF Feed!Next
<1> QED
  BY <1>2, <1>3, <1>4

(* A change that nobody is told of.                                        *)
LEMMA FeedChanges ==
  ASSUME inbox' = inbox, at' = at, synced' = synced, mbp' = mbp, lob' \in Book
  PROVE  Feed!Next
<1>1. AllByPrice(lob') \in [Symbols -> Depth]
  BY ViewType DEF Views
<1>2. Feed!Change
  BY <1>1 DEF Feed!Change
<1> QED
  BY <1>2 DEF Feed!Next

LEMMA HandleFeeds ==
  ASSUME StableQuotes, Inductive, Handle, Next
  PROVE  Feed!Next /\ Silent'
<1>1. Inductive'
  BY InductiveNext
<1>2. TypeOK /\ TypeOK' /\ BookMirrored'
  BY <1>1 DEF Inductive
<1>3. PICK type : Receive(type)
  BY DEF Handle, OnWelcome, OnSubscribe, OnError, OnUnsubscribe, OnInstrumentPartial,
         OnInstrumentUpdate, OnInstrumentIgnored, OnFunding, OnOrderBookL2Early,
         OnOrderBookL2, OnOrderBookL2Unpriced
<1>4. at' = Head(inbox).after /\ lob' = lob /\ link' \in {link, "closing"}
  BY DEF Handle, OnWelcome, OnSubscribe, OnError, OnUnsubscribe, OnInstrumentPartial,
         OnInstrumentUpdate, OnInstrumentIgnored, OnFunding, OnOrderBookL2Early,
         OnOrderBookL2, OnOrderBookL2Unpriced, exchange
<1>5. Feed!Take
  BY <1>2, <1>3, <1>4, FeedTakes
<1>6. link # "down"
  BY <1>3 DEF Receive
<1> QED
  BY <1>4, <1>5, <1>6 DEF Feed!Next, Silent

LEMMA AnswerFeeds ==
  ASSUME TypeOK, Answer \/ ExchangeRefuses
  PROVE  Feed!Next /\ Silent'
<1>1. /\ at' = at /\ synced' = synced /\ mbp' = mbp /\ lob' = lob /\ link' = link
  BY DEF Answer, ExchangeRefuses, ExchangeSubscribes, ExchangeUnsubscribes,
         InstrumentPartial, OrderBookL2Partial, exchange, books
<1>2. PICK message \in Message : Send(<<message>>) /\ message.after \in {Told, lob}
  <2>1. lob \in Book /\ listed \in SUBSET Symbols
    BY DEF TypeOK
  <2>2. CASE ExchangeSubscribes
    <3> DEFINE book == IF Head(outbox).topic = "orderBookL2" THEN lob ELSE Told
               message == [type |-> "subscribe", topic |-> Head(outbox).topic, after |-> book]
    <3>1. Head(outbox).topic \in Topics /\ book \in Book
      BY <2>1, <2>2, ServeType, ToldType DEF ExchangeSubscribes
    <3>2. message \in Message
      BY <3>1, MessageTypes
    <3>3. Send(<<message>>)
      BY <2>2 DEF ExchangeSubscribes
    <3>4. message.after \in {Told, lob}
      OBVIOUS
    <3> HIDE DEF message
    <3> QED
      BY <3>2, <3>3, <3>4
  <2>3. CASE ExchangeUnsubscribes \/ ExchangeRefuses
    <3>1. PICK type \in {"error", "unsubscribe"} : Send(<<Plain(type)>>)
      BY <2>3 DEF ExchangeUnsubscribes, ExchangeRefuses
    <3>2. Plain(type) \in Message
      BY <3>1, MessageTypes
    <3>3. Plain(type).after = Told
      BY DEF Plain
    <3> QED
      BY <3>1, <3>2, <3>3
  <2>4. CASE InstrumentPartial
    <3>1. Instrument("PARTIAL", listed) \in Message
      BY <2>1, MessageTypes DEF Actions
    <3>2. Instrument("PARTIAL", listed).after = Told
      BY DEF Instrument
    <3> QED
      BY <2>4, <3>1, <3>2 DEF InstrumentPartial
  <2>5. CASE OrderBookL2Partial
    <3>1. OrderBookL2("PARTIAL", Snapshot, {}, lob) \in Message
      BY <2>1, SnapshotType, MessageTypes DEF Actions
    <3>2. OrderBookL2("PARTIAL", Snapshot, {}, lob).after = lob
      BY DEF OrderBookL2
    <3> QED
      BY <2>5, <3>1, <3>2 DEF OrderBookL2Partial
  <2> QED
    BY <2>2, <2>3, <2>4, <2>5 DEF Answer
<1>3. inbox' = Append(inbox, message) /\ link = "up"
  BY <1>2, Sends
<1> QED
  BY <1>1, <1>2, <1>3, FeedGrows DEF Silent

LEMMA ExchangeFeeds ==
  ASSUME Inductive, Silent, \/ SymbolListed \/ InstrumentChanges \/ FundingPublished
                            \/ BookChanges \/ BookChangesUnseen
  PROVE  (Feed!Next \/ UNCHANGED Fed) /\ Silent'
<1>1. TypeOK /\ lob \in QuotedBook
  BY DEF Inductive, TellsTrue
<1>2. /\ at' = at /\ synced' = synced /\ mbp' = mbp /\ link' = link
  BY DEF SymbolListed, InstrumentChanges, FundingPublished, BookChanges,
         BookChangesUnseen, books
<1>3. Silent'
  <2>1. link # "up" => inbox' = inbox
    BY DEF SymbolListed, InstrumentChanges, FundingPublished, BookChanges,
           BookChangesUnseen, Tell
  <2> QED
    BY <1>2, <2>1 DEF Silent
<1>4. CASE SymbolListed \/ InstrumentChanges \/ FundingPublished
  <2>1. PICK message \in Message : message.after = Told
                                   /\ inbox' \in {inbox, Append(inbox, message)}
    BY <1>1, <1>4, NewsSent
  <2>2. lob' = lob
    BY <1>4 DEF SymbolListed, InstrumentChanges, FundingPublished, exchange
  <2>3. CASE inbox' = inbox
    BY <1>2, <1>3, <2>2, <2>3 DEF Fed
  <2>4. CASE inbox' = Append(inbox, message)
    BY <1>1, <1>2, <1>3, <2>1, <2>2, <2>4, FeedGrows
  <2> QED
    BY <2>1, <2>3, <2>4
<1>5. CASE BookChanges \/ BookChangesUnseen
  <2>1. PICK message \in Message : /\ lob' \in QuotedBook /\ message.after = lob'
                                   /\ Tell("orderBookL2", message)
    BY <1>1, <1>5, ChangeSent
  <2>2. lob' \in Book /\ inbox' \in {inbox, Append(inbox, message)}
    BY <2>1 DEF QuotedBook, Tell
  <2> QED
    BY <1>1, <1>2, <1>3, <2>1, <2>2, FeedGrows, FeedChanges
<1> QED
  BY <1>4, <1>5

LEMMA ConnectionFeeds ==
  ASSUME TypeOK, Silent, TransportReady \/ TransportLost \/ TransportClosed
  PROVE  Feed!Next /\ Silent'
<1>1. CASE TransportReady
  <2> DEFINE message == [type |-> "welcome", after |-> at]
  <2>1. message \in Message /\ message.after = at
    BY DEF TypeOK, Message
  <2>2. inbox = <<>> /\ inbox' = <<message>> /\ link' = "up"
    BY <1>1 DEF TransportReady, Silent
  <2> HIDE DEF message
  <2>3. inbox' = Append(inbox, message) /\ Told = at
    BY <2>2 DEF Told
  <2>4. at' = at /\ synced' = synced /\ mbp' = mbp /\ lob' = lob
    BY <1>1 DEF TransportReady, books, exchange
  <2> QED
    BY <2>1, <2>2, <2>3, <2>4, FeedGrows DEF Silent
<1>2. CASE TransportLost \/ TransportClosed
  <2>1. /\ inbox' = <<>> /\ synced' = {} /\ at' = at /\ mbp' = mbp /\ lob' = lob
    BY <1>2 DEF TransportLost, TransportClosed, Disconnected, exchange
  <2>2. [n \in DOMAIN inbox' |-> AllByPrice(inbox'[n].after)] = <<>>
    BY <2>1
  <2>3. Feed!Break
    BY <2>1, <2>2 DEF Feed!Break
  <2> QED
    BY <2>1, <2>3 DEF Feed!Next, Silent
<1> QED
  BY <1>1, <1>2

LEMMA StepFeeds ==
  ASSUME StableQuotes, Inductive, Silent, [Next]_vars
  PROVE  Inductive' /\ Silent' /\ (Feed!Next \/ UNCHANGED Fed)
<1>1. Inductive'
  BY InductiveNext
<1>2. CASE UNCHANGED vars
  BY <1>1, <1>2 DEF vars, books, wire, exchange, Silent, Fed
<1>3. CASE Next
  <2>1. CASE Handle
    BY <1>1, <1>3, <2>1, HandleFeeds
  <2>2. CASE ~Handle
    BY <1>1, <1>3, <2>2, AnswerFeeds, ExchangeFeeds, ConnectionFeeds DEF Next, Inductive
  <2> QED
    BY <2>1, <2>2
<1> QED
  BY <1>2, <1>3

(* The session implements BookFeed: whatever is lost, refused, left out or *)
(* cut short, the book shown for a live symbol is the one of the latest    *)
(* view of a feed that is taken in order (market_data.cpp:470-550).        *)
THEOREM FeedFollowed ==
  ASSUME StableQuotes
  PROVE  Spec => FollowsFeed
<1>1. Init => Inductive /\ Silent /\ Feed!Init
  BY InductiveInit, FeedInitially DEF Init, Silent
<1>2. Inductive /\ Silent /\ [Next]_vars => Inductive' /\ Silent' /\ [Feed!Next]_Fed
  BY StepFeeds
<1> QED
  BY <1>1, <1>2, PTL DEF Spec, FollowsFeed, Feed!Spec, Feed!vars, Fed, Wire

-------------------------------------------------------------------------------
(* Discarded symbols.                                                      *)

LEMMA ProcessHides ==
  ASSUME DiscardedHidden, NEW m \in Message, m.type = "orderBookL2",
         NEW rows \in SUBSET Kept(m), NEW groups \in SUBSET Named(Kept(m)), NEW rejected,
         Process(m, rows, groups, rejected)
  PROVE  DiscardedHidden'
<1> SUFFICES ASSUME NEW i \in Ids, SymbolOf[i] \in Discarded
             PROVE  cache'[i] = NoPrice /\ mbp'[SymbolOf[i]] = EmptyDepth
  BY DEF DiscardedHidden
<1>1. i \notin Kept(m) /\ SymbolOf[i] \notin groups
  BY KeptNamed DEF Kept
<1>2. SymbolOf[i] \in Symbols
  BY SymbolsAssumption
<1> QED
  BY <1>1, <1>2 DEF Process, DiscardedHidden

LEMMA HiddenNext == TypeOK /\ DiscardedHidden /\ [Next]_vars => DiscardedHidden'
<1> SUFFICES ASSUME TypeOK, DiscardedHidden, [Next]_vars
             PROVE  DiscardedHidden'
  OBVIOUS
<1>1. CASE cache' = cache /\ mbp' = mbp
  BY <1>1 DEF DiscardedHidden
<1>2. CASE OnOrderBookL2
  <2> DEFINE m == Head(inbox)
  <2>1. m \in Message /\ m.type = "orderBookL2"
    BY <1>2, HeadTail DEF OnOrderBookL2
  <2>2. PICK rejected : Process(m, Kept(m), Named(Kept(m)), rejected)
    BY <1>2 DEF OnOrderBookL2
  <2> HIDE DEF m
  <2> QED
    BY <2>1, <2>2, ProcessHides
<1>3. CASE OnOrderBookL2Unpriced
  <2> DEFINE m == Head(inbox)
  <2>1. m \in Message /\ m.type = "orderBookL2"
    BY <1>3, HeadTail DEF OnOrderBookL2Unpriced
  <2>2. PICK groups \in SUBSET Named(Kept(m)), own \in SUBSET Kept(m) :
          \E rejected : Process(m, own \cup {j \in Kept(m) : SymbolOf[j] \in groups},
                               groups, rejected)
    BY <1>3 DEF OnOrderBookL2Unpriced, StopAt
  <2>3. PICK rejected : Process(m, own \cup {j \in Kept(m) : SymbolOf[j] \in groups},
                                groups, rejected)
    BY <2>2
  <2> HIDE DEF m
  <2>4. own \cup {j \in Kept(m) : SymbolOf[j] \in groups} \in SUBSET Kept(m)
    BY <2>2
  <2> QED
    BY <2>1, <2>3, <2>4, ProcessHides
<1>4. CASE UNCHANGED vars
  BY <1>1, <1>4 DEF vars, books
<1>5. CASE Next /\ ~OnOrderBookL2 /\ ~OnOrderBookL2Unpriced
  <2>1. CASE Handle
    BY <1>1, <1>5, <2>1
       DEF Handle, OnWelcome, OnSubscribe, OnError, OnUnsubscribe, OnInstrumentPartial,
           OnInstrumentUpdate, OnInstrumentIgnored, OnFunding, OnOrderBookL2Early
  <2>2. CASE ~Handle
    BY <1>1, <1>5, <2>2
       DEF Next, Answer, ExchangeRefuses, ExchangeSubscribes, ExchangeUnsubscribes,
           InstrumentPartial, OrderBookL2Partial, BookChanges, BookChangesUnseen,
           SymbolListed, InstrumentChanges, FundingPublished, TransportReady,
           TransportLost, TransportClosed, Disconnected, books
  <2> QED
    BY <2>1, <2>2
<1> QED
  BY <1>2, <1>3, <1>4, <1>5

(* A discarded symbol is never shown a book and its ids never enter the    *)
(* price cache, whatever the session goes through (the discard check of    *)
(* market_data.cpp:470-550).                                               *)
THEOREM DiscardedStayHidden == Spec => []DiscardedHidden
<1>1. Init => TypeOK /\ DiscardedHidden
  <2>1. Init => DiscardedHidden
    BY SymbolsAssumption DEF Init, DiscardedHidden, EmptyLookup
  <2> QED
    BY <2>1, InitType
<1>2. TypeOK /\ DiscardedHidden /\ [Next]_vars => TypeOK' /\ DiscardedHidden'
  BY NextType, HiddenNext
<1> QED
  BY <1>1, <1>2, PTL DEF Spec


-------------------------------------------------------------------------------
(* Sessions without a gap.  A session has one PARTIAL of the order books: a  *)
(* second subscription comes after an unsubscription, whose confirmation     *)
(* ends the process.  So the book the gateway has been told of changes only  *)
(* by messages it reads, and while no row is left out the price cache knows  *)
(* every level it needs.                                                     *)

Lossless == budget["lose"] = Budget["lose"]
Unrefused == budget["reject"] = Budget["reject"]

OpensBook(m) == m.type = "orderBookL2" /\ m.action = "PARTIAL"
Restarts(m) == m.type = "subscribe" /\ m.topic = "orderBookL2"
Asks(request) == request.op = "subscribe" /\ request.topic = "orderBookL2"
Unsubscribed(n) == \E k \in DOMAIN inbox : k < n /\ inbox[k].type = "unsubscribe"
Opened(n) == partial["orderBookL2"] \/ \E k \in DOMAIN inbox : k < n /\ OpensBook(inbox[k])

FirstAsk(n) == /\ ~Opened(Len(inbox) + 1) /\ topics["orderBookL2"] = "off"
               /\ \A k \in DOMAIN outbox : k < n => outbox[k].topic # "orderBookL2"
OneOpening ==
  /\ \A n \in DOMAIN inbox : Restarts(inbox[n]) => Unsubscribed(n) \/ ~Opened(n)
  /\ \A n \in DOMAIN outbox : Asks(outbox[n]) =>
       \/ \E k \in DOMAIN outbox : k < n /\ outbox[k].op = "unsubscribe"
       \/ Unsubscribed(Len(inbox) + 1)
       \/ FirstAsk(n)

LEMMA ReadingOnce ==
  ASSUME TypeOK, OneOpening, NEW type, Receive(type), type # "unsubscribe", topics' = topics,
         partial'["orderBookL2"] => partial["orderBookL2"] \/ OpensBook(inbox[1]),
         NEW requests \in Seq(Request), outbox' = outbox \o requests,
         \A n \in DOMAIN requests : Asks(requests[n]) =>
           \/ \E k \in DOMAIN requests : k < n /\ requests[k].op = "unsubscribe"
           \/ /\ \A k \in DOMAIN requests : k < n => requests[k].topic # "orderBookL2"
              /\ ~Opened(Len(inbox) + 1) /\ topics["orderBookL2"] = "off"
              /\ \A k \in DOMAIN outbox : outbox[k].topic # "orderBookL2"
  PROVE  OneOpening'
<1>1. /\ 1 \in DOMAIN inbox /\ inbox[1].type = type
      /\ \A n \in DOMAIN inbox' : /\ n \in Nat /\ n >= 1 /\ n + 1 \in DOMAIN inbox
                                  /\ inbox'[n] = inbox[n + 1]
      /\ \A n \in DOMAIN inbox : /\ n \in Nat /\ n >= 1
                                 /\ n # 1 => /\ n - 1 \in DOMAIN inbox'
                                             /\ inbox'[n - 1] = inbox[n]
  BY Takes
<1>2. Len(inbox') \in Nat /\ Len(inbox) = Len(inbox') + 1
  BY DEF TypeOK, Receive
<1>3. ASSUME NEW n \in Nat, Unsubscribed(n + 1) PROVE Unsubscribed(n)'
  <2>1. PICK k \in DOMAIN inbox : k < n + 1 /\ inbox[k].type = "unsubscribe"
    BY <1>3 DEF Unsubscribed
  <2>2. k - 1 \in DOMAIN inbox' /\ inbox'[k - 1] = inbox[k] /\ k - 1 < n
    BY <1>1, <2>1
  <2> QED
    BY <2>1, <2>2 DEF Unsubscribed
<1>4. ASSUME NEW n \in Nat, n >= 1, Opened(n)' PROVE Opened(n + 1)
  <2>1. CASE partial'["orderBookL2"]
    BY <1>1, <1>4, <2>1 DEF Opened
  <2>2. ASSUME NEW k \in DOMAIN inbox', k < n, OpensBook(inbox'[k]) PROVE Opened(n + 1)
    <3>1. k + 1 \in DOMAIN inbox /\ OpensBook(inbox[k + 1]) /\ k + 1 < n + 1
      BY <1>1, <2>2
    <3> QED
      BY <3>1 DEF Opened
  <2> QED
    BY <1>4, <2>1, <2>2 DEF Opened
<1>5. PICK last \in Nat : last = Len(inbox') + 1 /\ last + 1 = Len(inbox) + 1 /\ last >= 1
  BY <1>2
<1>6. ASSUME NEW n \in DOMAIN inbox', Restarts(inbox'[n])
      PROVE  Unsubscribed(n)' \/ ~Opened(n)'
  <2>1. n \in Nat /\ n >= 1 /\ n + 1 \in DOMAIN inbox /\ Restarts(inbox[n + 1])
    BY <1>1, <1>6
  <2>2. Unsubscribed(n + 1) \/ ~Opened(n + 1)
    BY <2>1 DEF OneOpening
  <2> QED
    BY <1>3, <1>4, <2>1, <2>2
<1>7. outbox \in Seq(Request) /\ Len(outbox) \in Nat
  BY DEF TypeOK
<1>8. ASSUME NEW n \in DOMAIN outbox', Asks(outbox'[n])
      PROVE  \/ \E k \in DOMAIN outbox' : k < n /\ outbox'[k].op = "unsubscribe"
             \/ Unsubscribed(last)'
             \/ /\ ~Opened(last)' /\ topics["orderBookL2"] = "off"
                /\ \A k \in DOMAIN outbox' : k < n => outbox'[k].topic # "orderBookL2"
  <2>1. /\ n \in Nat
        /\ \A k \in DOMAIN outbox : k \in DOMAIN outbox' /\ outbox'[k] = outbox[k] /\ k \in Nat
        /\ \A k \in DOMAIN requests : /\ k \in Nat /\ Len(outbox) + k \in DOMAIN outbox'
                                      /\ outbox'[Len(outbox) + k] = requests[k]
    BY <1>7
  <2>2. CASE n \in DOMAIN outbox
    <3>1. \A k \in DOMAIN outbox' : k < n => k \in DOMAIN outbox
      BY <1>7, <2>2
    <3>2. CASE \E k \in DOMAIN outbox : k < n /\ outbox[k].op = "unsubscribe"
      BY <2>1, <3>2
    <3>3. CASE Unsubscribed(Len(inbox) + 1)
      BY <1>3, <1>5, <3>3
    <3>4. CASE FirstAsk(n)
      BY <1>4, <1>5, <2>1, <3>1, <3>4 DEF FirstAsk
    <3> QED
      BY <1>8, <2>1, <2>2, <3>2, <3>3, <3>4 DEF OneOpening
  <2>3. CASE n \notin DOMAIN outbox
    <3>1. PICK j \in DOMAIN requests : j \in Nat /\ n = Len(outbox) + j /\ outbox'[n] = requests[j]
      <4>1. n - Len(outbox) \in DOMAIN requests /\ outbox'[n] = requests[n - Len(outbox)]
        BY <1>7, <2>3
      <4> QED
        BY <1>7, <2>1, <4>1
    <3>2. ASSUME NEW k \in DOMAIN requests, k < j, requests[k].op = "unsubscribe"
          PROVE  \E l \in DOMAIN outbox' : l < n /\ outbox'[l].op = "unsubscribe"
      <4>1. /\ Len(outbox) + k \in DOMAIN outbox'
            /\ outbox'[Len(outbox) + k].op = "unsubscribe"
        BY <2>1, <3>2
      <4>2. Len(outbox) + k < n
        BY <1>7, <2>1, <3>1, <3>2
      <4> QED
        BY <4>1, <4>2
    <3>3. ASSUME \A k \in DOMAIN requests : k < j => requests[k].topic # "orderBookL2",
                 \A k \in DOMAIN outbox : outbox[k].topic # "orderBookL2",
                 NEW k \in DOMAIN outbox', k < n
          PROVE  outbox'[k].topic # "orderBookL2"
      <4>1. CASE k \in DOMAIN outbox
        BY <2>1, <3>3, <4>1
      <4>2. CASE k \notin DOMAIN outbox
        <5>1. k - Len(outbox) \in DOMAIN requests /\ outbox'[k] = requests[k - Len(outbox)]
              /\ k \in Nat
          BY <1>7, <3>3, <4>2
        <5>2. k - Len(outbox) < j
          BY <1>7, <3>1, <3>3, <5>1
        <5> QED
          BY <3>3, <5>1, <5>2
      <4> QED
        BY <4>1, <4>2
    <3>4. Asks(requests[j])
      BY <1>8, <3>1
    <3>5. ~Opened(Len(inbox) + 1) => ~Opened(last)'
      BY <1>4, <1>5
    <3> QED
      BY <3>2, <3>3, <3>4, <3>5
  <2> QED
    BY <2>2, <2>3
<1> QED
  BY <1>5, <1>6, <1>8 DEF OneOpening, FirstAsk

LEMMA SendingOnce ==
  ASSUME TypeOK, OneOpening, UNCHANGED partial,
         NEW m \in Message, inbox' = Append(inbox, m),
         Restarts(m) => Unsubscribed(Len(inbox) + 1) \/ ~Opened(Len(inbox) + 1),
         \A n \in DOMAIN outbox' : Asks(outbox'[n]) =>
           \/ \E k \in DOMAIN outbox' : k < n /\ outbox'[k].op = "unsubscribe"
           \/ Unsubscribed(Len(inbox) + 1) \/ m.type = "unsubscribe"
           \/ /\ ~Opened(Len(inbox) + 1) /\ ~OpensBook(m) /\ topics'["orderBookL2"] = "off"
              /\ \A k \in DOMAIN outbox' : k < n => outbox'[k].topic # "orderBookL2"
  PROVE  OneOpening'
<1>0. PICK last \in Nat : last = Len(inbox) + 1
  BY Grows DEF TypeOK
<1>1. /\ DOMAIN inbox' = DOMAIN inbox \cup {last}
      /\ inbox'[last] = m /\ Len(inbox') + 1 = last + 1
      /\ \A n \in DOMAIN inbox : inbox'[n] = inbox[n]
      /\ \A n \in DOMAIN inbox : n \in Nat /\ n < last
  BY <1>0, Grows DEF TypeOK
<1>2. ASSUME NEW n \in Nat, n <= last
      PROVE  (Unsubscribed(n) => Unsubscribed(n)') /\ (Opened(n)' => Opened(n))
  BY <1>1, <1>2 DEF Unsubscribed, Opened
<1>3. /\ Unsubscribed(last) \/ m.type = "unsubscribe" => Unsubscribed(last + 1)'
      /\ Opened(last + 1)' => Opened(last) \/ OpensBook(m)
  BY <1>1 DEF Unsubscribed, Opened
<1>4. ASSUME NEW n \in DOMAIN inbox', Restarts(inbox'[n])
      PROVE  Unsubscribed(n)' \/ ~Opened(n)'
  <2>1. CASE n \in DOMAIN inbox
    BY <1>1, <1>2, <1>4, <2>1 DEF OneOpening
  <2>2. CASE n = last
    BY <1>0, <1>1, <1>2, <1>4, <2>2
  <2> QED
    BY <1>1, <2>1, <2>2
<1>5. \A n \in DOMAIN outbox' : Asks(outbox'[n]) =>
        \/ \E k \in DOMAIN outbox' : k < n /\ outbox'[k].op = "unsubscribe"
        \/ Unsubscribed(last + 1)'
        \/ /\ ~Opened(last + 1)' /\ topics'["orderBookL2"] = "off"
           /\ \A k \in DOMAIN outbox' : k < n => outbox'[k].topic # "orderBookL2"
  BY <1>0, <1>3
<1> QED
  BY <1>1, <1>4, <1>5 DEF OneOpening, FirstAsk

LEMMA ResubscribeAsks ==
  ASSUME NEW rejected \in SUBSET Symbols
  PROVE  /\ Resubscribe(rejected) \in Seq(Request)
         /\ \A n \in DOMAIN Resubscribe(rejected) : Asks(Resubscribe(rejected)[n]) =>
              \E k \in DOMAIN Resubscribe(rejected) :
                k < n /\ Resubscribe(rejected)[k].op = "unsubscribe"
<1>1. PICK last \in Nat : last = 2 * Cardinality(rejected)
  BY ResubscribeType
<1>2. Resubscribe(rejected) = [n \in 1..last |->
                                 [op |-> IF n % 2 = 1 THEN "unsubscribe" ELSE "subscribe",
                                  topic |-> "orderBookL2"]]
  BY <1>1 DEF Resubscribe
<1>3. ASSUME NEW n \in 1..last, Asks(Resubscribe(rejected)[n])
      PROVE  n - 1 \in 1..last /\ n - 1 < n /\ Resubscribe(rejected)[n - 1].op = "unsubscribe"
  <2>1. n % 2 # 1
    BY <1>2, <1>3 DEF Asks
  <2>2. n - 1 \in 1..last /\ (n - 1) % 2 = 1 /\ n - 1 < n
    BY <2>1
  <2> QED
    BY <1>2, <2>2
<1> QED
  BY <1>2, <1>3, ResubscribeType

LEMMA HandleOnce ==
  ASSUME TypeOK, InSession, OneOpening, Handle, alive'
  PROVE  OneOpening'
<1>1. ASSUME NEW type, Receive(type), type # "unsubscribe", topics' = topics,
             partial'["orderBookL2"] => partial["orderBookL2"],
             NEW requests \in Seq(Request), outbox' = outbox \o requests,
             \A n \in DOMAIN requests : ~Asks(requests[n])
      PROVE  OneOpening'
  BY <1>1, ReadingOnce
<1>2. CASE OnWelcome
  <2>1. /\ Receive("welcome") /\ outbox' = outbox \o <<>> \o Subscribe("instrument")
        /\ UNCHANGED <<partial, topics>>
    BY <1>2 DEF OnWelcome, DownloadInstrument
  <2>2. /\ outbox' = outbox \o Subscribe("instrument")
        /\ \A n \in DOMAIN Subscribe("instrument") : ~Asks(Subscribe("instrument")[n])
    BY <2>1 DEF TypeOK, Subscribe, Asks
  <2> QED
    BY <1>1, <2>1, <2>2, RequestTypes
<1>3. CASE \/ OnSubscribe \/ OnError \/ OnInstrumentUpdate \/ OnInstrumentIgnored
           \/ OnFunding \/ OnOrderBookL2Early
  <2>1. PICK type \in {"subscribe", "error", "instrument", "funding", "orderBookL2"} :
          Receive(type)
    BY <1>3 DEF OnSubscribe, OnError, OnInstrumentUpdate, OnInstrumentIgnored,
                OnFunding, OnOrderBookL2Early
  <2>2. UNCHANGED <<gateway, outbox, topics>>
    BY <1>3 DEF OnSubscribe, OnError, OnInstrumentUpdate, OnInstrumentIgnored,
                OnFunding, OnOrderBookL2Early
  <2>3. outbox' = outbox \o <<>> /\ <<>> \in Seq(Request) /\ DOMAIN <<>> = {} /\ partial' = partial
    BY <2>2 DEF TypeOK, gateway
  <2> QED
    BY <1>1, <2>1, <2>2, <2>3
<1>4. CASE OnUnsubscribe
  BY <1>4 DEF OnUnsubscribe
<1>5. CASE OnInstrumentPartial
  <2>1. /\ Receive("instrument") /\ ~partial["instrument"] /\ topics' = topics
        /\ partial' = [partial EXCEPT !["instrument"] = TRUE]
        /\ \/ outbox' = outbox \o <<>> \o Subscribe("orderBookL2")
           \/ outbox' = outbox \o <<>>
    BY <1>5 DEF OnInstrumentPartial, DownloadOrderBookL2, NoDownload
  <2>2. partial'["orderBookL2"] = partial["orderBookL2"]
    BY <2>1 DEF TypeOK, Topics
  <2>3. /\ ~Opened(Len(inbox) + 1) /\ topics["orderBookL2"] = "off"
        /\ \A k \in DOMAIN outbox : outbox[k].topic # "orderBookL2"
    BY <2>1 DEF InSession, BooksWait, Opened, OpensBook
  <2>4. CASE outbox' = outbox \o <<>>
    <3>1. <<>> \in Seq(Request) /\ DOMAIN <<>> = {}
      OBVIOUS
    <3> QED
      BY <1>1, <2>1, <2>2, <2>4, <3>1
  <2>5. CASE outbox' = outbox \o <<>> \o Subscribe("orderBookL2")
    <3>1. /\ outbox' = outbox \o Subscribe("orderBookL2")
          /\ \A n, k \in DOMAIN Subscribe("orderBookL2") : ~(k < n)
      BY <2>5 DEF TypeOK, Subscribe
    <3> QED
      BY <2>1, <2>2, <2>3, <3>1, RequestTypes, ReadingOnce
  <2> QED
    BY <2>1, <2>4, <2>5
<1>6. CASE OnOrderBookL2 \/ OnOrderBookL2Unpriced
  <2>1. /\ Receive("orderBookL2") /\ topics' = topics
        /\ Head(inbox).action = "PARTIAL" \/ partial["orderBookL2"]
    BY <1>6 DEF OnOrderBookL2, OnOrderBookL2Unpriced
  <2>2. partial["orderBookL2"] \/ OpensBook(inbox[1])
    BY <2>1, Takes DEF OpensBook
  <2>3. Named(Kept(Head(inbox))) \subseteq Symbols
    BY <2>1, Takes, KeptNamed
  <2>4. PICK rejected \in SUBSET Symbols : outbox' = outbox \o Resubscribe(rejected)
    <3>1. CASE OnOrderBookL2
      BY <2>3, <3>1 DEF OnOrderBookL2, DownloadDone, NoDownload
    <3>2. CASE OnOrderBookL2Unpriced
      <4>1. PICK i \in Unpriced(Head(inbox)), groups \in SUBSET Named(Kept(Head(inbox))),
                 own \in SUBSET Kept(Head(inbox)), rejected \in SUBSET Named(Kept(Head(inbox))) :
              StopAt(Head(inbox), i, groups, own, rejected)
        BY <3>2 DEF OnOrderBookL2Unpriced
      <4>2. outbox' = outbox \o Resubscribe(rejected)
        BY <4>1 DEF StopAt, NoDownload
      <4> QED
        BY <2>3, <4>2
    <3> QED
      BY <1>6, <3>1, <3>2
  <2> QED
    BY <2>1, <2>2, <2>4, ResubscribeAsks, ReadingOnce
<1> QED
  BY <1>2, <1>3, <1>4, <1>5, <1>6 DEF Handle

LEMMA AnswerOnce ==
  ASSUME TypeOK, OneOpening, Answer \/ ExchangeRefuses
  PROVE  OneOpening'
<1>1. \A x : inbox \o <<x>> = Append(inbox, x)
  BY DEF TypeOK
<1>2. "instrument" \in Topics /\ "orderBookL2" \in Topics
      /\ \A s, t, v : t # s => [topics EXCEPT ![s] = v][t] = topics[t]
  BY DEF Topics
<1>3. partial' = partial
  BY DEF Answer, ExchangeSubscribes, ExchangeUnsubscribes, InstrumentPartial,
         OrderBookL2Partial, ExchangeRefuses, gateway
<1>4. ASSUME NEW op, Serve(op), NEW m \in Message, inbox' = Append(inbox, m),
             op = "unsubscribe" => m.type = "unsubscribe", ~OpensBook(m),
             op = "subscribe" /\ Head(outbox).topic = "instrument" =>
               topics'["orderBookL2"] = topics["orderBookL2"],
             op \in {"subscribe", "unsubscribe"},
             Restarts(m) => Asks(Head(outbox))
      PROVE  OneOpening'
  <2>1. /\ 1 \in DOMAIN outbox /\ outbox[1] = Head(outbox) /\ outbox[1] \in Request
        /\ outbox[1].op = op
        /\ \A n \in DOMAIN outbox' : /\ n \in Nat /\ n >= 1 /\ n + 1 \in DOMAIN outbox
                                     /\ outbox'[n] = outbox[n + 1]
    BY <1>4, Serves
  <2>2. \A n \in DOMAIN outbox : /\ n \in Nat /\ n >= 1
                                 /\ n # 1 => /\ n - 1 \in DOMAIN outbox'
                                             /\ outbox'[n - 1] = outbox[n]
    BY <1>4 DEF TypeOK, Serve
  <2>3. Restarts(m) => Unsubscribed(Len(inbox) + 1) \/ ~Opened(Len(inbox) + 1)
    BY <1>4, <2>1, <2>2 DEF OneOpening, FirstAsk
  <2>4. ASSUME NEW n \in DOMAIN outbox', Asks(outbox'[n])
        PROVE  \/ \E k \in DOMAIN outbox' : k < n /\ outbox'[k].op = "unsubscribe"
               \/ Unsubscribed(Len(inbox) + 1) \/ m.type = "unsubscribe"
               \/ /\ ~Opened(Len(inbox) + 1) /\ ~OpensBook(m) /\ topics'["orderBookL2"] = "off"
                  /\ \A k \in DOMAIN outbox' : k < n => outbox'[k].topic # "orderBookL2"
    <3>1. n \in Nat /\ n + 1 \in DOMAIN outbox /\ n >= 1 /\ Asks(outbox[n + 1])
      BY <2>1, <2>4
    <3>2. ASSUME NEW k \in DOMAIN outbox, k < n + 1, outbox[k].op = "unsubscribe"
          PROVE  \/ \E j \in DOMAIN outbox' : j < n /\ outbox'[j].op = "unsubscribe"
                 \/ m.type = "unsubscribe"
      <4>1. CASE k = 1
        BY <1>4, <2>1, <3>2, <4>1
      <4>2. CASE k # 1
        <5>1. k - 1 \in DOMAIN outbox' /\ outbox'[k - 1] = outbox[k] /\ k - 1 < n
          BY <2>2, <3>1, <3>2, <4>2
        <5> QED
          BY <3>2, <5>1
      <4> QED
        BY <4>1, <4>2
    <3>3. CASE FirstAsk(n + 1)
      <4>1. outbox[1].topic # "orderBookL2" /\ outbox[1].topic \in Topics
        BY <2>1, <3>1, <3>3 DEF FirstAsk, Request
      <4>2. op = "subscribe" => topics'["orderBookL2"] = "off"
        BY <1>4, <2>1, <3>3, <4>1 DEF FirstAsk, Topics
      <4>3. \A k \in DOMAIN outbox' : k < n => outbox'[k].topic # "orderBookL2"
        BY <2>1, <3>1, <3>3 DEF FirstAsk
      <4> QED
        BY <1>4, <3>3, <4>2, <4>3 DEF FirstAsk
    <3> QED
      BY <3>1, <3>2, <3>3 DEF OneOpening
  <2> QED
    BY <1>3, <1>4, <2>3, <2>4, SendingOnce
<1>5. CASE ExchangeSubscribes
  <2> DEFINE m == [type |-> "subscribe", topic |-> Head(outbox).topic,
                   after |-> IF Head(outbox).topic = "orderBookL2" THEN lob ELSE Told]
  <2>1. Serve("subscribe") /\ topics' = [topics EXCEPT ![Head(outbox).topic] = "pending"]
    BY <1>5 DEF ExchangeSubscribes
  <2>2. Head(outbox).topic \in Topics /\ Head(outbox).op = "subscribe"
    BY <2>1, Serves DEF Request
  <2>3. (IF Head(outbox).topic = "orderBookL2" THEN lob ELSE Told) \in Book
    BY ToldType DEF TypeOK
  <2>4. m \in Message
    BY <2>2, <2>3, MessageTypes
  <2>5. inbox' = Append(inbox, m)
    BY <1>1, <1>5 DEF ExchangeSubscribes, Send
  <2>6. ~OpensBook(m) /\ (Restarts(m) => Asks(Head(outbox)))
    BY <2>2 DEF OpensBook, Restarts, Asks
  <2>7. Head(outbox).topic = "instrument" => topics'["orderBookL2"] = topics["orderBookL2"]
    BY <1>2, <2>1
  <2> QED
    BY <1>4, <2>1, <2>4, <2>5, <2>6, <2>7
<1>6. ASSUME NEW type \in {"unsubscribe", "error"}, inbox' = Append(inbox, Plain(type))
      PROVE  /\ Plain(type) \in Message /\ Plain(type).type = type
             /\ ~OpensBook(Plain(type)) /\ ~Restarts(Plain(type))
  BY MessageTypes DEF Plain, OpensBook, Restarts
<1>7. CASE ExchangeUnsubscribes
  <2>1. Serve("unsubscribe") /\ inbox' = Append(inbox, Plain("unsubscribe"))
    BY <1>1, <1>7 DEF ExchangeUnsubscribes, Send
  <2> QED
    BY <1>4, <1>6, <2>1
<1>8. CASE ExchangeRefuses
  <2>1. Serve("subscribe") /\ inbox' = Append(inbox, Plain("error")) /\ topics' = topics
    BY <1>1, <1>8 DEF ExchangeRefuses, Send
  <2> QED
    BY <1>4, <1>6, <2>1
<1>9. CASE InstrumentPartial
  <2> DEFINE m == Instrument("PARTIAL", listed)
  <2>1. inbox' = Append(inbox, m) /\ outbox' = outbox
        /\ topics' = [topics EXCEPT !["instrument"] = "on"]
    BY <1>1, <1>9 DEF InstrumentPartial, Send
  <2>2. m \in Message
    BY MessageTypes DEF Actions, TypeOK
  <2>3. ~OpensBook(m) /\ ~Restarts(m)
    BY DEF Instrument, OpensBook, Restarts
  <2>4. topics'["orderBookL2"] = topics["orderBookL2"]
    BY <1>2, <2>1
  <2> HIDE DEF m
  <2> QED
    BY <1>3, <2>1, <2>2, <2>3, <2>4, SendingOnce DEF OneOpening, FirstAsk
<1>10. CASE OrderBookL2Partial
  <2> DEFINE m == OrderBookL2("PARTIAL", Snapshot, {}, lob)
  <2>1. inbox' = Append(inbox, m) /\ outbox' = outbox /\ topics["orderBookL2"] = "pending"
    BY <1>1, <1>10 DEF OrderBookL2Partial, Send
  <2>2. m \in Message
    BY MessageTypes, SnapshotType DEF Actions, TypeOK
  <2>3. ~Restarts(m)
    BY DEF OrderBookL2, Restarts
  <2> HIDE DEF m
  <2> QED
    BY <1>3, <2>1, <2>2, <2>3, SendingOnce DEF OneOpening, FirstAsk
<1> QED
  BY <1>5, <1>7, <1>8, <1>9, <1>10 DEF Answer

(* What the exchange tells of changes, whatever it is.                       *)
LEMMA ChangeTold ==
  ASSUME TypeOK, \/ BookChanges \/ BookChangesUnseen \/ SymbolListed
                 \/ InstrumentChanges \/ FundingPublished
  PROVE  /\ UNCHANGED <<alive, gateway, books, link, outbox, topics>>
         /\ \E event \in Events \ {"reject"} :
              /\ Spend(event)
              /\ \/ UNCHANGED inbox
                 \/ \E m \in Message :
                      /\ inbox' = Append(inbox, m)
                      /\ ~OpensBook(m) /\ ~Restarts(m) /\ m.type # "unsubscribe"
                      /\ m.type = "orderBookL2" /\ m.lost # {} => event = "lose"
<1>1. UNCHANGED <<alive, gateway, books, link, outbox, topics>>
  BY DEF BookChanges, BookChangesUnseen, SymbolListed, InstrumentChanges, FundingPublished
<1>2. ASSUME NEW topic, NEW m \in Message, Tell(topic, m), NEW event \in Events \ {"reject"},
             Spend(event), ~OpensBook(m), ~Restarts(m), m.type # "unsubscribe",
             m.type = "orderBookL2" /\ m.lost # {} => event = "lose"
      PROVE  \E e \in Events \ {"reject"} :
               /\ Spend(e)
               /\ \/ UNCHANGED inbox
                  \/ \E x \in Message :
                       /\ inbox' = Append(inbox, x)
                       /\ ~OpensBook(x) /\ ~Restarts(x) /\ x.type # "unsubscribe"
                       /\ x.type = "orderBookL2" /\ x.lost # {} => e = "lose"
  <2>1. UNCHANGED inbox \/ inbox' = Append(inbox, m)
    BY <1>2 DEF Tell
  <2> QED
    BY <1>2, <2>1
<1>3. {"change", "lose", "list", "instrument", "funding"} \subseteq Events \ {"reject"}
  BY DEF Events
<1>4. CASE BookChanges
  <2>1. PICK book \in QuotedBook, action \in {"INSERT", "UPDATE", "DELETE"}, priced \in Priced :
          Tell("orderBookL2", OrderBookL2(action, Delta(action, priced, book), {}, book))
    BY <1>4 DEF BookChanges
  <2> DEFINE m == OrderBookL2(action, Delta(action, priced, book), {}, book)
  <2>2. Delta(action, priced, book) \in Rows /\ book \in Book
    BY BoundsAssumption, DeltaType
  <2>3. m \in Message
    BY <2>2, MessageTypes DEF Actions
  <2>4. m.type = "orderBookL2" /\ m.lost = {} /\ ~OpensBook(m) /\ ~Restarts(m)
    BY DEF OrderBookL2, OpensBook, Restarts
  <2>5. Spend("change")
    BY <1>4 DEF BookChanges
  <2> HIDE DEF m
  <2> QED
    BY <1>1, <1>2, <1>3, <2>1, <2>3, <2>4, <2>5 DEF m
<1>5. CASE BookChangesUnseen
  <2>1. PICK book \in QuotedBook, action \in {"INSERT", "UPDATE", "DELETE"} :
          Tell("orderBookL2", OrderBookL2(action, [i \in {} |-> NoRow], Named(Changed(book)), book))
    BY <1>5 DEF BookChangesUnseen
  <2> DEFINE m == OrderBookL2(action, [i \in {} |-> NoRow], Named(Changed(book)), book)
  <2>2. [i \in {} |-> NoRow] \in Rows /\ Named(Changed(book)) \subseteq Symbols /\ book \in Book
    BY NoRowType, SymbolsAssumption DEF Rows, Named, Changed, QuotedBook
  <2>3. m \in Message
    BY <2>2, MessageTypes DEF Actions
  <2>4. m.type = "orderBookL2" /\ ~OpensBook(m) /\ ~Restarts(m)
    BY DEF OrderBookL2, OpensBook, Restarts
  <2>5. Spend("lose")
    BY <1>5 DEF BookChangesUnseen
  <2> HIDE DEF m
  <2> QED
    BY <1>1, <1>2, <1>3, <2>1, <2>3, <2>4, <2>5 DEF m
<1>6. CASE SymbolListed
  <2>1. PICK s \in Symbols : Tell("instrument", Instrument("INSERT", {s}))
    BY <1>6 DEF SymbolListed
  <2>2. /\ Instrument("INSERT", {s}) \in Message /\ Instrument("INSERT", {s}).type = "instrument"
        /\ ~OpensBook(Instrument("INSERT", {s})) /\ ~Restarts(Instrument("INSERT", {s}))
    BY MessageTypes DEF Actions, Instrument, OpensBook, Restarts
  <2>3. Spend("list")
    BY <1>6 DEF SymbolListed
  <2> QED
    BY <1>1, <1>2, <1>3, <2>1, <2>2, <2>3
<1>7. CASE InstrumentChanges
  <2>1. PICK items \in SUBSET listed : Tell("instrument", Instrument("UPDATE", items))
    BY <1>7 DEF InstrumentChanges
  <2>2. /\ Instrument("UPDATE", items) \in Message /\ Instrument("UPDATE", items).type = "instrument"
        /\ ~OpensBook(Instrument("UPDATE", items)) /\ ~Restarts(Instrument("UPDATE", items))
    BY MessageTypes DEF Actions, Instrument, OpensBook, Restarts, TypeOK
  <2>3. Spend("instrument")
    BY <1>7 DEF InstrumentChanges
  <2> QED
    BY <1>1, <1>2, <1>3, <2>1, <2>2, <2>3
<1>8. CASE FundingPublished
  <2>1. PICK s \in listed :
          Tell("orderBookL2", [type |-> "funding", items |-> {s}, after |-> Told])
    BY <1>8 DEF FundingPublished
  <2> DEFINE m == [type |-> "funding", items |-> {s}, after |-> Told]
  <2>2. m \in Message /\ m.type = "funding" /\ ~OpensBook(m) /\ ~Restarts(m)
    BY MessageTypes DEF OpensBook, Restarts, TypeOK
  <2>3. Spend("funding")
    BY <1>8 DEF FundingPublished
  <2> HIDE DEF m
  <2> QED
    BY <1>1, <1>2, <1>3, <2>1, <2>2, <2>3 DEF m
<1> QED
  BY <1>1, <1>4, <1>5, <1>6, <1>7, <1>8

LEMMA OnceNext ==
  ASSUME TypeOK, InSession, OneOpening, [Next]_vars, alive'
  PROVE  OneOpening'
<1>1. CASE TransportReady
  <2>1. /\ inbox' = <<[type |-> "welcome", after |-> at]>> /\ outbox' = outbox /\ outbox = <<>>
    BY <1>1, FreshFacts DEF TransportReady, InSession
  <2>2. DOMAIN inbox' = {1} /\ inbox'[1].type = "welcome" /\ DOMAIN outbox' = {}
    BY <2>1
  <2> QED
    BY <2>2 DEF OneOpening, Restarts
<1>2. CASE TransportLost \/ TransportClosed
  <2>1. inbox' = <<>> /\ outbox' = <<>>
    BY <1>2 DEF TransportLost, TransportClosed, Disconnected
  <2>2. DOMAIN inbox' = {} /\ DOMAIN outbox' = {}
    BY <2>1
  <2> QED
    BY <2>2 DEF OneOpening
<1>3. ASSUME UNCHANGED <<partial, inbox, outbox, topics>> PROVE OneOpening'
  BY <1>3 DEF OneOpening, Unsubscribed, Opened, FirstAsk
<1>4. CASE \/ BookChanges \/ BookChangesUnseen \/ SymbolListed
           \/ InstrumentChanges \/ FundingPublished
  <2>1. UNCHANGED <<partial, outbox, topics>>
    BY <1>4, ChangeTold DEF gateway
  <2>2. CASE UNCHANGED inbox
    BY <1>3, <2>1, <2>2
  <2>3. ASSUME NEW m \in Message, inbox' = Append(inbox, m), ~OpensBook(m), ~Restarts(m)
        PROVE  OneOpening'
    BY <2>1, <2>3, SendingOnce DEF OneOpening, FirstAsk
  <2> QED
    BY <1>4, <2>2, <2>3, ChangeTold
<1>5. CASE UNCHANGED vars
  BY <1>3, <1>5 DEF vars, gateway, wire
<1> QED
  BY <1>1, <1>2, <1>4, <1>5, HandleOnce, AnswerOnce DEF Next

(* What the budget says of the session: a row is left out, or a group        *)
(* refused, only at its cost.                                                *)
Accounted ==
  /\ budget["lose"] <= Budget["lose"] /\ budget["reject"] <= Budget["reject"]
  /\ \A n \in DOMAIN inbox :
       inbox[n].type = "orderBookL2" /\ inbox[n].lost # {} => ~Lossless
  /\ Unrefused => /\ \A n \in DOMAIN outbox : outbox[n].op # "unsubscribe"
                  /\ \A n \in DOMAIN inbox : inbox[n].type # "unsubscribe"

LEMMA BudgetFacts ==
  TypeOK => /\ budget["lose"] \in Nat /\ budget["reject"] \in Nat
            /\ Budget["lose"] \in Nat /\ Budget["reject"] \in Nat
BY BoundsAssumption DEF TypeOK, Events

LEMMA Spent ==
  ASSUME TypeOK, NEW event \in Events, Spend(event)
  PROVE  /\ budget'["lose"] <= budget["lose"] /\ budget'["reject"] <= budget["reject"]
         /\ event = "lose" => budget'["lose"] < budget["lose"]
         /\ event # "reject" => budget'["reject"] = budget["reject"]
<1>1. /\ budget \in [Events -> Nat] /\ "lose" \in Events /\ "reject" \in Events
      /\ budget' = [budget EXCEPT ![event] = budget[event] - 1]
  BY DEF TypeOK, Events, Spend
<1>2. \A e \in Events : budget'[e] = IF e = event THEN budget[event] - 1 ELSE budget[e]
  BY <1>1
<1>3. budget["lose"] \in Nat /\ budget["reject"] \in Nat /\ budget[event] \in Nat
  BY <1>1
<1>4. budget'["lose"] = IF "lose" = event THEN budget[event] - 1 ELSE budget["lose"]
  BY <1>1, <1>2
<1>5. budget'["reject"] = IF "reject" = event THEN budget[event] - 1 ELSE budget["reject"]
  BY <1>1, <1>2
<1> QED
  BY <1>3, <1>4, <1>5

LEMMA SpentOther ==
  ASSUME TypeOK, NEW event \in Events \ {"lose", "reject"}, Spend(event)
  PROVE  budget'["lose"] = budget["lose"] /\ budget'["reject"] = budget["reject"]
BY DEF TypeOK, Events, Spend

LEMMA Refusing ==
  ASSUME TypeOK, Accounted, NEW m, NEW rows, NEW groups, NEW rejected \in SUBSET Symbols,
         Process(m, rows, groups, rejected)
  PROVE  /\ budget'["lose"] = budget["lose"] /\ budget'["reject"] <= budget["reject"]
         /\ Unrefused' => Unrefused /\ rejected = {} /\ DOMAIN Resubscribe(rejected) = {}
<1>1. /\ budget \in [Events -> Nat] /\ "lose" \in Events /\ "reject" \in Events
      /\ budget' = [budget EXCEPT !["reject"] = budget["reject"] - Cardinality(rejected)]
  BY DEF TypeOK, Events, Process
<1>2. /\ budget'["lose"] = budget["lose"]
      /\ budget'["reject"] = budget["reject"] - Cardinality(rejected)
  BY <1>1
<1>3. IsFiniteSet(rejected)
  BY SymbolsAssumption, FS_Subset
<1>4. PICK count \in Nat : count = Cardinality(rejected)
  BY <1>3, FS_CardinalityType
<1>5. Cardinality(rejected) = 0 => rejected = {}
  BY <1>3, FS_EmptySet
<1>6. Cardinality(rejected) = 0 => DOMAIN Resubscribe(rejected) = {}
  <2>1. DOMAIN Resubscribe(rejected) = 1..2 * Cardinality(rejected)
    BY DEF Resubscribe
  <2> QED
    BY <2>1
<1>7. budget["reject"] \in Nat /\ Budget["reject"] \in Nat /\ budget["reject"] <= Budget["reject"]
  BY BudgetFacts DEF Accounted
<1>8. Unrefused' => budget["reject"] = Budget["reject"] /\ Cardinality(rejected) = 0
  BY <1>2, <1>4, <1>7 DEF Unrefused
<1> QED
  BY <1>2, <1>4, <1>5, <1>6, <1>7, <1>8 DEF Unrefused

LEMMA ReadingAccounted ==
  ASSUME TypeOK, Accounted, NEW type, Receive(type),
         budget'["lose"] = budget["lose"], budget'["reject"] <= budget["reject"],
         budget'["reject"] \in Nat, NEW requests \in Seq(Request), outbox' = outbox \o requests,
         Unrefused' => \A n \in DOMAIN requests : requests[n].op # "unsubscribe"
  PROVE  Accounted'
<1>1. /\ budget'["lose"] <= Budget["lose"] /\ budget'["reject"] <= Budget["reject"]
      /\ Unrefused' => Unrefused
  BY BudgetFacts DEF Accounted, Unrefused
<1>2. \A n \in DOMAIN inbox' : n + 1 \in DOMAIN inbox /\ inbox'[n] = inbox[n + 1]
  BY Takes
<1>3. Unrefused' => \A n \in DOMAIN outbox' : outbox'[n].op # "unsubscribe"
  BY <1>1, Requested DEF Accounted
<1>4. Unrefused' => \A n \in DOMAIN inbox' : inbox'[n].type # "unsubscribe"
  BY <1>1, <1>2 DEF Accounted
<1>5. \A n \in DOMAIN inbox' : inbox'[n].type = "orderBookL2" /\ inbox'[n].lost # {} => ~Lossless'
  BY <1>2 DEF Accounted, Lossless
<1> QED
  BY <1>1, <1>3, <1>4, <1>5 DEF Accounted

LEMMA HandleAccounted ==
  ASSUME TypeOK, TypeOK', Accounted, Handle
  PROVE  Accounted'
<1>1. CASE OnWelcome \/ OnInstrumentPartial
  <2>1. PICK type : Receive(type) /\ budget' = budget
    BY <1>1 DEF OnWelcome, OnInstrumentPartial
  <2>2. \E topic \in Topics : outbox' = outbox \o Subscribe(topic) \/ outbox' = outbox \o <<>>
    BY <1>1 DEF OnWelcome, OnInstrumentPartial, DownloadInstrument, DownloadOrderBookL2,
                NoDownload, Topics, TypeOK
  <2>3. \A topic \in Topics : /\ Subscribe(topic) \in Seq(Request)
                              /\ \A n \in DOMAIN Subscribe(topic) : Subscribe(topic)[n].op = "subscribe"
    BY DEF Subscribe, Request
  <2>4. <<>> \in Seq(Request) /\ DOMAIN <<>> = {}
    OBVIOUS
  <2>5. budget'["reject"] <= budget["reject"] /\ budget'["reject"] \in Nat
    BY <2>1, BudgetFacts
  <2>6. PICK topic \in Topics : outbox' = outbox \o Subscribe(topic) \/ outbox' = outbox \o <<>>
    BY <2>2
  <2>7. CASE outbox' = outbox \o Subscribe(topic)
    BY <2>1, <2>3, <2>5, <2>7, ReadingAccounted
  <2>8. CASE outbox' = outbox \o <<>>
    BY <2>1, <2>4, <2>5, <2>8, ReadingAccounted
  <2> QED
    BY <2>6, <2>7, <2>8
<1>2. CASE \/ OnSubscribe \/ OnError \/ OnUnsubscribe \/ OnInstrumentUpdate
           \/ OnInstrumentIgnored \/ OnFunding \/ OnOrderBookL2Early
  <2>1. PICK type \in {"subscribe", "error", "unsubscribe", "instrument", "funding", "orderBookL2"} :
          Receive(type)
    BY <1>2 DEF OnSubscribe, OnError, OnUnsubscribe, OnInstrumentUpdate,
                OnInstrumentIgnored, OnFunding, OnOrderBookL2Early
  <2>2. UNCHANGED <<outbox, budget>>
    BY <1>2 DEF OnSubscribe, OnError, OnUnsubscribe, OnInstrumentUpdate,
                OnInstrumentIgnored, OnFunding, OnOrderBookL2Early
  <2>3. outbox' = outbox \o <<>> /\ <<>> \in Seq(Request) /\ DOMAIN <<>> = {}
    BY <2>2 DEF TypeOK
  <2>4. budget'["reject"] <= budget["reject"] /\ budget'["reject"] \in Nat
    BY <2>2, BudgetFacts
  <2> QED
    BY <2>1, <2>2, <2>3, <2>4, ReadingAccounted
<1>3. ASSUME NEW m, NEW rows, NEW groups, NEW rejected \in SUBSET Symbols,
             Process(m, rows, groups, rejected), Receive("orderBookL2"),
             outbox' = outbox \o Resubscribe(rejected)
      PROVE  Accounted'
  <2>1. budget'["reject"] \in Nat
    BY DEF TypeOK, Events
  <2> QED
    BY <1>3, <2>1, Refusing, ResubscribeType, ReadingAccounted
<1>4. CASE OnOrderBookL2 \/ OnOrderBookL2Unpriced
  <2>1. Receive("orderBookL2")
    BY <1>4 DEF OnOrderBookL2, OnOrderBookL2Unpriced
  <2>2. Named(Kept(Head(inbox))) \subseteq Symbols
    BY <2>1, Takes, KeptNamed
  <2>3. CASE OnOrderBookL2
    <3>1. PICK rejected \in SUBSET Named(Kept(Head(inbox))) :
            /\ Process(Head(inbox), Kept(Head(inbox)), Named(Kept(Head(inbox))), rejected)
            /\ outbox' = outbox \o Resubscribe(rejected)
      BY <2>3 DEF OnOrderBookL2, DownloadDone, NoDownload
    <3> QED
      BY <1>3, <2>1, <2>2, <3>1
  <2>4. CASE OnOrderBookL2Unpriced
    <3>1. PICK i \in Unpriced(Head(inbox)), groups \in SUBSET Named(Kept(Head(inbox))),
               own \in SUBSET Kept(Head(inbox)), rejected \in SUBSET Named(Kept(Head(inbox))) :
            StopAt(Head(inbox), i, groups, own, rejected)
      BY <2>4 DEF OnOrderBookL2Unpriced
    <3>2. /\ outbox' = outbox \o Resubscribe(rejected)
          /\ Process(Head(inbox), own \cup {j \in Kept(Head(inbox)) : SymbolOf[j] \in groups},
                     groups, rejected)
      BY <3>1 DEF StopAt, NoDownload
    <3> QED
      BY <1>3, <2>1, <2>2, <3>2
  <2> QED
    BY <1>4, <2>3, <2>4
<1> QED
  BY <1>1, <1>2, <1>4 DEF Handle

LEMMA SendingAccounted ==
  ASSUME TypeOK, Accounted, NEW m \in Message, inbox' = Append(inbox, m),
         budget'["lose"] <= budget["lose"], budget'["reject"] = budget["reject"],
         budget'["lose"] \in Nat,
         m.type = "orderBookL2" /\ m.lost # {} => budget'["lose"] < budget["lose"],
         Unrefused => /\ m.type # "unsubscribe"
                      /\ \A n \in DOMAIN outbox' : outbox'[n].op # "unsubscribe"
  PROVE  Accounted'
<1>1. /\ DOMAIN inbox' = DOMAIN inbox \cup {Len(inbox) + 1}
      /\ inbox'[Len(inbox) + 1] = m
      /\ \A n \in DOMAIN inbox : inbox'[n] = inbox[n]
  BY Grows DEF TypeOK
<1>2. /\ budget'["lose"] <= Budget["lose"] /\ budget'["reject"] <= Budget["reject"]
      /\ Unrefused' <=> Unrefused
      /\ Lossless' => Lossless /\ budget'["lose"] = budget["lose"]
  BY BudgetFacts DEF Accounted, Unrefused, Lossless
<1>3. ~(budget'["lose"] < budget["lose"] /\ Lossless')
  BY <1>2, BudgetFacts
<1>4. \A n \in DOMAIN inbox' : inbox'[n].type = "orderBookL2" /\ inbox'[n].lost # {} => ~Lossless'
  BY <1>1, <1>2, <1>3 DEF Accounted
<1>5. Unrefused' => \A n \in DOMAIN inbox' : inbox'[n].type # "unsubscribe"
  BY <1>1, <1>2 DEF Accounted
<1> QED
  BY <1>2, <1>4, <1>5 DEF Accounted

LEMMA AccountedNext ==
  ASSUME TypeOK, TypeOK', Accounted, [Next]_vars
  PROVE  Accounted'
<1>0. budget'["lose"] \in Nat /\ budget'["reject"] \in Nat
  BY DEF TypeOK, Events
<1>1. ASSUME budget'["lose"] <= budget["lose"], budget'["reject"] = budget["reject"],
             inbox' = inbox, outbox' = outbox
      PROVE  Accounted'
  BY <1>0, <1>1, BudgetFacts DEF Accounted, Lossless, Unrefused
<1>2. CASE TransportReady \/ TransportLost \/ TransportClosed
  <2>1. budget'["lose"] = budget["lose"] /\ budget'["reject"] = budget["reject"]
    <3>1. CASE TransportLost
      BY <3>1, SpentOther DEF TransportLost, Events
    <3>2. CASE TransportReady \/ TransportClosed
      BY <3>2 DEF TransportReady, TransportClosed
    <3> QED
      BY <1>2, <3>1, <3>2
  <2>2. \/ inbox' = <<>> /\ outbox' = <<>>
        \/ inbox' = <<[type |-> "welcome", after |-> at]>> /\ outbox' = outbox
    BY <1>2 DEF TransportReady, TransportLost, TransportClosed, Disconnected
  <2>3. \A n \in DOMAIN inbox' : inbox'[n].type = "welcome"
    BY <2>2
  <2>4. \A n \in DOMAIN outbox' : n \in DOMAIN outbox /\ outbox'[n] = outbox[n]
    BY <2>2
  <2> QED
    BY <2>1, <2>3, <2>4, BudgetFacts DEF Accounted, Lossless, Unrefused
<1>3. CASE Answer \/ ExchangeRefuses
  <2>1. \A x : inbox \o <<x>> = Append(inbox, x)
    BY DEF TypeOK
  <2>2. budget'["lose"] = budget["lose"] /\ budget'["reject"] = budget["reject"]
    <3>1. CASE ExchangeRefuses
      BY <3>1, SpentOther DEF ExchangeRefuses, Events
    <3>2. CASE Answer
      BY <3>2 DEF Answer, ExchangeSubscribes, ExchangeUnsubscribes, InstrumentPartial,
                  OrderBookL2Partial
    <3> QED
      BY <1>3, <3>1, <3>2
  <2>3. ASSUME NEW op, Serve(op)
        PROVE  /\ \A n \in DOMAIN outbox' : n + 1 \in DOMAIN outbox /\ outbox'[n] = outbox[n + 1]
               /\ 1 \in DOMAIN outbox /\ outbox[1].op = op
    BY <2>3, Serves
  <2>4. ASSUME NEW m \in Message, inbox' = Append(inbox, m),
               \/ outbox' = outbox /\ m.type # "unsubscribe"
               \/ \E op : Serve(op) /\ (m.type = "unsubscribe" => op = "unsubscribe"),
               m.type = "orderBookL2" => m.lost = {}
        PROVE  Accounted'
    <3>1. Unrefused => m.type # "unsubscribe" /\ \A n \in DOMAIN outbox' : outbox'[n].op # "unsubscribe"
      BY <2>3, <2>4 DEF Accounted
    <3> QED
      BY <1>0, <2>2, <2>4, <3>1, SendingAccounted, BudgetFacts
  <2>5. CASE ExchangeSubscribes
    <3> DEFINE m == [type |-> "subscribe", topic |-> Head(outbox).topic,
                     after |-> IF Head(outbox).topic = "orderBookL2" THEN lob ELSE Told]
    <3>1. Serve("subscribe") /\ inbox' = Append(inbox, m)
      BY <2>1, <2>5 DEF ExchangeSubscribes, Send
    <3>2. Head(outbox).topic \in Topics
      BY <3>1, Serves DEF Request
    <3>3. (IF Head(outbox).topic = "orderBookL2" THEN lob ELSE Told) \in Book
      BY ToldType DEF TypeOK
    <3>4. m \in Message /\ m.type = "subscribe"
      BY <3>2, <3>3, MessageTypes
    <3> HIDE DEF m
    <3> QED
      BY <2>4, <3>1, <3>4
  <2>6. \A type \in {"unsubscribe", "error"} : Plain(type) \in Message /\ Plain(type).type = type
    BY MessageTypes DEF Plain
  <2>7. CASE ExchangeUnsubscribes
    <3>1. Serve("unsubscribe") /\ inbox' = Append(inbox, Plain("unsubscribe"))
      BY <2>1, <2>7 DEF ExchangeUnsubscribes, Send
    <3> QED
      BY <2>4, <2>6, <3>1
  <2>8. CASE ExchangeRefuses
    <3>1. Serve("subscribe") /\ inbox' = Append(inbox, Plain("error"))
      BY <2>1, <2>8 DEF ExchangeRefuses, Send
    <3> QED
      BY <2>4, <2>6, <3>1
  <2>9. CASE InstrumentPartial
    <3> DEFINE m == Instrument("PARTIAL", listed)
    <3>1. inbox' = Append(inbox, m) /\ outbox' = outbox
      BY <2>1, <2>9 DEF InstrumentPartial, Send
    <3>2. m \in Message /\ m.type = "instrument"
      BY MessageTypes DEF Actions, TypeOK, Instrument
    <3> HIDE DEF m
    <3> QED
      BY <2>4, <3>1, <3>2
  <2>10. CASE OrderBookL2Partial
    <3> DEFINE m == OrderBookL2("PARTIAL", Snapshot, {}, lob)
    <3>1. inbox' = Append(inbox, m) /\ outbox' = outbox
      BY <2>1, <2>10 DEF OrderBookL2Partial, Send
    <3>2. m \in Message
      BY MessageTypes, SnapshotType DEF Actions, TypeOK
    <3>3. m.type = "orderBookL2" /\ m.lost = {}
      BY DEF OrderBookL2
    <3> HIDE DEF m
    <3> QED
      BY <2>4, <3>1, <3>2, <3>3
  <2> QED
    BY <1>3, <2>5, <2>7, <2>8, <2>9, <2>10 DEF Answer
<1>4. CASE \/ BookChanges \/ BookChangesUnseen \/ SymbolListed
           \/ InstrumentChanges \/ FundingPublished
  <2>1. outbox' = outbox
    BY <1>4, ChangeTold
  <2>2. PICK event \in Events \ {"reject"} :
          /\ Spend(event)
          /\ \/ UNCHANGED inbox
             \/ \E m \in Message :
                  /\ inbox' = Append(inbox, m)
                  /\ ~OpensBook(m) /\ ~Restarts(m) /\ m.type # "unsubscribe"
                  /\ m.type = "orderBookL2" /\ m.lost # {} => event = "lose"
    BY <1>4, ChangeTold
  <2>3. /\ budget'["lose"] <= budget["lose"] /\ budget'["reject"] = budget["reject"]
        /\ event = "lose" => budget'["lose"] < budget["lose"]
    BY <2>2, Spent
  <2>4. ASSUME NEW m \in Message, inbox' = Append(inbox, m), m.type # "unsubscribe",
               m.type = "orderBookL2" /\ m.lost # {} => event = "lose"
        PROVE  Accounted'
    BY <1>0, <2>1, <2>3, <2>4, SendingAccounted DEF Accounted
  <2> QED
    BY <1>1, <2>1, <2>2, <2>3, <2>4
<1>5. CASE UNCHANGED vars
  BY <1>1, <1>5, BudgetFacts DEF vars, wire
<1> QED
  BY <1>2, <1>3, <1>4, <1>5, HandleAccounted DEF Next

(* While no row is left out: every kept level told of is in the price cache, *)
(* and shown unless a group was refused; no message is cut short.            *)
Level(i) == RestsIn(at, i) /\ SymbolOf[i] \notin Discarded
Displays ==
  Lossless =>
    /\ link # "closing"
    /\ Unrefused => alive /\ (ready => partial["orderBookL2"])
    /\ alive /\ partial["orderBookL2"] => \A i \in Ids : Level(i) =>
         /\ cache[i] = at[i].price
         /\ Unrefused => mbp[SymbolOf[i]][at[i].price] = at[i].size

NoGap == /\ Inductive /\ InSession /\ Accounted /\ Displays
         /\ alive => OneOpening

LEMMA CarriedLevel ==
  ASSUME StableQuotes, TypeOK, NEW m \in Message, NEW prev, NEW i \in Ids,
         Carries(m, prev, SymbolOf[i]), RestsIn(m.after, i),
         RestsIn(prev, i) => mbp[SymbolOf[i]][prev[i].price] = prev[i].size
  PROVE  /\ Published(m, SymbolOf[i])[m.after[i].price] = m.after[i].size
         /\ i \notin Kept(m) => mbp[SymbolOf[i]][m.after[i].price] = m.after[i].size
<1> DEFINE s == SymbolOf[i]
           p == m.after[i].price
<1>1. p \in Prices /\ p \in Quotes[i] /\ m.action # "PARTIAL"
  BY QuotedRow DEF Carries
<1>2. ASSUME NEW c \in RowsAt(m, s, p) PROVE c = i /\ m.rows[c].size = m.after[i].size
  <2>1. c \in Kept(m) /\ SymbolOf[c] = s /\ PriceOf(m, c) = p
    BY DEF RowsAt
  <2>2. c \in Ids /\ p \in Quotes[c] /\ m.rows[c].size = m.after[c].size
    BY <2>1, CarriedRow
  <2>3. c = i
    BY <1>1, <2>1, <2>2, OneId
  <2> QED
    BY <2>2, <2>3
<1>3. CASE i \in Kept(m)
  <2>1. i \in RowsAt(m, s, p)
    BY <1>3, CarriedRow DEF RowsAt
  <2>2. Published(m, s)[p] = m.rows[CHOOSE c \in RowsAt(m, s, p) : TRUE].size
    BY <1>1, <2>1 DEF Published
  <2> QED
    BY <1>2, <1>3, <2>1, <2>2
<1>4. CASE i \notin Kept(m)
  <2>1. prev[i] = m.after[i] /\ RestsIn(prev, i)
    BY <1>4, UntouchedRow DEF RestsIn
  <2>2. RowsAt(m, s, p) = {}
    BY <1>2, <1>4 DEF RowsAt
  <2> QED
    BY <1>1, <2>1, <2>2 DEF Published
<1> QED
  BY <1>3, <1>4

LEMMA BookDisplays ==
  ASSUME StableQuotes, NoGap, alive, OnOrderBookL2
  PROVE  Displays'
<1> DEFINE m == Head(inbox)
           groups == Named(Kept(m))
<1>1. TypeOK /\ TellsTrue /\ CacheSound /\ Accounted /\ Displays
  BY DEF NoGap, Inductive
<1>2. Receive("orderBookL2") /\ at' = m.after /\ link' = link /\ alive' = alive
  BY DEF OnOrderBookL2
<1>3. /\ m \in Message /\ m.type = "orderBookL2" /\ m.after \in QuotedBook /\ Follows(m, at)
      /\ m = inbox[1] /\ 1 \in DOMAIN inbox
  BY <1>1, <1>2, HeadTail, HeadFollows, Takes
<1>4. PICK rejected \in SUBSET groups :
        /\ Process(m, Kept(m), groups, rejected)
        /\ partial' = [partial EXCEPT !["orderBookL2"] = m.action = "PARTIAL" \/ rejected = {}]
        /\ m.action = "PARTIAL" \/ partial["orderBookL2"]
        /\ ready' = ready \/ m.action = "PARTIAL"
  BY DEF OnOrderBookL2, DownloadDone, NoDownload
<1> HIDE DEF m
<1>5. groups \subseteq Symbols
  BY <1>3, KeptNamed
<1>6. /\ Lossless' => Lossless /\ m.lost = {}
      /\ Unrefused' => Unrefused /\ rejected = {}
  BY <1>1, <1>3, <1>4, <1>5, Refusing DEF Lossless, Accounted
<1>7. partial'["orderBookL2"] = (m.action = "PARTIAL" \/ rejected = {})
  BY <1>1, <1>4 DEF TypeOK, Topics
<1>8. ASSUME Lossless', NEW i \in Ids, RestsIn(m.after, i), SymbolOf[i] \notin Discarded
      PROVE  /\ cache'[i] = m.after[i].price
             /\ Unrefused' => mbp'[SymbolOf[i]][m.after[i].price] = m.after[i].size
  <2> DEFINE s == SymbolOf[i]
  <2>1. s \in Symbols
    BY SymbolsAssumption
  <2>2. /\ cache'[i] = IF i \in Kept(m) THEN Remembered(cache, m.action, i, m.rows[i].price)
                                        ELSE cache[i]
        /\ rejected = {} => mbp'[s] = IF s \in groups THEN Published(m, s) ELSE mbp[s]
    BY <1>4, <2>1 DEF Process
  <2>3. CASE m.action = "PARTIAL"
    <3>1. i \in Kept(m)
      BY <1>3, <1>8, <2>3 DEF Kept, Follows, IsSnapshot
    <3>2. Opens(m, s) /\ s \in groups
      BY <1>3, <2>3, <3>1 DEF Opens, Follows, Named
    <3>3. cache'[i] = m.after[i].price
      BY <1>1, <1>3, <1>8, <2>2, <3>1, <3>2, OpenedCache
    <3>4. Published(m, s) = ByPrice(m.after, s)
      BY <1>1, <1>3, <3>2, OpenedBook
    <3>5. ByPrice(m.after, s)[m.after[i].price] = m.after[i].size
      BY <1>3, <1>8, ByPriceAt
    <3> QED
      BY <1>6, <2>2, <3>2, <3>3, <3>4, <3>5
  <2>4. CASE m.action # "PARTIAL"
    <3>1. \A j \in Ids : Level(j) =>
            /\ cache[j] = at[j].price
            /\ Unrefused => mbp[SymbolOf[j]][at[j].price] = at[j].size
      BY <1>1, <1>4, <1>6, <1>8, <2>4 DEF Displays
    <3>2. Carries(m, at, s)
      BY <1>1, <1>3, <1>6, <1>8, <2>1, <2>4, <3>1 DEF Carries, Follows, TellsTrue, Level
    <3>3. cache'[i] = m.after[i].price
      BY <1>1, <1>3, <1>8, <2>2, <3>2, CarriedCache
    <3>4. Unrefused => (RestsIn(at, i) => mbp[s][at[i].price] = at[i].size)
      BY <1>8, <3>1 DEF Level
    <3>5. Unrefused => /\ Published(m, s)[m.after[i].price] = m.after[i].size
                       /\ i \notin Kept(m) => mbp[s][m.after[i].price] = m.after[i].size
      BY <1>1, <1>3, <1>8, <3>2, <3>4, CarriedLevel
    <3>6. s \notin groups => i \notin Kept(m)
      BY DEF Named
    <3> QED
      BY <1>6, <2>2, <3>3, <3>5, <3>6
  <2> QED
    BY <2>3, <2>4
<1> QED
  BY <1>1, <1>2, <1>4, <1>6, <1>7, <1>8 DEF Displays, Level

(* A message is cut short only when a row was left out before.               *)
LEMMA UnpricedGap ==
  ASSUME StableQuotes, NoGap, alive, OnOrderBookL2Unpriced
  PROVE  ~Lossless'
<1> DEFINE m == Head(inbox)
<1>1. TypeOK /\ TellsTrue /\ CacheSound /\ Accounted /\ Displays
  BY DEF NoGap, Inductive
<1>2. Receive("orderBookL2") /\ (m.action = "PARTIAL" \/ partial["orderBookL2"])
  BY DEF OnOrderBookL2Unpriced
<1>3. /\ m \in Message /\ m.type = "orderBookL2" /\ m.after \in QuotedBook /\ Follows(m, at)
      /\ m = inbox[1] /\ 1 \in DOMAIN inbox
  BY <1>1, <1>2, HeadTail, HeadFollows, Takes
<1>4. PICK i \in Unpriced(m), groups \in SUBSET Named(Kept(m)), own \in SUBSET Kept(m),
           rejected \in SUBSET Named(Kept(m)) : StopAt(m, i, groups, own, rejected)
  BY DEF OnOrderBookL2Unpriced
<1>5. Process(m, own \cup {j \in Kept(m) : SymbolOf[j] \in groups}, groups, rejected)
  BY <1>4 DEF StopAt
<1> HIDE DEF m
<1>6. budget'["lose"] = budget["lose"]
  BY <1>1, <1>3, <1>4, <1>5, KeptNamed, Refusing
<1> SUFFICES ASSUME Lossless PROVE FALSE
  BY <1>6 DEF Lossless
<1>7. i \in Kept(m) /\ PriceOf(m, i) = NoPrice /\ i \in Ids
  BY <1>3, <1>4, KeptNamed DEF Unpriced
<1>8. m.action # "PARTIAL"
  BY <1>1, <1>3, <1>7, SnapshotRow DEF Follows
<1>9. Carries(m, at, SymbolOf[i])
  <2>1. m.lost = {}
    BY <1>1, <1>3 DEF Accounted
  <2>2. SymbolOf[i] \in Symbols /\ SymbolOf[i] \notin Discarded
    <3>1. SymbolOf[i] \in Symbols
      BY <1>7, SymbolsAssumption
    <3>2. SymbolOf[i] \notin Discarded
      BY <1>7 DEF Kept
    <3> QED
      BY <3>1, <3>2
  <2>3. \A j \in Ids : Level(j) => cache[j] = at[j].price
    BY <1>1, <1>2, <1>8 DEF Displays
  <2> QED
    BY <1>1, <1>3, <1>8, <2>1, <2>2, <2>3 DEF Carries, Follows, TellsTrue, Level
<1>10. PriceOf(m, i) \in Quotes[i]
  BY <1>1, <1>3, <1>7, <1>9, CarriedRow
<1>11. NoPrice \notin Quotes[i]
  BY <1>7, QuotesAssumption, PricesAssumption DEF NoPrice
<1> QED
  BY <1>7, <1>10, <1>11

LEMMA HandleDisplays ==
  ASSUME StableQuotes, NoGap, alive, Handle
  PROVE  Displays'
<1>1. TypeOK /\ TellsTrue /\ Accounted /\ Displays /\ OneOpening
  BY DEF NoGap, Inductive
<1>2. ASSUME NEW type, Receive(type), type # "orderBookL2",
             at' = Head(inbox).after, UNCHANGED <<ready, cache, mbp, link, budget>>,
             partial'["orderBookL2"] = partial["orderBookL2"],
             alive' = alive \/ type = "unsubscribe"
      PROVE  Displays'
  <2>1. /\ 1 \in DOMAIN inbox /\ inbox[1] = Head(inbox) /\ inbox[1].type = type
        /\ inbox[1] \in Message /\ \A n \in DOMAIN inbox : n \in Nat /\ n >= 1
    BY <1>1, <1>2, Takes
  <2>2. at' = at \/ Restarts(inbox[1])
    <3>1. Follows(inbox[1], at)
      BY <1>1, <1>2, <2>1, HeadFollows
    <3> QED
      BY <1>2, <2>1, <3>1 DEF Follows, Restarts
  <2>3. Restarts(inbox[1]) => ~partial["orderBookL2"]
    <3>1. \A n \in DOMAIN inbox : ~(n < 1)
      BY <2>1
    <3>2. Restarts(inbox[1]) => Unsubscribed(1) \/ ~Opened(1)
      BY <1>1, <2>1 DEF OneOpening
    <3> QED
      BY <3>1, <3>2 DEF Unsubscribed, Opened
  <2>4. Unrefused => type # "unsubscribe"
    BY <1>1, <2>1 DEF Accounted
  <2>5. (Lossless' <=> Lossless) /\ (Unrefused' <=> Unrefused)
    BY <1>2 DEF Lossless, Unrefused
  <2>6. CASE at' = at
    BY <1>1, <1>2, <2>4, <2>5, <2>6 DEF Displays, Level
  <2>7. CASE ~partial["orderBookL2"]
    BY <1>1, <1>2, <2>4, <2>5, <2>7 DEF Displays
  <2> QED
    BY <2>2, <2>3, <2>6, <2>7
<1>3. CASE \/ OnWelcome \/ OnSubscribe \/ OnError \/ OnUnsubscribe
           \/ OnInstrumentUpdate \/ OnInstrumentIgnored \/ OnFunding
  <2>1. PICK type \in {"welcome", "subscribe", "error", "unsubscribe", "instrument", "funding"} :
          Receive(type) /\ (alive' = alive \/ type = "unsubscribe")
    BY <1>3 DEF OnWelcome, OnSubscribe, OnError, OnUnsubscribe, OnInstrumentUpdate,
                OnInstrumentIgnored, OnFunding
  <2>2. at' = Head(inbox).after /\ UNCHANGED <<ready, partial, cache, mbp, link, budget>>
    BY <1>3 DEF OnWelcome, OnSubscribe, OnError, OnUnsubscribe, OnInstrumentUpdate,
                OnInstrumentIgnored, OnFunding, DownloadInstrument, gateway
  <2> QED
    BY <1>2, <2>1, <2>2
<1>4. CASE OnInstrumentPartial
  <2>1. /\ Receive("instrument") /\ at' = Head(inbox).after
        /\ UNCHANGED <<ready, cache, mbp, link, budget, alive>>
        /\ partial' = [partial EXCEPT !["instrument"] = TRUE]
    BY <1>4 DEF OnInstrumentPartial, DownloadOrderBookL2, NoDownload
  <2>2. partial'["orderBookL2"] = partial["orderBookL2"]
    BY <1>1, <2>1 DEF TypeOK, Topics
  <2> QED
    BY <1>2, <2>1, <2>2
<1>5. CASE OnOrderBookL2Early
  <2>1. ~partial["orderBookL2"] /\ UNCHANGED <<ready, partial, link, budget, alive>>
    BY <1>5 DEF OnOrderBookL2Early, gateway
  <2> QED
    BY <1>1, <2>1 DEF Displays, Lossless, Unrefused
<1>6. CASE OnOrderBookL2
  BY <1>6, BookDisplays
<1>7. CASE OnOrderBookL2Unpriced
  BY <1>7, UnpricedGap DEF Displays
<1> QED
  BY <1>3, <1>4, <1>5, <1>6, <1>7 DEF Handle

LEMMA DisplaysNext ==
  ASSUME StableQuotes, NoGap, [Next]_vars
  PROVE  Displays'
<1>1. TypeOK /\ TypeOK' /\ TellsTrue /\ Accounted /\ Displays /\ InSession
  BY NextType DEF NoGap, Inductive
<1>2. ASSUME UNCHANGED <<alive, ready, partial, cache, mbp, at>>, link' # "closing" \/ link' = link,
             /\ budget'["reject"] = budget["reject"] \/ (budget'["reject"] # Budget["reject"])
             /\ budget'["lose"] = budget["lose"] \/ budget'["lose"] # Budget["lose"]
      PROVE  Displays'
  <2>1. (Lossless' => Lossless) /\ (Unrefused' => Unrefused)
    BY <1>2 DEF Lossless, Unrefused
  <2> QED
    BY <1>1, <1>2, <2>1 DEF Displays, Level
<1>3. CASE TransportReady
  <2>1. /\ UNCHANGED <<alive, ready, partial, cache, mbp, at, budget>> /\ link' = "up"
    BY <1>3 DEF TransportReady, books
  <2> QED
    BY <1>2, <2>1
<1>4. CASE TransportLost \/ TransportClosed
  <2>1. /\ link' = "down" /\ ready' = FALSE /\ alive' = alive
        /\ partial' = [t \in Topics |-> FALSE]
        /\ budget'["lose"] = budget["lose"] /\ budget'["reject"] = budget["reject"]
    <3>1. CASE TransportLost
      BY <1>1, <3>1, SpentOther DEF TransportLost, Disconnected, ClearedFlags, Events
    <3>2. CASE TransportClosed
      BY <3>2 DEF TransportClosed, Disconnected, ClearedFlags
    <3> QED
      BY <1>4, <3>1, <3>2
  <2>2. ~partial'["orderBookL2"]
    BY <2>1 DEF Topics
  <2> QED
    BY <1>1, <2>1, <2>2 DEF Displays, Lossless, Unrefused
<1>5. CASE Answer
  <2>1. UNCHANGED <<alive, gateway, books, link, budget>>
    BY <1>5 DEF Answer, ExchangeSubscribes, ExchangeUnsubscribes, InstrumentPartial,
                OrderBookL2Partial
  <2> QED
    BY <1>2, <2>1 DEF gateway, books
<1>6. CASE ExchangeRefuses
  <2>1. UNCHANGED <<alive, gateway, books, link>>
    BY <1>6 DEF ExchangeRefuses
  <2>2. budget'["lose"] = budget["lose"] /\ budget'["reject"] = budget["reject"]
    BY <1>1, <1>6, SpentOther DEF ExchangeRefuses, Events
  <2> QED
    BY <1>2, <2>1, <2>2 DEF gateway, books
<1>7. CASE \/ BookChanges \/ BookChangesUnseen \/ SymbolListed
           \/ InstrumentChanges \/ FundingPublished
  <2>1. UNCHANGED <<alive, gateway, books, link>>
    BY <1>1, <1>7, ChangeTold
  <2>2. PICK event \in Events \ {"reject"} : Spend(event)
    BY <1>1, <1>7, ChangeTold
  <2>3. /\ budget'["lose"] < budget["lose"] \/ budget'["lose"] = budget["lose"]
        /\ budget'["reject"] = budget["reject"]
    <3>1. budget'["lose"] <= budget["lose"] /\ budget'["reject"] = budget["reject"]
      BY <1>1, <2>2, Spent
    <3>2. budget'["lose"] \in Nat /\ budget["lose"] \in Nat
      BY <1>1 DEF TypeOK, Events
    <3> QED
      BY <3>1, <3>2
  <2>4. budget'["lose"] < budget["lose"] => budget'["lose"] # Budget["lose"]
    <3>1. /\ budget["lose"] <= Budget["lose"] /\ budget["lose"] \in Nat
          /\ Budget["lose"] \in Nat /\ budget'["lose"] \in Nat
      BY <1>1, BudgetFacts DEF Accounted, TypeOK, Events
    <3> QED
      BY <3>1
  <2> QED
    BY <1>2, <2>1, <2>3, <2>4 DEF gateway, books
<1>8. CASE UNCHANGED vars
  BY <1>2, <1>8 DEF vars, gateway, books, wire
<1>9. CASE alive /\ Handle
  BY <1>9, HandleDisplays
<1> QED
  BY <1>3, <1>4, <1>5, <1>6, <1>7, <1>8, <1>9 DEF Next

LEMMA NoGapInit == Init => NoGap
<1> SUFFICES ASSUME Init PROVE NoGap
  OBVIOUS
<1>1. /\ DOMAIN inbox = {} /\ DOMAIN outbox = {} /\ budget = Budget /\ link = "down"
      /\ alive = TRUE /\ ready = FALSE
  BY DEF Init
<1>2. ~partial["orderBookL2"]
  BY DEF Init, Topics
<1>3. budget["lose"] <= Budget["lose"] /\ budget["reject"] <= Budget["reject"]
  BY <1>1, InitType, BudgetFacts
<1> QED
  BY <1>1, <1>2, <1>3, InductiveInit, SessionInit DEF NoGap, Accounted, Displays, OneOpening

LEMMA NoGapNext ==
  ASSUME StableQuotes
  PROVE  NoGap /\ [Next]_vars => NoGap'
<1> SUFFICES ASSUME NoGap, [Next]_vars PROVE NoGap'
  OBVIOUS
<1>1. TypeOK /\ TypeOK' /\ Inductive /\ InSession /\ Accounted
  BY NextType DEF NoGap, Inductive
<1>2. Inductive'
  BY <1>1, InductiveNext
<1>3. InSession' /\ Accounted'
  BY <1>1, SessionNext, AccountedNext
<1>4. alive' => OneOpening'
  <2>1. CASE Next
    <3>1. OneOpening
      BY <2>1 DEF Next, NoGap
    <3> QED
      BY <1>1, <3>1, OnceNext
  <2>2. CASE UNCHANGED vars
    BY <2>2 DEF NoGap, vars, gateway, wire, OneOpening, Unsubscribed, Opened, FirstAsk
  <2> QED
    BY <2>1, <2>2
<1> QED
  BY <1>2, <1>3, <1>4, DisplaysNext DEF NoGap

(* The gateway closes a connection over an unknown price only when the       *)
(* exchange left a row out: in a session without a gap the price cache knows *)
(* every level that rests.                                                   *)
THEOREM OnlyGapsClose ==
  ASSUME StableQuotes
  PROVE  Spec => []ClosesOnlyAfterGap
<1>1. NoGap => ClosesOnlyAfterGap
  <2> SUFFICES ASSUME NoGap, link = "closing" PROVE budget["lose"] < Budget["lose"]
    BY DEF ClosesOnlyAfterGap
  <2>1. TypeOK /\ Accounted /\ ~Lossless
    BY DEF NoGap, Displays, Inductive
  <2> QED
    BY <2>1, BudgetFacts DEF Accounted, Lossless
<1> QED
  BY <1>1, NoGapInit, NoGapNext, PTL DEF Spec

(* READY means that both PARTIALs have arrived and that every kept symbol    *)
(* with a level told of is shown, unless a group was refused or a row left   *)
(* out.                                                                      *)
THEOREM ReadyAfterBoth ==
  ASSUME StableQuotes
  PROVE  Spec => []ReadyIsComplete
<1>1. NoGap => ReadyIsComplete
  <2> SUFFICES ASSUME NoGap, ready PROVE ReadyIsComplete
    BY DEF ReadyIsComplete
  <2>1. partial["instrument"]
    BY DEF NoGap, InSession, BooksWait
  <2>2. ASSUME Unrefused, Lossless
        PROVE  /\ partial["orderBookL2"]
               /\ \A i \in Ids : RestsIn(at, i) /\ SymbolOf[i] \notin Discarded
                                 => ~(mbp[SymbolOf[i]] = EmptyDepth)
    <3>1. partial["orderBookL2"] /\ alive
      BY <2>2 DEF NoGap, Displays
    <3>2. ASSUME NEW i \in Ids, RestsIn(at, i), SymbolOf[i] \notin Discarded
          PROVE  mbp[SymbolOf[i]] # EmptyDepth
      <4>1. mbp[SymbolOf[i]][at[i].price] = at[i].size
        BY <2>2, <3>1, <3>2 DEF NoGap, Displays, Level
      <4>2. at \in QuotedBook
        BY DEF NoGap, Inductive, TellsTrue
      <4>3. at[i].price \in Prices /\ at[i].size \in Sizes
        BY <3>2, <4>2, QuotedRow DEF QuotedBook
      <4>4. at[i].size # 0
        BY <4>3, SizesAssumption
      <4>5. EmptyDepth[at[i].price] = 0
        BY <4>3 DEF EmptyDepth
      <4> QED
        BY <4>1, <4>4, <4>5
    <3> QED
      BY <3>1, <3>2
  <2> QED
    BY <2>1, <2>2 DEF ReadyIsComplete, Unrefused, Lossless
<1> QED
  BY <1>1, NoGapInit, NoGapNext, PTL DEF Spec

===============================================================================
