----------------------------- MODULE ProductProofs -----------------------------
(***************************************************************************)
(* The trade summaries of Products and their times, for a message of any   *)
(* length, of any symbols in any order; and the products themselves: for   *)
(* every set of symbols, discarded or not, and every number of changes,    *)
(* listings and lost connections, what the users are told of them.         *)
(***************************************************************************)
EXTENDS Products, FiniteSetTheorems, WellFoundedInduction, TLAPS

LEMMA LeastOf ==
  ASSUME NEW S, S \subseteq Nat, S # {}
  PROVE  \E m \in S : \A n \in S : m <= n
<1> DEFINE R == OpToRel(<, Nat)
<1>1. IsWellFoundedOn(R, Nat)
  BY NatLessThanWellFounded DEF OpToRel, R
<1>2. PICK m \in S : \A n \in S : <<n, m>> \notin R
  <2> HIDE DEF R
  <2> QED
    BY <1>1, WFMin
<1>3. \A n \in S : ~(n < m)
  BY <1>2 DEF OpToRel
<1> QED
  BY <1>3

-------------------------------------------------------------------------------
(* What is held.                                                           *)

Messages == Seq(Symbols \X Times)

(* What is held when row k is reached, or the message has ended, is        *)
(* dispatched at k unless it is discarded.                                 *)
Closes(rows, k) == k > Len(rows) \/ Opens(rows, k)

(* A trade is held until the first row of another symbol, or the end.      *)
LEMMA HeldUntil ==
  ASSUME NEW rows \in Messages, NEW i \in DOMAIN rows
  PROVE  \E k \in (i + 1)..(Len(rows) + 1) : Closes(rows, k) /\ i \in Held(rows, k)
<1>1. Len(rows) \in Nat /\ DOMAIN rows = 1..Len(rows)
  BY DEF Messages
<1> DEFINE S == {k \in (i + 1)..(Len(rows) + 1) : Closes(rows, k)}
<1>2. S \subseteq Nat /\ S # {}
  <2>1. Len(rows) + 1 \in S
    BY <1>1 DEF Closes
  <2> QED
    BY <1>1, <2>1
<1>3. PICK k \in S : \A n \in S : k <= n
  <2> HIDE DEF S
  <2> QED
    BY <1>2, LeastOf
<1>4. ASSUME NEW p \in (i + 1)..(k - 1), Opens(rows, p)
      PROVE  FALSE
  <2>1. p \in S /\ ~(k <= p)
    BY <1>1, <1>4 DEF Closes
  <2> QED
    BY <1>3, <2>1
<1> QED
  BY <1>1, <1>4 DEF Held

(* Rows with no change of symbol between them are of one symbol.           *)
LEMMA OneSymbol ==
  ASSUME NEW rows \in Messages, NEW i \in DOMAIN rows, NEW o \in DOMAIN rows, o <= i,
         \A p \in (o + 1)..i : ~Opens(rows, p)
  PROVE  rows[i][1] = rows[o][1]
<1>1. Len(rows) \in Nat /\ DOMAIN rows = 1..Len(rows)
  BY DEF Messages
<1> SUFFICES ASSUME rows[i][1] # rows[o][1]
             PROVE  FALSE
  OBVIOUS
<1> DEFINE S == {k \in o..i : rows[k][1] # rows[o][1]}
<1>2. S \subseteq Nat /\ S # {}
  BY <1>1
<1>3. PICK m \in S : \A n \in S : m <= n
  <2> HIDE DEF S
  <2> QED
    BY <1>2, LeastOf
<1>4. m - 1 \in o..i /\ m \in (o + 1)..i
  BY <1>1, <1>3
<1>5. rows[m - 1][1] = rows[o][1]
  BY <1>1, <1>3, <1>4
<1>6. Opens(rows, m)
  BY <1>3, <1>5 DEF Opens
<1> QED
  BY <1>4, <1>6

(* A trade is held at one dispatch only: it is cleared there.              *)
LEMMA HeldOnce ==
  ASSUME NEW rows \in Messages, NEW i \in DOMAIN rows,
         NEW k \in 2..(Len(rows) + 1), Closes(rows, k), i \in Held(rows, k),
         NEW l \in 2..(Len(rows) + 1), Closes(rows, l), i \in Held(rows, l)
  PROVE  k <= l
<1>1. Len(rows) \in Nat /\ DOMAIN rows = 1..Len(rows)
  BY DEF Messages
<1> SUFFICES ASSUME l < k
             PROVE  FALSE
  BY <1>1
<1>2. Opens(rows, l)
  BY <1>1 DEF Closes
<1>3. l \in (i + 1)..(k - 1)
  BY <1>1 DEF Held
<1> QED
  BY <1>2, <1>3 DEF Held

(* Neighbours of one symbol are held together.                             *)
LEMMA HeldTogether ==
  ASSUME NEW rows \in Messages, NEW i \in DOMAIN rows, ~Opens(rows, i),
         NEW k \in 2..(Len(rows) + 1), Closes(rows, k)
  PROVE  i - 1 \in Held(rows, k) <=> i \in Held(rows, k)
<1>1. Len(rows) \in Nat /\ DOMAIN rows = 1..Len(rows) /\ i # 1
  BY DEF Messages, Opens
<1>2. k # i
  BY <1>1 DEF Closes
<1>3. ASSUME i - 1 \in Held(rows, k)
      PROVE  i \in Held(rows, k)
  BY <1>1, <1>2, <1>3 DEF Held
<1>4. ASSUME i \in Held(rows, k)
      PROVE  i - 1 \in Held(rows, k)
  <2>1. \A p \in i..(k - 1) : p = i \/ p \in (i + 1)..(k - 1)
    BY <1>1
  <2>2. i - 1 \in 1..(k - 1) /\ (i - 1) + 1 = i
    BY <1>1, <1>4 DEF Held
  <2>3. \A p \in (i + 1)..(k - 1) : ~Opens(rows, p)
    BY <1>4 DEF Held
  <2>4. \A p \in ((i - 1) + 1)..(k - 1) : ~Opens(rows, p)
    BY <2>1, <2>2, <2>3
  <2> QED
    BY <2>2, <2>4 DEF Held
<1> QED
  BY <1>3, <1>4

-------------------------------------------------------------------------------
(* Summaries.                                                              *)

Summed ==
  /\ trades \in Messages
  /\ DOMAIN tape = Dispatches(trades)
  /\ \A k \in DOMAIN tape : tape[k] = Summaries(trades)[k]

LEMMA SummaryOf ==
  ASSUME Summed, NEW k \in DOMAIN tape
  PROVE  /\ k \in 2..(Len(trades) + 1) /\ Closes(trades, k)
         /\ trades[k - 1][1] \notin Discarded
         /\ tape[k].symbol = trades[k - 1][1] /\ tape[k].trades = Held(trades, k)
         /\ tape[k].last <=> k > Len(trades)
         /\ tape[k].time = MaxTime(trades, k)
<1>1. k \in Dispatches(trades) /\ tape[k] = Summaries(trades)[k]
  BY DEF Summed
<1>2. tape[k] = [symbol |-> trades[k - 1][1], trades |-> Held(trades, k),
                 last |-> k > Len(trades), time |-> MaxTime(trades, k)]
  BY <1>1 DEF Summaries
<1>3. /\ k \in 2..(Len(trades) + 1) /\ Closes(trades, k)
      /\ trades[k - 1][1] \notin Discarded
  BY <1>1 DEF Dispatches, Closes
<1>4. /\ tape[k].symbol = trades[k - 1][1] /\ tape[k].trades = Held(trades, k)
      /\ tape[k].time = MaxTime(trades, k)
  BY <1>2
<1>5. tape[k].last <=> k > Len(trades)
  <2> DEFINE end == k > Len(trades)
  <2>1. \E h : tape[k] = [symbol |-> trades[k - 1][1], trades |-> h,
                          last |-> end, time |-> MaxTime(trades, k)]
    BY <1>2
  <2> HIDE DEF end
  <2>2. tape[k].last = end
    BY <2>1
  <2> QED
    BY <2>2, Zenon DEF end
<1> QED
  BY <1>3, <1>4, <1>5

LEMMA Summarised ==
  ASSUME Summed
  PROVE  TradesOnce
<1>1. trades \in Messages /\ Len(trades) \in Nat /\ DOMAIN trades = 1..Len(trades)
  BY DEF Summed, Messages
<1>2. ASSUME NEW i \in DOMAIN trades
      PROVE  LET of == {k \in DOMAIN tape : i \in tape[k].trades}
             IN /\ IF trades[i][1] \in Discarded THEN of = {}
                   ELSE \E k \in of : of = {k} /\ tape[k].symbol = trades[i][1]
                /\ i > 1 /\ trades[i][1] = trades[i - 1][1] =>
                     \A k \in DOMAIN tape : i - 1 \in tape[k].trades <=> k \in of
  <2> DEFINE of == {k \in DOMAIN tape : i \in tape[k].trades}
  <2>1. PICK k \in (i + 1)..(Len(trades) + 1) :
          Closes(trades, k) /\ i \in Held(trades, k)
    BY <1>1, HeldUntil
  <2>2. k \in 2..(Len(trades) + 1) /\ k - 1 \in DOMAIN trades /\ i <= k - 1
    BY <1>1
  <2>3. trades[k - 1][1] = trades[i][1]
    <3>1. \A p \in (i + 1)..(k - 1) : ~Opens(trades, p)
      BY <2>1 DEF Held
    <3> QED
      BY <1>1, <2>2, <3>1, OneSymbol
  <2>4. \A l \in of : l = k
    <3>1. ASSUME NEW l \in of
          PROVE  l = k
      <4>1. l \in 2..(Len(trades) + 1) /\ Closes(trades, l) /\ i \in Held(trades, l)
        BY SummaryOf
      <4>2. k <= l /\ l <= k
        BY <1>1, <2>1, <2>2, <4>1, HeldOnce
      <4> QED
        BY <1>1, <4>1, <4>2
    <3> QED
      BY <3>1
  <2>5. IF trades[i][1] \in Discarded THEN of = {}
        ELSE \E m \in of : of = {m} /\ tape[m].symbol = trades[i][1]
    <3>1. CASE trades[i][1] \in Discarded
      <4>1. of = {}
        BY <2>3, <2>4, <3>1, SummaryOf
      <4> HIDE DEF of
      <4> QED
        BY <3>1, <4>1
    <3>2. CASE trades[i][1] \notin Discarded
      <4>1. k \in DOMAIN tape
        BY <2>1, <2>2, <2>3, <3>2 DEF Summed, Dispatches, Closes
      <4>2. k \in of /\ tape[k].symbol = trades[i][1]
        BY <2>1, <2>3, <4>1, SummaryOf
      <4> HIDE DEF of
      <4>3. of = {k}
        BY <2>4, <4>2
      <4> QED
        BY <3>2, <4>2, <4>3
    <3> QED
      BY <3>1, <3>2
  <2>6. ASSUME i > 1, trades[i][1] = trades[i - 1][1], NEW m \in DOMAIN tape
        PROVE  i - 1 \in tape[m].trades <=> m \in of
    <3>1. ~Opens(trades, i)
      BY <1>1, <2>6 DEF Opens
    <3>2. m \in 2..(Len(trades) + 1) /\ Closes(trades, m) /\ tape[m].trades = Held(trades, m)
      BY SummaryOf
    <3>3. i - 1 \in Held(trades, m) <=> i \in Held(trades, m)
      BY <1>1, <3>1, <3>2, HeldTogether
    <3> QED
      BY <3>2, <3>3
  <2> QED
    BY <2>5, <2>6
<1>3. ASSUME NEW k \in DOMAIN tape, NEW l \in DOMAIN tape, tape[k].last
      PROVE  l <= k
  <2>1. k > Len(trades) /\ k \in 2..(Len(trades) + 1) /\ l \in 2..(Len(trades) + 1)
    BY <1>3, SummaryOf
  <2> QED
    BY <1>1, <2>1
<1> QED
  BY <1>2, <1>3 DEF TradesOnce

-------------------------------------------------------------------------------
(* Times.                                                                  *)

TimesIn(rows, I) == {0} \cup {rows[i][2] : i \in I}
Greatest(S, t) == t \in S /\ \A u \in S : u <= t

LEMMA TimeOfRow ==
  ASSUME NEW rows \in Messages, NEW k \in DOMAIN rows
  PROVE  rows[k][2] \in Nat
<1>1. rows[k] \in Symbols \X Times
  BY DEF Messages
<1> QED
  BY <1>1, BoundsAssumption

LEMMA GreatestTime ==
  ASSUME NEW rows \in Messages, NEW I \in SUBSET DOMAIN rows
  PROVE  \E t : Greatest(TimesIn(rows, I), t)
<1>1. Len(rows) \in Nat /\ DOMAIN rows = 1..Len(rows)
  BY DEF Messages
<1> DEFINE Upto(n) == I \cap (1..n)
           Bad == {n \in 0..Len(rows) : ~\E t : Greatest(TimesIn(rows, Upto(n)), t)}
<1>2. ASSUME Bad # {} PROVE FALSE
  <2>1. Bad \subseteq Nat
    OBVIOUS
  <2>2. PICK n \in Bad : \A m \in Bad : n <= m
    <3> HIDE DEF Bad
    <3> QED
      BY <1>2, <2>1, LeastOf
  <2>3. n \in 0..Len(rows) /\ n \in Nat
    BY <1>1
  <2>4. CASE n = 0
    <3>1. Greatest(TimesIn(rows, Upto(n)), 0)
      BY <2>4 DEF Greatest, TimesIn
    <3> QED
      BY <3>1
  <2>5. CASE n # 0
    <3>1. n - 1 \in 0..Len(rows) /\ n - 1 \in Nat /\ ~(n <= n - 1) /\ n \in DOMAIN rows
      BY <1>1, <2>3, <2>5
    <3>2. PICK t : Greatest(TimesIn(rows, Upto(n - 1)), t)
      <4>1. n - 1 \notin Bad
        BY <2>2, <3>1
      <4> QED
        BY <3>1, <4>1
    <3>3. Upto(n) = Upto(n - 1) \cup (I \cap {n})
      <4>1. 1..n = (1..(n - 1)) \cup {n}
        BY <2>3, <2>5
      <4> QED
        BY <4>1
    <3>4. rows[n][2] \in Nat
      BY <3>1, TimeOfRow
    <3>5. TimesIn(rows, Upto(n - 1)) \subseteq Nat
      BY TimeOfRow DEF TimesIn
    <3>6. CASE n \notin I
      <4>1. Upto(n) = Upto(n - 1)
        BY <3>3, <3>6
      <4> HIDE DEF Upto
      <4> QED
        BY <2>2, <3>2, <4>1
    <3>7. CASE n \in I
      <4>1. TimesIn(rows, Upto(n)) = TimesIn(rows, Upto(n - 1)) \cup {rows[n][2]}
        BY <3>3, <3>7 DEF TimesIn
      <4> DEFINE before == TimesIn(rows, Upto(n - 1))
      <4>2. before \subseteq Nat /\ Greatest(before, t)
        BY <3>2, <3>5
      <4> HIDE DEF before
      <4>3. \E u : Greatest(before \cup {rows[n][2]}, u)
        <5>1. CASE rows[n][2] <= t
          <6>1. Greatest(before \cup {rows[n][2]}, t)
            BY <4>2, <5>1 DEF Greatest
          <6> QED
            BY <6>1
        <5>2. CASE ~(rows[n][2] <= t)
          <6>1. Greatest(before \cup {rows[n][2]}, rows[n][2])
            BY <3>4, <4>2, <5>2 DEF Greatest
          <6> QED
            BY <6>1
        <5> QED
          BY <5>1, <5>2
      <4> QED
        BY <2>2, <4>1, <4>3 DEF before
    <3> QED
      BY <3>6, <3>7
  <2> QED
    BY <2>4, <2>5
<1>3. \E t : Greatest(TimesIn(rows, Upto(Len(rows))), t)
  <2>1. Len(rows) \in 0..Len(rows)
    BY <1>1
  <2>2. \A n \in 0..Len(rows) : \E t : Greatest(TimesIn(rows, Upto(n)), t)
    BY <1>2
  <2> QED
    BY <2>1, <2>2
<1>4. Upto(Len(rows)) = I
  BY <1>1
<1> QED
  BY <1>3, <1>4

LEMMA MaxTimeCovers ==
  ASSUME NEW rows \in Messages, NEW k, NEW i \in DOMAIN rows, i - 1 \in Held(rows, k)
  PROVE  rows[i][2] <= MaxTime(rows, k)
<1> DEFINE I == {j \in DOMAIN rows : j - 1 \in Held(rows, k)}
<1>1. MaxTime(rows, k) = CHOOSE t : Greatest(TimesIn(rows, I), t)
  BY DEF MaxTime, TimesIn, Greatest
<1>2. \E t : Greatest(TimesIn(rows, I), t)
  BY GreatestTime
<1>3. Greatest(TimesIn(rows, I), MaxTime(rows, k))
  BY <1>1, <1>2
<1>4. rows[i][2] \in TimesIn(rows, I)
  BY DEF TimesIn
<1> QED
  BY <1>3, <1>4 DEF Greatest

LEMMA Timed ==
  ASSUME Summed
  PROVE  TimeCovers
<1> SUFFICES ASSUME NEW k \in DOMAIN tape, NEW i \in tape[k].trades,
                    i - 1 \in tape[k].trades
             PROVE  trades[i][2] <= tape[k].time
  BY DEF TimeCovers
<1>1. trades \in Messages /\ Len(trades) \in Nat /\ DOMAIN trades = 1..Len(trades)
  BY DEF Summed, Messages
<1>2. /\ k \in 2..(Len(trades) + 1)
      /\ i \in Held(trades, k) /\ i - 1 \in Held(trades, k)
      /\ tape[k].time = MaxTime(trades, k)
  BY SummaryOf
<1>3. i \in DOMAIN trades
  BY <1>1, <1>2 DEF Held
<1> QED
  BY <1>1, <1>2, <1>3, MaxTimeCovers

-------------------------------------------------------------------------------
LEMMA AlwaysSummed == Spec => []Summed
<1>1. <<>> \in Messages /\ DOMAIN <<>> = Dispatches(<<>>)
  BY DEF Messages, Dispatches
<1>2. Init => Summed
  BY <1>1 DEF Init, Summed
<1>3. Summed /\ [Next]_vars => Summed'
  <2> SUFFICES ASSUME Summed, [Next]_vars
               PROVE  Summed'
    OBVIOUS
  <2>1. CASE Quiet
    BY <1>1, <2>1 DEF Quiet, Summed
  <2>2. CASE OnTrade
    <3>1. PICK n \in 1..Rows : \E rows \in [1..n -> Symbols \X Times] :
            trades' = rows /\ tape' = Summaries(rows)
      BY <2>2 DEF OnTrade
    <3>2. PICK rows \in [1..n -> Symbols \X Times] :
            trades' = rows /\ tape' = Summaries(rows)
      BY <3>1
    <3>3. rows \in Messages
      BY <3>1, <3>2, BoundsAssumption DEF Messages
    <3> QED
      BY <3>2, <3>3 DEF Summed, Summaries
  <2>3. CASE UNCHANGED vars
    BY <2>3 DEF vars, tapes, Summed
  <2>4. ASSUME Next, ~OnTrade
        PROVE  Quiet
    <3>1. CASE \E s \in Symbols : List(s) \/ Funding(s) \/ \E f \in Fields : Change(s, f)
      BY <3>1 DEF List, Funding, Change
    <3>2. CASE OnInstrumentPartial \/ OnInstrumentUpdate
      BY <3>2 DEF OnInstrumentPartial, OnInstrumentUpdate
    <3>3. CASE \/ OnInstrumentIgnored \/ OnFunding \/ Connect \/ SendPartial
               \/ Disconnect
      BY <3>3 DEF OnInstrumentIgnored, OnFunding, Connect, SendPartial, Disconnect
    <3> QED
      BY <2>4, <3>1, <3>2, <3>3 DEF Next
  <2> QED
    BY <2>1, <2>2, <2>3, <2>4
<1> QED
  BY <1>2, <1>3, PTL DEF Spec

(* Every trade of a message is in exactly one summary, with its            *)
(* neighbours of the same symbol, unless its symbol is discarded, in a     *)
(* message of any length (the loop of operator()(json::Trade)).            *)
THEOREM EveryTradeOnce == Spec => []TradesOnce
<1>1. Summed => TradesOnce
  BY Summarised DEF Summed
<1> QED
  BY <1>1, AlwaysSummed, PTL

(* The time of a summary is not before that of any of its trades, except   *)
(* the first, whose time is reset when the group before it is closed, in a *)
(* message of any length (the loop of operator()(json::Trade)).            *)
THEOREM EveryTradeInTime == Spec => []TimeCovers
<1>1. Summed => TimeCovers
  BY Timed DEF Summed
<1> QED
  BY <1>1, AlwaysSummed, PTL

-------------------------------------------------------------------------------
(* Functions and products.                                                 *)

Told == Fields \cup {"currency"}
Marks == {"tick", "state"}
ProductSet == [kept : Some(Fields), currency : BOOLEAN, dirty : SUBSET Marks,
               statistics : Seq(Values)]

LEMMA ValueSet == Values \subseteq Nat /\ 0 \in Values /\ 1 \in Values
  BY BoundsAssumption DEF Values, Events

LEMMA SomeMeans ==
  ASSUME NEW S, NEW f \in Some(S)
  PROVE  /\ DOMAIN f \subseteq S /\ f \in [DOMAIN f -> Values]
         /\ \A x \in DOMAIN f : f[x] \in Values
  BY DEF Some

LEMMA SomeIs ==
  ASSUME NEW S, NEW D \in SUBSET S, NEW f \in [D -> Values]
  PROVE  f \in Some(S) /\ DOMAIN f = D
  BY DEF Some

LEMMA NoneIsSome ==
  ASSUME NEW S
  PROVE  <<>> \in Some(S) /\ DOMAIN <<>> = {}
<1>1. <<>> \in [{} -> Values]
  OBVIOUS
<1> QED
  BY <1>1, SomeIs

LEMMA OverSome ==
  ASSUME NEW S, NEW old \in Some(S), NEW new \in Some(S)
  PROVE  /\ Over(old, new) \in Some(S)
         /\ DOMAIN Over(old, new) = DOMAIN old \cup DOMAIN new
         /\ \A x \in DOMAIN new : Over(old, new)[x] = new[x]
         /\ \A x \in DOMAIN old \ DOMAIN new : Over(old, new)[x] = old[x]
<1> DEFINE D == DOMAIN old \cup DOMAIN new
<1>1. D \in SUBSET S /\ Over(old, new) \in [D -> Values]
  BY SomeMeans DEF Over
<1> QED
  BY <1>1, SomeIs DEF Over

LEMMA OnlyOne ==
  ASSUME NEW S, NEW x \in S, NEW value \in Values
  PROVE  /\ Only(x, value) \in Some(S) /\ DOMAIN Only(x, value) = {x}
         /\ Only(x, value)[x] = value
<1>1. {x} \in SUBSET S /\ Only(x, value) \in [{x} -> Values]
  BY DEF Only
<1> QED
  BY <1>1, SomeIs DEF Only

(* What a row does to a product.                                           *)
LEMMA Updated ==
  ASSUME NEW p \in ProductSet, NEW row \in Some(Fields)
  PROVE  /\ Update(p, row) \in ProductSet
         /\ Update(p, row).kept = Over(p.kept, row)
         /\ Update(p, row).currency = p.currency
         /\ Update(p, row).dirty = p.dirty \cup (Changed(p, row) \cap Marks)
         /\ Update(p, row).statistics = IF "price" \in Changed(p, row)
                                        THEN Append(p.statistics, row["price"])
                                        ELSE p.statistics
         /\ Changed(p, row) \subseteq DOMAIN row
<1>1. Over(p.kept, row) \in Some(Fields)
  BY OverSome DEF ProductSet
<1>2. Changed(p, row) \subseteq DOMAIN row
  BY DEF Changed
<1>3. "price" \in Changed(p, row) => Append(p.statistics, row["price"]) \in Seq(Values)
  BY <1>2, SomeMeans DEF ProductSet
<1> DEFINE d == Changed(p, row)
<1> HIDE DEF d
<1> QED
  BY <1>1, <1>2, <1>3 DEF ProductSet, Update, Marks, d

(* A row that was taken changes nothing when it is taken again.            *)
LEMMA UpdatedTwice ==
  ASSUME NEW p \in ProductSet, NEW row \in Some(Fields)
  PROVE  Update(Update(p, row), row) = Update(p, row)
<1> DEFINE q == Update(p, row)
<1>1. q \in ProductSet /\ q.kept = Over(p.kept, row) /\ p.kept \in Some(Fields)
  BY Updated DEF ProductSet
<1>2. \A f \in DOMAIN row : f \in DOMAIN q.kept /\ q.kept[f] = row[f]
  <2> HIDE DEF q
  <2>1. /\ DOMAIN Over(p.kept, row) = DOMAIN p.kept \cup DOMAIN row
        /\ \A x \in DOMAIN row : Over(p.kept, row)[x] = row[x]
    BY DEF Over
  <2> QED
    BY <1>1, <2>1
<1>3. Changed(q, row) = {}
  BY <1>2 DEF Changed
<1>4. Over(q.kept, row) = q.kept
  <2>1. q.kept \in Some(Fields)
    BY <1>1 DEF ProductSet
  <2>2. q.kept = [f \in DOMAIN q.kept |-> q.kept[f]]
    BY <2>1, SomeMeans
  <2>3. DOMAIN q.kept \cup DOMAIN row = DOMAIN q.kept
    BY <1>2
  <2> HIDE DEF q
  <2> QED
    BY <1>2, <2>2, <2>3 DEF Over
<1> HIDE DEF q
<1>5. /\ Update(q, row) \in ProductSet
      /\ Update(q, row).kept = q.kept /\ Update(q, row).currency = q.currency
      /\ Update(q, row).dirty = q.dirty /\ Update(q, row).statistics = q.statistics
  <2>1. /\ Update(q, row) \in ProductSet
        /\ Update(q, row).kept = Over(q.kept, row) /\ Update(q, row).currency = q.currency
        /\ Update(q, row).dirty = q.dirty \cup (Changed(q, row) \cap Marks)
        /\ Update(q, row).statistics = IF "price" \in Changed(q, row)
                                       THEN Append(q.statistics, row["price"])
                                       ELSE q.statistics
    BY <1>1, Updated
  <2>2. q.dirty \cup ({} \cap Marks) = q.dirty
    OBVIOUS
  <2> QED
    BY <1>3, <1>4, <2>1, <2>2
<1>6. Update(q, row) = q
  BY <1>1, <1>5 DEF ProductSet
<1> QED
  BY <1>6 DEF q

LEMMA Cleaned ==
  ASSUME NEW p \in ProductSet
  PROVE  /\ Clear(p) \in ProductSet /\ Clear(p).kept = p.kept
         /\ Clear(p).currency = p.currency
         /\ Clear(p).dirty = {} /\ Clear(p).statistics = <<>>
<1>1. Clear(p) = [p EXCEPT !.dirty = {}, !.statistics = <<>>]
  BY DEF Clear
<1>2. <<>> \in Seq(Values) /\ {} \in SUBSET Marks
  OBVIOUS
<1> QED
  BY <1>1, <1>2 DEF ProductSet

(* The product an instrument row creates, before it takes the row.         *)
Created(row) == [FromFunding EXCEPT !.currency = TRUE,
                                    !.kept = [f \in DOMAIN row \cap {"tick"} |-> row[f]]]
Before(s, row) == IF s \in DOMAIN cache THEN cache[s] ELSE Created(row)

LEMMA New ==
  /\ FromFunding \in ProductSet /\ DOMAIN FromFunding.kept = {}
  /\ FromFunding.dirty = {} /\ FromFunding.statistics = <<>> /\ ~FromFunding.currency
  BY NoneIsSome DEF FromFunding, ProductSet

LEMMA Creation ==
  ASSUME NEW row \in Some(Fields)
  PROVE  /\ Created(row) \in ProductSet /\ DOMAIN Created(row).kept \subseteq {"tick"}
         /\ Created(row).dirty = {} /\ Created(row).statistics = <<>>
         /\ Created(row).currency
<1> DEFINE D == DOMAIN row \cap {"tick"}
           g == [f \in D |-> row[f]]
<1>1. D \in SUBSET Fields /\ g \in [D -> Values]
  BY SomeMeans
<1>2. g \in Some(Fields) /\ DOMAIN g = D
  BY <1>1, SomeIs
<1>3. Created(row) = [FromFunding EXCEPT !.currency = TRUE, !.kept = g]
  BY DEF Created
<1> HIDE DEF g
<1> QED
  BY <1>2, <1>3, New DEF ProductSet, FromFunding

Cached == /\ DOMAIN cache \subseteq Symbols
          /\ \A s \in DOMAIN cache : cache[s] \in ProductSet

LEMMA Found ==
  ASSUME Cached, NEW s \in Symbols, NEW row \in Some(Fields)
  PROVE  /\ Before(s, row) \in ProductSet
         /\ FindProduct(s, row) = Update(Before(s, row), row)
         /\ FindProduct(s, row) \in ProductSet
<1>1. Before(s, row) \in ProductSet
  BY Creation DEF Cached, Before
<1>2. FindProduct(s, row) = Update(Before(s, row), row)
  BY DEF FindProduct, FromInstrument, Before, Created
<1> QED
  BY <1>1, <1>2, Updated

-------------------------------------------------------------------------------
(* What the users are told.                                                *)

Said(q, action) ==
  IF action = "PARTIAL" \/ "tick" \in q.dirty THEN Over(Reference(q), News(q)) ELSE News(q)

(* What the news of a product are: what it keeps, and all that is marked.  *)
LEMMA SaidOf ==
  ASSUME NEW q \in ProductSet, q.dirty \subseteq DOMAIN q.kept, NEW action \in {"PARTIAL", "UPDATE"}
  PROVE  /\ Said(q, action) \in Some(Told)
         /\ "tick" \in DOMAIN Said(q, action) <=> action = "PARTIAL" \/ "tick" \in q.dirty
         /\ "state" \in DOMAIN Said(q, action) <=> "state" \in q.dirty
         /\ "price" \in DOMAIN Said(q, action) <=> q.statistics # <<>>
         /\ "tick" \in DOMAIN Said(q, action) => Said(q, action)["tick"] = Known(q, "tick")
         /\ "state" \in DOMAIN Said(q, action) => Said(q, action)["state"] = q.kept["state"]
         /\ "price" \in DOMAIN Said(q, action) =>
              Said(q, action)["price"] = q.statistics[Len(q.statistics)]
         /\ "currency" \in DOMAIN Said(q, action) =>
              Said(q, action)["currency"] = IF q.currency THEN 1 ELSE 0
<1>1. q.kept \in Some(Fields) /\ q.statistics \in Seq(Values) /\ q.currency \in BOOLEAN
  BY DEF ProductSet
<1>2. /\ Reference(q) \in Some(Told) /\ DOMAIN Reference(q) = {"tick", "currency"}
      /\ Reference(q)["tick"] = Known(q, "tick")
      /\ Reference(q)["currency"] = IF q.currency THEN 1 ELSE 0
  <2>1. Known(q, "tick") \in Values
    BY <1>1, SomeMeans, ValueSet DEF Known
  <2>2. {"tick", "currency"} \in SUBSET Told /\ Reference(q) \in [{"tick", "currency"} -> Values]
    BY <1>1, <2>1, ValueSet DEF Reference, Told, Fields
  <2> QED
    BY <2>2, SomeIs DEF Reference
<1>3. /\ Status(q) \in Some(Told)
      /\ DOMAIN Status(q) = IF "state" \in q.dirty THEN {"state"} ELSE {}
      /\ "state" \in q.dirty => Status(q)["state"] = q.kept["state"]
  <2>1. CASE "state" \in q.dirty
    <3>1. q.kept["state"] \in Values
      BY <1>1, <2>1, SomeMeans
    <3>2. "state" \in Told
      BY DEF Told, Fields
    <3> QED
      BY <2>1, <3>1, <3>2, OnlyOne DEF Status
  <2>2. CASE "state" \notin q.dirty
    BY <2>2, NoneIsSome DEF Status
  <2> QED
    BY <2>1, <2>2
<1>4. /\ Statistics(q) \in Some(Told)
      /\ DOMAIN Statistics(q) = IF q.statistics # <<>> THEN {"price"} ELSE {}
      /\ q.statistics # <<>> => Statistics(q)["price"] = q.statistics[Len(q.statistics)]
  <2>1. CASE q.statistics # <<>>
    <3>1. q.statistics[Len(q.statistics)] \in Values
      BY <1>1, <2>1
    <3>2. "price" \in Told
      BY DEF Told, Fields
    <3> QED
      BY <2>1, <3>1, <3>2, OnlyOne DEF Statistics
  <2>2. CASE q.statistics = <<>>
    BY <2>2, NoneIsSome DEF Statistics
  <2> QED
    BY <2>1, <2>2
<1>5. /\ News(q) \in Some(Told)
      /\ DOMAIN News(q) = DOMAIN Status(q) \cup DOMAIN Statistics(q)
      /\ "state" \in q.dirty => News(q)["state"] = q.kept["state"]
      /\ q.statistics # <<>> => News(q)["price"] = q.statistics[Len(q.statistics)]
  <2>1. News(q) \in Some(Told)
    BY <1>3, <1>4, OverSome DEF News
  <2> QED
    BY <1>3, <1>4, <2>1 DEF News, Over
<1>6. CASE action = "PARTIAL" \/ "tick" \in q.dirty
  <2>1. Said(q, action) = Over(Reference(q), News(q))
    BY <1>6 DEF Said
  <2>2. Said(q, action) \in Some(Told)
    <3>1. Over(Reference(q), News(q)) \in Some(Told)
      BY <1>2, <1>5, OverSome
    <3> QED
      BY <2>1, <3>1
  <2>3. /\ DOMAIN Said(q, action) = DOMAIN Reference(q) \cup DOMAIN News(q)
        /\ \A x \in DOMAIN News(q) : Said(q, action)[x] = News(q)[x]
        /\ \A x \in DOMAIN Reference(q) \ DOMAIN News(q) : Said(q, action)[x] = Reference(q)[x]
    BY <2>1 DEF Over
  <2> QED
    BY <1>2, <1>3, <1>4, <1>5, <1>6, <2>2, <2>3
<1>7. CASE ~(action = "PARTIAL" \/ "tick" \in q.dirty)
  <2>1. Said(q, action) = News(q)
    BY <1>7 DEF Said
  <2> QED
    BY <1>3, <1>4, <1>5, <1>7, <2>1
<1> QED
  BY <1>6, <1>7

(* What the users know of a product is what it keeps, as far as they were  *)
(* told; all they may not have been told is its reference data.            *)
Agree(kept, t) ==
  /\ \A f \in DOMAIN t \ {"currency"} : f \in DOMAIN kept /\ t[f] = kept[f]
  /\ DOMAIN kept \ DOMAIN t \subseteq {"tick"}

LEMMA Telling ==
  ASSUME NEW p \in ProductSet, p.dirty = {}, p.statistics = <<>>,
         NEW t \in Some(Told), Agree(p.kept, t),
         NEW row \in Some(Fields), NEW action \in {"PARTIAL", "UPDATE"},
         action = "PARTIAL" => "tick" \in DOMAIN row,
         NEW q, q = Update(p, row), NEW u, u = Over(t, Said(q, action))
  PROVE  /\ q \in ProductSet /\ u \in Some(Told) /\ Agree(q.kept, u)
         /\ DOMAIN q.kept \ DOMAIN u \subseteq DOMAIN p.kept \ DOMAIN t
         /\ action = "PARTIAL" => "tick" \in DOMAIN u
         /\ \A f \in DOMAIN row \cap DOMAIN u : u[f] = row[f]
         /\ \A f \in DOMAIN t \ (DOMAIN row \cup {"currency"}) : u[f] = t[f]
         /\ DOMAIN t \subseteq DOMAIN u
         /\ "currency" \in DOMAIN u =>
              \/ u["currency"] = IF p.currency THEN 1 ELSE 0
              \/ "currency" \in DOMAIN t /\ u["currency"] = t["currency"]
<1> DEFINE n == Said(q, action)
           c == Changed(p, row)
<1>1. /\ q \in ProductSet /\ q.kept = Over(p.kept, row) /\ q.currency = p.currency
      /\ q.dirty = c \cap Marks
      /\ q.statistics = IF "price" \in c THEN <<row["price"]>> ELSE <<>>
      /\ c \subseteq DOMAIN row
  <2>1. /\ q.dirty = p.dirty \cup (c \cap Marks) /\ c \subseteq DOMAIN row
        /\ q.statistics = IF "price" \in c THEN Append(p.statistics, row["price"])
                          ELSE p.statistics
    BY Updated
  <2>2. \A x : Append(<<>>, x) = <<x>>
    OBVIOUS
  <2> QED
    BY <2>1, <2>2, Updated
<1>2. /\ DOMAIN q.kept = DOMAIN p.kept \cup DOMAIN row
      /\ \A f \in DOMAIN row : q.kept[f] = row[f]
      /\ \A f \in DOMAIN p.kept \ DOMAIN row : q.kept[f] = p.kept[f]
  BY <1>1 DEF Over
<1>3. /\ \A f \in DOMAIN row \ c : f \in DOMAIN p.kept /\ p.kept[f] = row[f]
      /\ DOMAIN row \subseteq Fields /\ DOMAIN p.kept \subseteq Fields
      /\ DOMAIN t \subseteq Told
  BY SomeMeans DEF Changed, ProductSet
<1>4. /\ n \in Some(Told)
      /\ "tick" \in DOMAIN n <=> action = "PARTIAL" \/ "tick" \in c
      /\ "state" \in DOMAIN n <=> "state" \in c
      /\ "price" \in DOMAIN n <=> "price" \in c
      /\ \A f \in DOMAIN n \ {"currency"} : f \in DOMAIN row /\ n[f] = row[f]
      /\ "currency" \in DOMAIN n => n["currency"] = IF p.currency THEN 1 ELSE 0
  <2>1. q.dirty \subseteq DOMAIN q.kept
    BY <1>1, <1>2
  <2>2. /\ n \in Some(Told)
        /\ "tick" \in DOMAIN n <=> action = "PARTIAL" \/ "tick" \in q.dirty
        /\ "state" \in DOMAIN n <=> "state" \in q.dirty
        /\ "price" \in DOMAIN n <=> q.statistics # <<>>
        /\ "tick" \in DOMAIN n => n["tick"] = Known(q, "tick")
        /\ "state" \in DOMAIN n => n["state"] = q.kept["state"]
        /\ "price" \in DOMAIN n => n["price"] = q.statistics[Len(q.statistics)]
        /\ "currency" \in DOMAIN n => n["currency"] = IF q.currency THEN 1 ELSE 0
    BY <1>1, <2>1, SaidOf
  <2> HIDE DEF n, c
  <2>3. /\ "tick" \in DOMAIN n <=> action = "PARTIAL" \/ "tick" \in c
        /\ "state" \in DOMAIN n <=> "state" \in c
        /\ "price" \in DOMAIN n <=> "price" \in c
    BY <1>1, <2>2 DEF Marks
  <2>4. "tick" \in DOMAIN n => "tick" \in DOMAIN row /\ n["tick"] = row["tick"]
    BY <1>1, <1>2, <2>2, <2>3 DEF Known
  <2>5. "state" \in DOMAIN n => "state" \in DOMAIN row /\ n["state"] = row["state"]
    BY <1>1, <1>2, <2>2, <2>3
  <2>6. "price" \in DOMAIN n => "price" \in DOMAIN row /\ n["price"] = row["price"]
    BY <1>1, <2>2, <2>3
  <2>7. DOMAIN n \subseteq {"tick", "state", "price", "currency"}
    BY <2>2, SomeMeans DEF Told, Fields
  <2> QED
    BY <1>1, <2>2, <2>3, <2>4, <2>5, <2>6, <2>7
<1>5. u \in Some(Told)
  BY <1>4, OverSome
<1>6. /\ DOMAIN u = DOMAIN t \cup DOMAIN n
      /\ \A f \in DOMAIN n : u[f] = n[f]
      /\ \A f \in DOMAIN t \ DOMAIN n : u[f] = t[f]
  BY DEF Over
<1> HIDE DEF n, c
<1>7. \A f \in c : f \in DOMAIN n
  BY <1>1, <1>3, <1>4 DEF Fields
<1>8. ASSUME NEW f \in DOMAIN u \ {"currency"}
      PROVE  f \in DOMAIN q.kept /\ u[f] = q.kept[f]
  <2>1. CASE f \in DOMAIN n
    BY <1>2, <1>4, <1>6, <2>1
  <2>2. CASE f \notin DOMAIN n
    <3>1. f \in DOMAIN t /\ u[f] = t[f] /\ f \in DOMAIN p.kept /\ t[f] = p.kept[f]
      BY <1>6, <2>2 DEF Agree
    <3>2. f \notin c
      BY <1>7, <2>2
    <3> QED
      BY <1>2, <1>3, <3>1, <3>2
  <2> QED
    BY <2>1, <2>2
<1>9. DOMAIN q.kept \ DOMAIN u \subseteq DOMAIN p.kept \ DOMAIN t
  BY <1>2, <1>3, <1>6, <1>7
<1>10. Agree(q.kept, u)
  BY <1>8, <1>9 DEF Agree
<1>11. \A f \in DOMAIN row \cap DOMAIN u : u[f] = row[f]
  <2>1. \A f \in DOMAIN row : f # "currency"
    BY <1>3 DEF Fields
  <2> QED
    BY <1>2, <1>8, <2>1
<1>12. \A f \in DOMAIN t \ (DOMAIN row \cup {"currency"}) : u[f] = t[f]
  BY <1>4, <1>6
<1> QED
  BY <1>1, <1>4, <1>5, <1>6, <1>9, <1>10, <1>11, <1>12

-------------------------------------------------------------------------------
(* The invariant.                                                          *)

RowsSet == UNION {[D -> Some(Fields)] : D \in SUBSET Symbols}
MessageSet ==
  [table : {"instrument"}, action : {"PARTIAL", "UPDATE", "INSERT"}, rows : RowsSet]
  \cup [table : {"funding"}, symbol : Symbols]

Typed ==
  /\ partial \in BOOLEAN /\ Cached
  /\ told \in [Symbols -> Some(Told)]
  /\ stream \in {"off", "pending", "on"} /\ inbox \in Seq(MessageSet)
  /\ listed \subseteq Symbols /\ market \in [Symbols -> [Fields -> Values]]
  /\ missed \subseteq Symbols /\ late \subseteq missed
  /\ budget \in [Events -> Nat]

(* The market's values are in proportion to the changes made.              *)
Bounded ==
  /\ \A s \in Symbols : \A f \in Fields :
       market[s][f] + budget["change"] <= Budget["change"] + 1
  /\ budget["disconnect"] <= Budget["disconnect"]

(* A session has one PARTIAL, of the symbols listed by then, and only what *)
(* comes after it is funding.                                              *)
IsPartial(m) == m.table = "instrument" /\ m.action = "PARTIAL"
TrueOf(m) ==
  /\ m.table = "instrument" => DOMAIN m.rows \subseteq listed
  /\ IsPartial(m) => /\ stream = "on" /\ ~partial /\ DOMAIN m.rows = listed \ late
                     /\ \A s \in DOMAIN m.rows : DOMAIN m.rows[s] = Fields
  /\ m.table = "funding" => partial /\ m.symbol \in listed
InSession ==
  /\ late \subseteq listed /\ DOMAIN cache \subseteq listed
  /\ partial => stream = "on" /\ listed \ late \subseteq DOMAIN cache
  /\ stream = "off" => inbox = <<>>
  /\ \A i \in DOMAIN inbox : TrueOf(inbox[i])
  /\ \A i, j \in DOMAIN inbox : IsPartial(inbox[i]) /\ IsPartial(inbox[j]) => i = j
  /\ stream = "on" /\ ~partial => \E i \in DOMAIN inbox : IsPartial(inbox[i])

(* Who has a product, and what the users know of it.                       *)
Introduced ==
  /\ \A s \in Symbols \ DOMAIN cache : DOMAIN told[s] = {}
  /\ \A s \in DOMAIN cache \ missed : cache[s].currency
Cleared ==
  \A s \in DOMAIN cache \ Discarded : cache[s].dirty = {} /\ cache[s].statistics = <<>>
Withheld ==
  /\ \A s \in Discarded : DOMAIN told[s] \subseteq {"tick", "currency"}
  /\ \A s \in DOMAIN cache \cap Discarded :
       Len(cache[s].statistics) <=
         (Budget["disconnect"] - budget["disconnect"]) + (IF partial THEN 1 ELSE 0)
Faithful ==
  \A s \in DOMAIN cache \ Discarded :
    /\ Agree(cache[s].kept, told[s])
    /\ DOMAIN cache[s].kept \ DOMAIN told[s] # {} => s \in missed /\ (partial => s \in late)
Informed == Introduced /\ Cleared /\ Withheld /\ Faithful /\ CurrencyTold

(* The last word on a value that is on its way is the market's, and if     *)
(* there is none, the users have it.                                       *)
Carries(m, s, f) ==
  m.table = "instrument" /\ m.action # "INSERT" /\ s \in DOMAIN m.rows /\ f \in DOMAIN m.rows[s]
Last(i, s, f) ==
  Carries(inbox[i], s, f) /\ \A j \in DOMAIN inbox : Carries(inbox[j], s, f) => j <= i
Knows(s, f) == f \in DOMAIN told[s] /\ told[s][f] = market[s][f]
Following ==
  \A s \in listed : \A f \in Fields :
    /\ \A i \in DOMAIN inbox : Last(i, s, f) => inbox[i].rows[s][f] = market[s][f]
    /\ partial /\ s \notin Discarded \cup late /\ (\A i \in DOMAIN inbox : ~Carries(inbox[i], s, f))
         => Knows(s, f)

Inv == Typed /\ Bounded /\ InSession /\ Informed /\ Following

-------------------------------------------------------------------------------
(* The inbox.                                                              *)

LEMMA MessageIs ==
  ASSUME Typed, NEW i \in DOMAIN inbox
  PROVE  /\ inbox[i] \in MessageSet
         /\ inbox[i].table = "instrument" =>
              /\ inbox[i].action \in {"PARTIAL", "UPDATE", "INSERT"}
              /\ DOMAIN inbox[i].rows \subseteq Symbols
              /\ \A s \in DOMAIN inbox[i].rows : inbox[i].rows[s] \in Some(Fields)
         /\ inbox[i].table = "funding" => inbox[i].symbol \in Symbols
<1>1. inbox[i] \in MessageSet
  BY DEF Typed
<1>2. CASE inbox[i].table = "instrument"
  <2>1. inbox[i].action \in {"PARTIAL", "UPDATE", "INSERT"} /\ inbox[i].rows \in RowsSet
    BY <1>1, <1>2 DEF MessageSet
  <2> QED
    BY <1>1, <1>2, <2>1 DEF RowsSet
<1>3. CASE inbox[i].table # "instrument"
  BY <1>1, <1>3 DEF MessageSet
<1> QED
  BY <1>1, <1>2, <1>3

LEMMA Reads ==
  ASSUME Typed, inbox # <<>>, inbox' = Tail(inbox)
  PROVE  /\ 1 \in DOMAIN inbox /\ Head(inbox) = inbox[1] /\ inbox' \in Seq(MessageSet)
         /\ DOMAIN inbox \subseteq Nat /\ DOMAIN inbox' \subseteq Nat
         /\ \A i \in DOMAIN inbox' : i + 1 \in DOMAIN inbox /\ inbox'[i] = inbox[i + 1]
         /\ \A i \in DOMAIN inbox \ {1} : /\ i - 1 \in DOMAIN inbox'
                                           /\ inbox'[i - 1] = inbox[i]
<1>1. inbox \in Seq(MessageSet)
  BY DEF Typed
<1> QED
  BY <1>1

LEMMA Gets ==
  ASSUME Typed, NEW m \in MessageSet, inbox' = Append(inbox, m)
  PROVE  /\ inbox' \in Seq(MessageSet) /\ Len(inbox) + 1 \in DOMAIN inbox'
         /\ DOMAIN inbox \subseteq Nat /\ DOMAIN inbox' \subseteq Nat /\ Len(inbox) \in Nat
         /\ inbox'[Len(inbox) + 1] = m
         /\ \A i \in DOMAIN inbox : /\ i \in DOMAIN inbox' /\ inbox'[i] = inbox[i]
                                    /\ i <= Len(inbox)
         /\ \A i \in DOMAIN inbox' : i \in DOMAIN inbox \/ i = Len(inbox) + 1
<1>1. inbox \in Seq(MessageSet)
  BY DEF Typed
<1> QED
  BY <1>1

(* Reading: the session goes on.                                           *)
LEMMA ReadSession ==
  ASSUME Typed, InSession, inbox # <<>>, inbox' = Tail(inbox),
         UNCHANGED <<stream, listed, late>>,
         DOMAIN cache \subseteq DOMAIN cache', DOMAIN cache' \subseteq listed,
         \/ ~IsPartial(inbox[1]) /\ partial' = partial
         \/ IsPartial(inbox[1]) /\ partial' = TRUE /\ listed \ late \subseteq DOMAIN cache'
  PROVE  InSession'
<1>1. /\ 1 \in DOMAIN inbox
      /\ DOMAIN inbox \subseteq Nat /\ DOMAIN inbox' \subseteq Nat
      /\ \A i \in DOMAIN inbox' : i + 1 \in DOMAIN inbox /\ inbox'[i] = inbox[i + 1]
      /\ \A i \in DOMAIN inbox \ {1} : i - 1 \in DOMAIN inbox' /\ inbox'[i - 1] = inbox[i]
  BY Reads
<1>2. \A i, j \in DOMAIN inbox' : IsPartial(inbox'[i]) /\ IsPartial(inbox'[j]) => i = j
  <2> SUFFICES ASSUME NEW i \in DOMAIN inbox', NEW j \in DOMAIN inbox',
                      IsPartial(inbox'[i]), IsPartial(inbox'[j])
               PROVE  i = j
    OBVIOUS
  <2>1. i + 1 = j + 1
    BY <1>1 DEF InSession
  <2> QED
    BY <1>1, <2>1
<1>3. IsPartial(inbox[1]) => \A i \in DOMAIN inbox' : ~IsPartial(inbox'[i])
  <2> SUFFICES ASSUME IsPartial(inbox[1]), NEW i \in DOMAIN inbox', IsPartial(inbox'[i])
               PROVE  FALSE
    OBVIOUS
  <2>1. i + 1 = 1
    BY <1>1 DEF InSession
  <2>2. i \in DOMAIN inbox' /\ 1 \in DOMAIN inbox' /\ i = 0
    <3>1. inbox' \in Seq(MessageSet)
      BY Reads
    <3> QED
      BY <1>1, <2>1, <3>1
  <2>3. inbox' \in Seq(MessageSet)
    BY Reads
  <2> QED
    BY <2>2, <2>3
<1>4. ASSUME NEW i \in DOMAIN inbox'
      PROVE  TrueOf(inbox[i])'
  <2>1. TrueOf(inbox[i + 1]) /\ inbox'[i] = inbox[i + 1]
    BY <1>1 DEF InSession
  <2> QED
    BY <1>3, <2>1 DEF TrueOf, IsPartial
<1>5. stream = "on" /\ ~partial' => \E i \in DOMAIN inbox' : IsPartial(inbox'[i])
  <2> SUFFICES ASSUME stream = "on", ~partial'
               PROVE  \E i \in DOMAIN inbox' : IsPartial(inbox'[i])
    OBVIOUS
  <2>1. ~partial /\ ~IsPartial(inbox[1])
    OBVIOUS
  <2>2. PICK i \in DOMAIN inbox : IsPartial(inbox[i])
    BY <2>1 DEF InSession
  <2> QED
    BY <1>1, <2>1, <2>2
<1>6. stream = "off" => inbox' = <<>>
  BY DEF InSession
<1>7. partial' => stream = "on" /\ listed \ late \subseteq DOMAIN cache'
  BY <1>1 DEF InSession, TrueOf
<1> QED
  BY <1>2, <1>4, <1>5, <1>6, <1>7 DEF InSession, IsPartial

(* Reading: the last word is taken off, or it is still to come.            *)
LEMMA ReadLast ==
  ASSUME Typed, Following, inbox # <<>>, inbox' = Tail(inbox), market' = market,
         NEW s \in listed, NEW f \in Fields
  PROVE  /\ \A i \in DOMAIN inbox' : Last(i, s, f)' => inbox'[i].rows[s][f] = market[s][f]
         /\ (\A i \in DOMAIN inbox' : ~Carries(inbox'[i], s, f)) =>
              \/ Carries(inbox[1], s, f) /\ inbox[1].rows[s][f] = market[s][f]
              \/ \A i \in DOMAIN inbox : ~Carries(inbox[i], s, f)
<1>1. /\ 1 \in DOMAIN inbox
      /\ DOMAIN inbox \subseteq Nat /\ DOMAIN inbox' \subseteq Nat
      /\ \A i \in DOMAIN inbox' : i + 1 \in DOMAIN inbox /\ inbox'[i] = inbox[i + 1]
      /\ \A i \in DOMAIN inbox \ {1} : i - 1 \in DOMAIN inbox' /\ inbox'[i - 1] = inbox[i]
  BY Reads
<1>2. \A i \in DOMAIN inbox : Last(i, s, f) => inbox[i].rows[s][f] = market[s][f]
  BY DEF Following
<1>3. ASSUME NEW i \in DOMAIN inbox', Last(i, s, f)'
      PROVE  inbox'[i].rows[s][f] = market[s][f]
  <2>0. /\ Carries(inbox'[i], s, f)
        /\ \A k \in DOMAIN inbox' : Carries(inbox'[k], s, f) => k <= i
    BY <1>3 DEF Last, Carries
  <2>1. inbox'[i] = inbox[i + 1] /\ i + 1 \in DOMAIN inbox /\ Carries(inbox[i + 1], s, f)
    BY <1>1, <2>0
  <2>2. ASSUME NEW j \in DOMAIN inbox, Carries(inbox[j], s, f)
        PROVE  j <= i + 1
    <3>1. CASE j = 1
      <4>1. inbox' \in Seq(MessageSet)
        BY Reads
      <4> QED
        BY <1>1, <3>1, <4>1
    <3>2. CASE j # 1
      <4>1. j - 1 \in DOMAIN inbox' /\ Carries(inbox'[j - 1], s, f)
        BY <1>1, <2>2, <3>2
      <4>2. j - 1 <= i
        BY <2>0, <4>1
      <4> QED
        BY <1>1, <4>2
    <3> QED
      BY <3>1, <3>2
  <2> QED
    BY <1>2, <2>1, <2>2 DEF Last
<1>4. ASSUME \A i \in DOMAIN inbox' : ~Carries(inbox'[i], s, f), Carries(inbox[1], s, f)
      PROVE  inbox[1].rows[s][f] = market[s][f]
  <2>1. \A j \in DOMAIN inbox : Carries(inbox[j], s, f) => j = 1
    BY <1>1, <1>4
  <2> QED
    BY <1>1, <1>2, <1>4, <2>1 DEF Last
<1>5. ASSUME \A i \in DOMAIN inbox' : ~Carries(inbox'[i], s, f), ~Carries(inbox[1], s, f)
      PROVE  \A i \in DOMAIN inbox : ~Carries(inbox[i], s, f)
  BY <1>1, <1>5
<1> QED
  BY <1>3, <1>4, <1>5

(* Getting a message about the market.                                     *)
LEMMA GetLast ==
  ASSUME Typed, NEW m \in MessageSet, inbox' = Append(inbox, m),
         NEW s \in Symbols, NEW f \in Fields,
         Carries(m, s, f) => m.rows[s][f] = market'[s][f],
         ~Carries(m, s, f) =>
           /\ market'[s][f] = market[s][f]
           /\ \A i \in DOMAIN inbox : Last(i, s, f) => inbox[i].rows[s][f] = market[s][f]
  PROVE  /\ \A i \in DOMAIN inbox' : Last(i, s, f)' => inbox'[i].rows[s][f] = market'[s][f]
         /\ (\A i \in DOMAIN inbox' : ~Carries(inbox'[i], s, f)) =>
              ~Carries(m, s, f) /\ \A i \in DOMAIN inbox : ~Carries(inbox[i], s, f)
<1> DEFINE n == Len(inbox) + 1
<1>1. /\ inbox' \in Seq(MessageSet) /\ n \in DOMAIN inbox'
      /\ DOMAIN inbox \subseteq Nat /\ Len(inbox) \in Nat /\ inbox'[n] = m
      /\ \A i \in DOMAIN inbox : i \in DOMAIN inbox' /\ inbox'[i] = inbox[i] /\ i <= Len(inbox)
      /\ \A i \in DOMAIN inbox' : i \in DOMAIN inbox \/ i = n
  BY Gets
<1>2. ASSUME NEW i \in DOMAIN inbox', Last(i, s, f)'
      PROVE  inbox'[i].rows[s][f] = market'[s][f]
  <2>0. /\ Carries(inbox'[i], s, f)
        /\ \A k \in DOMAIN inbox' : Carries(inbox'[k], s, f) => k <= i
    BY <1>2 DEF Last, Carries
  <2>1. CASE i = n
    BY <1>1, <2>0, <2>1
  <2>2. CASE i # n
    <3>1. i \in DOMAIN inbox /\ inbox'[i] = inbox[i] /\ i < n
      BY <1>1, <2>2
    <3>2. ~Carries(m, s, f)
      BY <1>1, <2>0, <3>1
    <3>3. Last(i, s, f)
      BY <1>1, <2>0, <3>1 DEF Last
    <3> QED
      BY <3>1, <3>2, <3>3
  <2> QED
    BY <2>1, <2>2
<1>3. (\A i \in DOMAIN inbox' : ~Carries(inbox'[i], s, f)) =>
        ~Carries(m, s, f) /\ \A i \in DOMAIN inbox : ~Carries(inbox[i], s, f)
  BY <1>1
<1> QED
  BY <1>2, <1>3

(* A message that is true in the next state.                               *)
WillBeTrue(m) ==
  /\ m.table = "instrument" => DOMAIN m.rows \subseteq listed'
  /\ IsPartial(m) => /\ stream' = "on" /\ ~partial' /\ DOMAIN m.rows = listed' \ late'
                     /\ \A s \in DOMAIN m.rows : DOMAIN m.rows[s] = Fields
  /\ m.table = "funding" => partial' /\ m.symbol \in listed'

LEMMA GetSession ==
  ASSUME Typed, InSession, NEW m \in MessageSet, inbox' = Append(inbox, m),
         WillBeTrue(m), stream # "off", UNCHANGED <<partial, cache>>,
         listed \subseteq listed', late' \subseteq listed',
         stream = "on" => listed' \ late' = listed \ late,
         \/ ~IsPartial(m) /\ stream' = stream
         \/ IsPartial(m) /\ stream = "pending" /\ stream' = "on"
  PROVE  InSession'
<1> DEFINE n == Len(inbox) + 1
<1>1. /\ inbox' \in Seq(MessageSet) /\ n \in DOMAIN inbox'
      /\ DOMAIN inbox \subseteq Nat /\ Len(inbox) \in Nat /\ inbox'[n] = m
      /\ \A i \in DOMAIN inbox : i \in DOMAIN inbox' /\ inbox'[i] = inbox[i] /\ i <= Len(inbox)
      /\ \A i \in DOMAIN inbox' : i \in DOMAIN inbox \/ i = n
  BY Gets
<1>2. stream # "on" => ~partial /\ \A i \in DOMAIN inbox : ~IsPartial(inbox[i])
  BY DEF InSession, TrueOf
<1>3. ASSUME NEW i \in DOMAIN inbox'
      PROVE  TrueOf(inbox[i])' 
  <2>1. CASE i = n
    BY <1>1, <2>1 DEF TrueOf, IsPartial, WillBeTrue
  <2>2. CASE i # n
    <3>1. i \in DOMAIN inbox /\ inbox'[i] = inbox[i] /\ TrueOf(inbox[i])
      BY <1>1, <2>2 DEF InSession
    <3> QED
      BY <1>2, <3>1 DEF TrueOf, IsPartial
  <2> QED
    BY <2>1, <2>2
<1>4. \A i, j \in DOMAIN inbox' : IsPartial(inbox'[i]) /\ IsPartial(inbox'[j]) => i = j
  BY <1>1, <1>2 DEF InSession
<1>5. stream' = "on" /\ ~partial => \E i \in DOMAIN inbox' : IsPartial(inbox'[i])
  BY <1>1 DEF InSession
<1>6. late' \subseteq listed' /\ DOMAIN cache \subseteq listed' /\ stream' # "off"
      /\ (partial => stream' = "on" /\ listed' \ late' \subseteq DOMAIN cache)
  BY <1>2 DEF InSession
<1> QED
  BY <1>3, <1>4, <1>5, <1>6 DEF InSession, IsPartial

-------------------------------------------------------------------------------
(* Handlers.                                                               *)

(* What a handler tells of a symbol that is not discarded.                 *)
Digested(s, row, action) ==
  /\ cache'[s] = Clear(FindProduct(s, row))
  /\ told'[s] = Over(told[s], Said(FindProduct(s, row), action))

LEMMA Digestion ==
  ASSUME Typed, InSession, Informed, NEW s \in listed \ Discarded, NEW row \in Some(Fields),
         NEW action \in {"PARTIAL", "UPDATE"}, action = "PARTIAL" => "tick" \in DOMAIN row,
         Digested(s, row, action),
         action = "PARTIAL" \/ partial
  PROVE  /\ cache'[s] \in ProductSet /\ told'[s] \in Some(Told)
         /\ s \notin missed => cache'[s].currency
         /\ cache'[s].dirty = {} /\ cache'[s].statistics = <<>>
         /\ Agree(cache'[s].kept, told'[s])
         /\ DOMAIN cache'[s].kept \ DOMAIN told'[s] # {} =>
              action # "PARTIAL" /\ s \in missed /\ (partial => s \in late)
         /\ \A f \in DOMAIN row : action = "PARTIAL" \/ s \notin late =>
              f \in DOMAIN told'[s] /\ told'[s][f] = row[f]
         /\ \A f \in Fields : f \in DOMAIN told[s] /\ f \notin DOMAIN row =>
              f \in DOMAIN told'[s] /\ told'[s][f] = told[s][f]
         /\ "currency" \in DOMAIN told'[s] /\ s \notin missed => told'[s]["currency"] = 1
<1> DEFINE p == Before(s, row)
           q == FindProduct(s, row)
           t == told[s]
           u == told'[s]
<1>1. s \in Symbols /\ t \in Some(Told) /\ Cached
  BY DEF Typed
<1>2. p \in ProductSet /\ q = Update(p, row) /\ q \in ProductSet
  BY <1>1, Found
<1>3. s \notin DOMAIN cache => action = "PARTIAL" \/ (s \in missed /\ s \in late)
  BY DEF InSession, Typed
<1>4. /\ p.dirty = {} /\ p.statistics = <<>> /\ Agree(p.kept, t)
      /\ s \notin missed => p.currency
  <2>1. CASE s \in DOMAIN cache
    BY <2>1 DEF Before, Informed, Cleared, Faithful, Introduced
  <2>2. CASE s \notin DOMAIN cache
    <3>1. p = Created(row) /\ DOMAIN t = {}
      BY <1>1, <2>2 DEF Before, Informed, Introduced
    <3> QED
      BY <3>1, Creation DEF Agree
  <2> QED
    BY <2>1, <2>2
<1>5. DOMAIN p.kept \ DOMAIN t # {} =>
        action = "PARTIAL" \/ (s \in missed /\ (partial => s \in late))
  <2>1. CASE s \in DOMAIN cache
    BY <2>1 DEF Before, Informed, Faithful
  <2>2. CASE s \notin DOMAIN cache
    BY <1>3, <2>2
  <2> QED
    BY <2>1, <2>2
<1>6. u = Over(t, Said(q, action)) /\ cache'[s] = Clear(q)
  BY DEF Digested
<1> HIDE DEF p, q, t, u
<1>7. /\ u \in Some(Told) /\ Agree(q.kept, u)
      /\ DOMAIN q.kept \ DOMAIN u \subseteq DOMAIN p.kept \ DOMAIN t
      /\ action = "PARTIAL" => "tick" \in DOMAIN u
      /\ \A f \in DOMAIN row \cap DOMAIN u : u[f] = row[f]
      /\ \A f \in DOMAIN t \ (DOMAIN row \cup {"currency"}) : u[f] = t[f]
      /\ DOMAIN t \subseteq DOMAIN u
      /\ "currency" \in DOMAIN u =>
           \/ u["currency"] = IF p.currency THEN 1 ELSE 0
           \/ "currency" \in DOMAIN t /\ u["currency"] = t["currency"]
  BY <1>1, <1>2, <1>4, <1>6, Telling DEF t
<1>8. /\ cache'[s] \in ProductSet /\ cache'[s].kept = q.kept
      /\ cache'[s].dirty = {} /\ cache'[s].statistics = <<>>
      /\ cache'[s].currency = p.currency
  BY <1>2, <1>6, Cleaned, Updated
<1>9. DOMAIN q.kept \ DOMAIN u # {} => action # "PARTIAL" /\ s \in missed /\ (partial => s \in late)
  <2>1. DOMAIN q.kept \ DOMAIN u \subseteq {"tick"}
    BY <1>7 DEF Agree
  <2>2. DOMAIN q.kept \ DOMAIN u # {} => action # "PARTIAL"
    BY <1>7, <2>1
  <2> QED
    BY <1>5, <1>7, <2>2
<1>10. \A f \in DOMAIN row : action = "PARTIAL" \/ s \notin late => f \in DOMAIN u /\ u[f] = row[f]
  <2>1. DOMAIN row \subseteq DOMAIN q.kept
    <3>1. q.kept = Over(p.kept, row)
      BY <1>2, Updated
    <3> QED
      BY <3>1 DEF Over
  <2> QED
    BY <1>7, <1>9, <2>1
<1>11. \A f \in Fields : f \in DOMAIN t /\ f \notin DOMAIN row => f \in DOMAIN u /\ u[f] = t[f]
  BY <1>7 DEF Fields
<1>12. "currency" \in DOMAIN u /\ s \notin missed => u["currency"] = 1
  BY <1>1, <1>4, <1>7 DEF Informed, CurrencyTold, t
<1> QED
  BY <1>4, <1>7, <1>8, <1>9, <1>10, <1>11, <1>12 DEF t, u

(* What the first PARTIAL does to a symbol that is discarded.              *)
LEMMA DiscardedPartial ==
  ASSUME Typed, Informed, NEW s \in Symbols \cap Discarded, NEW row \in Some(Fields),
         cache'[s] = FindProduct(s, row),
         told'[s] = Over(told[s], Reference(FindProduct(s, row)))
  PROVE  /\ cache'[s] \in ProductSet /\ told'[s] \in Some(Told)
         /\ s \in DOMAIN cache => /\ cache'[s].currency = cache[s].currency
                                 /\ Len(cache'[s].statistics) <= Len(cache[s].statistics) + 1
         /\ s \notin DOMAIN cache => cache'[s].currency /\ Len(cache'[s].statistics) <= 1
         /\ DOMAIN told'[s] = DOMAIN told[s] \cup {"tick", "currency"}
         /\ told'[s]["currency"] = IF cache'[s].currency THEN 1 ELSE 0
<1> DEFINE p == Before(s, row)
           q == FindProduct(s, row)
<1>1. told[s] \in Some(Told) /\ Cached
  BY DEF Typed
<1>2. p \in ProductSet /\ q = Update(p, row) /\ q \in ProductSet
  BY <1>1, Found
<1>3. /\ q.currency = p.currency /\ p.statistics \in Seq(Values)
      /\ q.statistics = p.statistics \/ \E v \in Values : q.statistics = Append(p.statistics, v)
  <2>1. "price" \in Changed(p, row) => row["price"] \in Values
    BY <1>2, Updated, SomeMeans
  <2>2. /\ q.currency = p.currency
        /\ q.statistics = IF "price" \in Changed(p, row)
                          THEN Append(p.statistics, row["price"]) ELSE p.statistics
    BY <1>2, Updated
  <2>3. p.statistics \in Seq(Values)
    BY <1>2 DEF ProductSet
  <2> HIDE DEF p, q
  <2> QED
    BY <2>1, <2>2, <2>3
<1>4. Len(q.statistics) <= Len(p.statistics) + 1
  BY <1>3
<1>5. /\ Reference(q) \in Some(Told) /\ DOMAIN Reference(q) = {"tick", "currency"}
      /\ Reference(q)["currency"] = IF q.currency THEN 1 ELSE 0
  <2>1. q.kept \in Some(Fields) /\ q.currency \in BOOLEAN
    BY <1>2 DEF ProductSet
  <2>2. Known(q, "tick") \in Values
    BY <2>1, SomeMeans, ValueSet DEF Known
  <2>3. {"tick", "currency"} \in SUBSET Told /\ Reference(q) \in [{"tick", "currency"} -> Values]
    BY <2>1, <2>2, ValueSet DEF Reference, Told, Fields
  <2> QED
    BY <2>3, SomeIs DEF Reference
<1> HIDE DEF p, q
<1>6. told'[s] = Over(told[s], Reference(q)) /\ cache'[s] = q
  BY DEF q
<1>7. told'[s] \in Some(Told)
  <2>1. Over(told[s], Reference(q)) \in Some(Told)
    BY <1>1, <1>5, OverSome
  <2> QED
    BY <1>6, <2>1
<1>8. s \in DOMAIN cache => p = cache[s]
  BY DEF p, Before
<1>9. s \notin DOMAIN cache => p.currency /\ p.statistics = <<>>
  BY Creation DEF p, Before
<1>10. /\ DOMAIN told'[s] = DOMAIN told[s] \cup {"tick", "currency"}
       /\ told'[s]["currency"] = IF q.currency THEN 1 ELSE 0
  BY <1>5, <1>6 DEF Over
<1> QED
  BY <1>2, <1>3, <1>4, <1>6, <1>7, <1>8, <1>9, <1>10

(* A handler that tells of the symbols of some rows.                       *)
TellsOf(rows, action) ==
  /\ DOMAIN rows \subseteq listed /\ \A s \in DOMAIN rows : rows[s] \in Some(Fields)
  /\ DOMAIN cache' = DOMAIN cache \cup DOMAIN rows
  /\ \A s \in DOMAIN cache \ DOMAIN rows : cache'[s] = cache[s]
  /\ DOMAIN told' = Symbols /\ told' = [s \in Symbols |-> told'[s]]
  /\ \A s \in Symbols \ DOMAIN rows : told'[s] = told[s]
  /\ \A s \in DOMAIN rows \ Discarded : Digested(s, rows[s], action)
  /\ \A s \in DOMAIN rows \cap Discarded :
       /\ action = "PARTIAL" /\ cache'[s] = FindProduct(s, rows[s])
       /\ told'[s] = Over(told[s], Reference(FindProduct(s, rows[s])))
  /\ action = "PARTIAL" => /\ ~partial /\ DOMAIN rows = listed \ late
            /\ \A s \in DOMAIN rows : DOMAIN rows[s] = Fields
  /\ action # "PARTIAL" => partial
  /\ partial' = TRUE /\ UNCHANGED <<listed, missed, late, budget>>

LEMMA Handled ==
  ASSUME Typed, Bounded, InSession, Informed, NEW rows, NEW action \in {"PARTIAL", "UPDATE"},
         TellsOf(rows, action)
  PROVE  /\ Cached' /\ told' \in [Symbols -> Some(Told)] /\ Informed'
         /\ DOMAIN cache' \subseteq listed
         /\ \A s \in DOMAIN rows \ Discarded : \A f \in DOMAIN rows[s] :
              action = "PARTIAL" \/ s \notin late =>
                f \in DOMAIN told'[s] /\ told'[s][f] = rows[s][f]
         /\ \A s \in DOMAIN rows \ Discarded : \A f \in Fields \ DOMAIN rows[s] :
              f \in DOMAIN told[s] => f \in DOMAIN told'[s] /\ told'[s][f] = told[s][f]
<1> USE DEF TellsOf
<1>1. /\ listed \subseteq Symbols /\ DOMAIN cache \subseteq listed /\ late \subseteq missed
      /\ \A s \in DOMAIN cache : cache[s] \in ProductSet
      /\ \A s \in Symbols : told[s] \in Some(Told)
  BY DEF Typed, InSession, Cached
<1>2. ASSUME NEW s \in DOMAIN rows \ Discarded
      PROVE  /\ cache'[s] \in ProductSet /\ told'[s] \in Some(Told)
             /\ s \notin missed => cache'[s].currency
             /\ cache'[s].dirty = {} /\ cache'[s].statistics = <<>>
             /\ Agree(cache'[s].kept, told'[s])
             /\ DOMAIN cache'[s].kept \ DOMAIN told'[s] # {} =>
                  action # "PARTIAL" /\ s \in missed /\ (partial => s \in late)
             /\ \A f \in DOMAIN rows[s] : action = "PARTIAL" \/ s \notin late =>
                  f \in DOMAIN told'[s] /\ told'[s][f] = rows[s][f]
             /\ \A f \in Fields : f \in DOMAIN told[s] /\ f \notin DOMAIN rows[s] =>
                  f \in DOMAIN told'[s] /\ told'[s][f] = told[s][f]
             /\ "currency" \in DOMAIN told'[s] /\ s \notin missed => told'[s]["currency"] = 1
  <2>1. action = "PARTIAL" => "tick" \in DOMAIN rows[s]
    BY DEF Fields
  <2>2. s \in listed \ Discarded /\ rows[s] \in Some(Fields) /\ Digested(s, rows[s], action)
    OBVIOUS
  <2>3. action = "PARTIAL" \/ partial
    OBVIOUS
  <2> QED
    BY ONLY Typed, InSession, Informed, <2>1, <2>2, <2>3, action \in {"PARTIAL", "UPDATE"}, Digestion
<1>3. ASSUME NEW s \in DOMAIN rows \cap Discarded
      PROVE  /\ cache'[s] \in ProductSet /\ told'[s] \in Some(Told)
             /\ s \in DOMAIN cache => /\ cache'[s].currency = cache[s].currency
                                     /\ Len(cache'[s].statistics) <= Len(cache[s].statistics) + 1
             /\ s \notin DOMAIN cache => cache'[s].currency /\ Len(cache'[s].statistics) <= 1
             /\ DOMAIN told'[s] = DOMAIN told[s] \cup {"tick", "currency"}
             /\ told'[s]["currency"] = IF cache'[s].currency THEN 1 ELSE 0
  <2>1. s \in Symbols \cap Discarded /\ rows[s] \in Some(Fields)
        /\ cache'[s] = FindProduct(s, rows[s])
        /\ told'[s] = Over(told[s], Reference(FindProduct(s, rows[s])))
    BY <1>1
  <2> QED
    BY ONLY Typed, Informed, <2>1, DiscardedPartial
<1>4. \A s \in DOMAIN cache' : cache'[s] \in ProductSet
  BY <1>1, <1>2, <1>3
<1>5. Cached'
  BY <1>1, <1>4 DEF Cached
<1>6. told' \in [Symbols -> Some(Told)]
  <2>1. \A s \in Symbols : told'[s] \in Some(Told)
    BY <1>1, <1>2, <1>3
  <2> QED
    BY <2>1
<1>7. Introduced'
  <2>1. \A s \in Symbols \ DOMAIN cache' : DOMAIN told'[s] = {}
    BY DEF Informed, Introduced
  <2>2. \A s \in DOMAIN cache' \ missed : cache'[s].currency
    BY <1>2, <1>3 DEF Informed, Introduced
  <2> QED
    BY <2>1, <2>2 DEF Introduced
<1>8. Cleared'
  BY <1>2 DEF Informed, Cleared
<1>9. Withheld'
  <2>1. \A s \in Discarded : DOMAIN told'[s] \subseteq {"tick", "currency"}
    BY <1>3, SymbolsAssumption DEF Informed, Withheld
  <2>2. ASSUME NEW s \in DOMAIN cache' \cap Discarded
        PROVE  Len(cache'[s].statistics) <=
                 (Budget["disconnect"] - budget["disconnect"]) + (IF partial' THEN 1 ELSE 0)
    <3>1. Budget["disconnect"] \in Nat /\ budget["disconnect"] \in Nat
          /\ budget["disconnect"] <= Budget["disconnect"]
      BY BoundsAssumption DEF Typed, Bounded, Events
    <3>2. s \in DOMAIN cache => /\ Len(cache[s].statistics) \in Nat
                              /\ Len(cache[s].statistics) <=
                                   (Budget["disconnect"] - budget["disconnect"])
                                     + (IF partial THEN 1 ELSE 0)
      <4>1. s \in DOMAIN cache => cache[s].statistics \in Seq(Values)
        BY <1>1 DEF ProductSet
      <4> QED
        BY <4>1 DEF Informed, Withheld
    <3>3. CASE s \in DOMAIN rows
      <4>1. Len(cache'[s].statistics) \in Nat
        <5>1. cache'[s].statistics \in Seq(Values)
          BY <1>4 DEF ProductSet
        <5> QED
          BY <5>1
      <4>2. ~partial
        BY <3>3
      <4> QED
        BY <1>3, <3>1, <3>2, <3>3, <4>1, <4>2
    <3>4. CASE s \notin DOMAIN rows
      BY <3>1, <3>2, <3>4
    <3> QED
      BY <3>3, <3>4
  <2> QED
    BY <2>1, <2>2 DEF Withheld
<1>10. Faithful'
  <2> SUFFICES ASSUME NEW s \in DOMAIN cache' \ Discarded
               PROVE  /\ Agree(cache'[s].kept, told'[s])
                      /\ DOMAIN cache'[s].kept \ DOMAIN told'[s] # {} =>
                           s \in missed /\ s \in late
    BY DEF Faithful, Agree
  <2>1. CASE s \in DOMAIN rows
    BY <1>2, <2>1
  <2>2. CASE s \notin DOMAIN rows
    <3>1. s \in DOMAIN cache \ Discarded /\ cache'[s] = cache[s] /\ told'[s] = told[s]
          /\ s \in listed
      BY <1>1, <2>2
    <3>2. action = "PARTIAL" => s \in late
      BY <2>2, <3>1
    <3> QED
      BY <1>1, <3>1, <3>2 DEF Informed, Faithful
  <2> QED
    BY <2>1, <2>2
<1>11. CurrencyTold'
  <2> SUFFICES ASSUME NEW s \in Symbols \ missed, "currency" \in DOMAIN told'[s]
               PROVE  told'[s]["currency"] = 1
    BY DEF CurrencyTold
  <2>1. CASE s \notin DOMAIN rows
    BY <2>1 DEF Informed, CurrencyTold
  <2>2. CASE s \in DOMAIN rows \ Discarded
    BY <1>2, <2>2
  <2>3. CASE s \in DOMAIN rows \cap Discarded
    BY <1>3, <1>7, <2>3 DEF Introduced
  <2> QED
    BY <2>1, <2>2, <2>3
<1>12. Informed'
  BY <1>7, <1>8, <1>9, <1>10, <1>11 DEF Informed
<1> QED
  BY <1>1, <1>2, <1>5, <1>6, <1>12

LEMMA PartialKeeps ==
  ASSUME Inv, OnInstrumentPartial
  PROVE  Inv'
<1> USE DEF Inv
<1> DEFINE rows == Head(inbox).rows
           found == [s \in DOMAIN rows |-> FindProduct(s, rows[s])]
           kept == [s \in DOMAIN rows |-> IF s \in Discarded THEN found[s] ELSE Clear(found[s])]
           news == [s \in DOMAIN rows |->
                      IF s \in Discarded THEN Reference(found[s])
                      ELSE Over(Reference(found[s]), News(found[s]))]
<1>1. /\ inbox # <<>> /\ inbox' = Tail(inbox) /\ Head(inbox) = inbox[1] /\ 1 \in DOMAIN inbox
      /\ IsPartial(inbox[1]) /\ ~partial /\ partial' = TRUE
  BY Reads DEF OnInstrumentPartial, Receive, IsPartial
<1>2. /\ cache' = Over(cache, kept)
      /\ told' = [s \in Symbols |-> IF s \in DOMAIN news THEN Over(told[s], news[s]) ELSE told[s]]
  BY DEF OnInstrumentPartial, Put, Tell
<1>3. UNCHANGED <<stream, listed, market, missed, late, budget>>
  BY DEF OnInstrumentPartial, exchange
<1>4. /\ stream = "on" /\ DOMAIN rows = listed \ late
      /\ \A s \in DOMAIN rows : DOMAIN rows[s] = Fields /\ rows[s] \in Some(Fields)
  <2>1. TrueOf(inbox[1])
    BY <1>1 DEF InSession
  <2>2. \A s \in DOMAIN rows : rows[s] \in Some(Fields)
    BY <1>1, MessageIs DEF IsPartial
  <2> QED
    BY <1>1, <2>1, <2>2 DEF TrueOf
<1> HIDE DEF rows
<1>5. /\ DOMAIN cache' = DOMAIN cache \cup DOMAIN rows
      /\ \A s \in DOMAIN cache \ DOMAIN rows : cache'[s] = cache[s]
      /\ \A s \in DOMAIN rows : cache'[s] = IF s \in Discarded THEN FindProduct(s, rows[s])
                                          ELSE Clear(FindProduct(s, rows[s]))
  BY <1>2 DEF Over
<1>6. /\ DOMAIN told' = Symbols /\ told' = [s \in Symbols |-> told'[s]]
      /\ \A s \in Symbols \ DOMAIN rows : told'[s] = told[s]
  BY <1>2
<1>7. \A s \in DOMAIN rows \ Discarded : Digested(s, rows[s], "PARTIAL")
  <2> SUFFICES ASSUME NEW s \in DOMAIN rows \ Discarded
               PROVE  Digested(s, rows[s], "PARTIAL")
    OBVIOUS
  <2>1. s \in Symbols
    BY <1>4 DEF Typed
  <2>2. told'[s] = Over(told[s], news[s])
    BY <1>2, <2>1
  <2>3. news[s] = Over(Reference(FindProduct(s, rows[s])), News(FindProduct(s, rows[s])))
    OBVIOUS
  <2> QED
    BY <1>5, <2>2, <2>3 DEF Digested, Said
<1>8. \A s \in DOMAIN rows \cap Discarded :
        /\ cache'[s] = FindProduct(s, rows[s])
        /\ told'[s] = Over(told[s], Reference(FindProduct(s, rows[s])))
  <2>1. \A s \in DOMAIN rows \cap Discarded : s \in Symbols
    BY SymbolsAssumption
  <2> QED
    BY <1>2, <1>5, <2>1
<1> HIDE DEF found, kept, news
<1>9. /\ Cached' /\ told' \in [Symbols -> Some(Told)] /\ Informed'
      /\ DOMAIN cache' \subseteq listed
      /\ \A s \in DOMAIN rows \ Discarded : \A f \in DOMAIN rows[s] :
           f \in DOMAIN told'[s] /\ told'[s][f] = rows[s][f]
  <2>1. TellsOf(rows, "PARTIAL")
    BY <1>1, <1>3, <1>4, <1>5, <1>6, <1>7, <1>8 DEF TellsOf
  <2> QED
    BY <2>1, Handled
<1>10. Typed'
  BY <1>1, <1>3, <1>9, Reads DEF Typed
<1>11. Bounded'
  BY <1>3 DEF Bounded
<1>12. InSession'
  BY <1>1, <1>3, <1>4, <1>5, <1>9, ReadSession
<1>13. Following'
  <2> SUFFICES ASSUME NEW s \in listed, NEW f \in Fields
               PROVE  /\ \A i \in DOMAIN inbox' : Last(i, s, f)' =>
                           inbox'[i].rows[s][f] = market[s][f]
                      /\ s \notin Discarded \cup late
                         /\ (\A i \in DOMAIN inbox' : ~Carries(inbox'[i], s, f))
                         => f \in DOMAIN told'[s] /\ told'[s][f] = market[s][f]
    BY <1>1, <1>3 DEF Following, Knows, Carries
  <2>1. /\ \A i \in DOMAIN inbox' : Last(i, s, f)' => inbox'[i].rows[s][f] = market[s][f]
        /\ (\A i \in DOMAIN inbox' : ~Carries(inbox'[i], s, f)) =>
             \/ Carries(inbox[1], s, f) /\ inbox[1].rows[s][f] = market[s][f]
             \/ \A i \in DOMAIN inbox : ~Carries(inbox[i], s, f)
    BY <1>1, <1>3, ReadLast
  <2>2. ASSUME s \notin Discarded \cup late
        PROVE  Carries(inbox[1], s, f) /\ f \in DOMAIN told'[s] /\ told'[s][f] = rows[s][f]
    BY <1>1, <1>4, <1>9, <2>2 DEF Carries, IsPartial, rows
  <2> QED
    BY <1>1, <2>1, <2>2 DEF rows
<1> QED
  BY <1>9, <1>10, <1>11, <1>12, <1>13

LEMMA UpdateKeeps ==
  ASSUME Inv, OnInstrumentUpdate
  PROVE  Inv'
<1> USE DEF Inv
<1> DEFINE rows == KeptRows(Head(inbox).rows)
           found == [s \in DOMAIN rows |-> Update(FindProduct(s, rows[s]), rows[s])]
           kept == [s \in DOMAIN rows |-> Clear(found[s])]
           news == [s \in DOMAIN rows |->
                      IF "tick" \in found[s].dirty
                      THEN Over(Reference(found[s]), News(found[s])) ELSE News(found[s])]
<1>1. /\ inbox # <<>> /\ inbox' = Tail(inbox) /\ Head(inbox) = inbox[1] /\ 1 \in DOMAIN inbox
      /\ inbox[1].table = "instrument" /\ inbox[1].action = "UPDATE"
      /\ ~IsPartial(inbox[1]) /\ partial /\ partial' = partial
  BY Reads DEF OnInstrumentUpdate, Receive, IsPartial
<1>2. /\ cache' = Over(cache, kept)
      /\ told' = [s \in Symbols |-> IF s \in DOMAIN news THEN Over(told[s], news[s]) ELSE told[s]]
  BY DEF OnInstrumentUpdate, Put, Tell
<1>3. UNCHANGED <<stream, listed, market, missed, late, budget>>
  BY DEF OnInstrumentUpdate, exchange
<1>4. /\ DOMAIN rows = DOMAIN inbox[1].rows \ Discarded /\ DOMAIN rows \subseteq listed
      /\ \A s \in DOMAIN rows : rows[s] = inbox[1].rows[s] /\ rows[s] \in Some(Fields)
  <2>1. TrueOf(inbox[1])
    BY <1>1 DEF InSession
  <2>2. \A s \in DOMAIN inbox[1].rows : inbox[1].rows[s] \in Some(Fields)
    BY <1>1, MessageIs
  <2> QED
    BY <1>1, <2>1, <2>2 DEF TrueOf, KeptRows
<1> HIDE DEF rows
<1>5. \A s \in DOMAIN rows : s \in Symbols /\ found[s] = FindProduct(s, rows[s])
  <2> SUFFICES ASSUME NEW s \in DOMAIN rows
               PROVE  s \in Symbols
                      /\ Update(FindProduct(s, rows[s]), rows[s]) = FindProduct(s, rows[s])
    OBVIOUS
  <2>1. s \in Symbols /\ rows[s] \in Some(Fields) /\ Cached
    BY <1>4 DEF Typed
  <2>2. /\ Before(s, rows[s]) \in ProductSet
        /\ FindProduct(s, rows[s]) = Update(Before(s, rows[s]), rows[s])
    BY <2>1, Found
  <2> QED
    BY <2>1, <2>2, UpdatedTwice
<1>6. /\ DOMAIN cache' = DOMAIN cache \cup DOMAIN rows
      /\ \A s \in DOMAIN cache \ DOMAIN rows : cache'[s] = cache[s]
      /\ \A s \in DOMAIN rows : cache'[s] = Clear(found[s])
  BY <1>2 DEF Over
<1>7. /\ DOMAIN told' = Symbols /\ told' = [s \in Symbols |-> told'[s]]
      /\ \A s \in Symbols \ DOMAIN rows : told'[s] = told[s]
  BY <1>2
<1>8. \A s \in DOMAIN rows \ Discarded : Digested(s, rows[s], "UPDATE")
  <2> SUFFICES ASSUME NEW s \in DOMAIN rows
               PROVE  Digested(s, rows[s], "UPDATE")
    OBVIOUS
  <2>1. told'[s] = Over(told[s], news[s])
    BY <1>2, <1>5
  <2>2. news[s] = Said(found[s], "UPDATE")
    BY DEF Said
  <2> HIDE DEF news, found
  <2> QED
    BY <1>5, <1>6, <2>1, <2>2 DEF Digested
<1> HIDE DEF found, kept, news
<1>9. /\ Cached' /\ told' \in [Symbols -> Some(Told)] /\ Informed'
      /\ DOMAIN cache' \subseteq listed
      /\ \A s \in DOMAIN rows \ Discarded : \A f \in DOMAIN rows[s] :
           s \notin late => f \in DOMAIN told'[s] /\ told'[s][f] = rows[s][f]
      /\ \A s \in DOMAIN rows \ Discarded : \A f \in Fields \ DOMAIN rows[s] :
           f \in DOMAIN told[s] => f \in DOMAIN told'[s] /\ told'[s][f] = told[s][f]
  <2>1. DOMAIN rows \cap Discarded = {}
    BY <1>4
  <2>2. TellsOf(rows, "UPDATE")
    BY <1>1, <1>3, <1>4, <1>6, <1>7, <1>8, <2>1 DEF TellsOf
  <2> QED
    BY <2>2, Handled
<1>10. Typed'
  BY <1>1, <1>3, <1>9, Reads DEF Typed
<1>11. Bounded'
  BY <1>3 DEF Bounded
<1>12. InSession'
  BY <1>1, <1>3, <1>6, <1>9, ReadSession
<1>13. Following'
  <2> SUFFICES ASSUME NEW s \in listed, NEW f \in Fields
               PROVE  /\ \A i \in DOMAIN inbox' : Last(i, s, f)' =>
                           inbox'[i].rows[s][f] = market[s][f]
                      /\ s \notin Discarded \cup late
                         /\ (\A i \in DOMAIN inbox' : ~Carries(inbox'[i], s, f))
                         => f \in DOMAIN told'[s] /\ told'[s][f] = market[s][f]
    BY <1>1, <1>3 DEF Following, Knows, Carries
  <2>1. /\ \A i \in DOMAIN inbox' : Last(i, s, f)' => inbox'[i].rows[s][f] = market[s][f]
        /\ (\A i \in DOMAIN inbox' : ~Carries(inbox'[i], s, f)) =>
             \/ Carries(inbox[1], s, f) /\ inbox[1].rows[s][f] = market[s][f]
             \/ \A i \in DOMAIN inbox : ~Carries(inbox[i], s, f)
    BY <1>1, <1>3, ReadLast
  <2>2. ASSUME s \notin Discarded \cup late, Carries(inbox[1], s, f),
               inbox[1].rows[s][f] = market[s][f]
        PROVE  f \in DOMAIN told'[s] /\ told'[s][f] = market[s][f]
    BY <1>4, <1>9, <2>2 DEF Carries
  <2>3. ASSUME s \notin Discarded \cup late, \A i \in DOMAIN inbox : ~Carries(inbox[i], s, f)
        PROVE  f \in DOMAIN told'[s] /\ told'[s][f] = market[s][f]
    <3>1. f \in DOMAIN told[s] /\ told[s][f] = market[s][f]
      BY <1>1, <2>3 DEF Following, Knows
    <3>2. ~Carries(inbox[1], s, f)
      BY <1>1, <2>3
    <3>3. CASE s \in DOMAIN rows
      <4>1. f \notin DOMAIN rows[s]
        BY <1>1, <1>4, <3>2, <3>3 DEF Carries
      <4> QED
        BY <1>4, <1>9, <3>1, <3>3, <4>1
    <3>4. CASE s \notin DOMAIN rows
      <4>1. s \in Symbols
        BY DEF Typed
      <4> QED
        BY <1>7, <3>1, <3>4, <4>1
    <3> QED
      BY <3>3, <3>4
  <2> QED
    BY <2>1, <2>2, <2>3
<1> QED
  BY <1>9, <1>10, <1>11, <1>12, <1>13

LEMMA IgnoredKeeps ==
  ASSUME Inv, OnInstrumentIgnored
  PROVE  Inv'
<1> USE DEF Inv
<1>1. /\ inbox # <<>> /\ inbox' = Tail(inbox) /\ Head(inbox) = inbox[1] /\ 1 \in DOMAIN inbox
      /\ inbox[1].table = "instrument"
      /\ inbox[1].action = "INSERT" \/ (inbox[1].action = "UPDATE" /\ ~partial)
      /\ ~IsPartial(inbox[1])
  BY Reads DEF OnInstrumentIgnored, Receive, IsPartial
<1>2. UNCHANGED <<partial, cache, told, stream, listed, market, missed, late, budget>>
  BY DEF OnInstrumentIgnored, products, exchange
<1>3. Typed' /\ Bounded' /\ Informed'
  <2>1. Typed'
    BY <1>1, <1>2, Reads DEF Typed, Cached
  <2>2. Bounded'
    BY <1>2 DEF Bounded
  <2>3. Informed'
    BY <1>2 DEF Informed, Introduced, Cleared, Withheld, Faithful, CurrencyTold
  <2> QED
    BY <2>1, <2>2, <2>3
<1>4. InSession'
  <2>1. DOMAIN cache \subseteq listed
    BY DEF InSession
  <2> QED
    BY <1>1, <1>2, <2>1, ReadSession
<1>5. Following'
  <2> SUFFICES ASSUME NEW s \in listed, NEW f \in Fields
               PROVE  /\ \A i \in DOMAIN inbox' : Last(i, s, f)' =>
                           inbox'[i].rows[s][f] = market[s][f]
                      /\ partial /\ s \notin Discarded \cup late
                         /\ (\A i \in DOMAIN inbox' : ~Carries(inbox'[i], s, f))
                         => Knows(s, f)
    BY <1>2 DEF Following, Knows, Carries
  <2>1. /\ \A i \in DOMAIN inbox' : Last(i, s, f)' => inbox'[i].rows[s][f] = market[s][f]
        /\ (\A i \in DOMAIN inbox' : ~Carries(inbox'[i], s, f)) =>
             \/ Carries(inbox[1], s, f) /\ inbox[1].rows[s][f] = market[s][f]
             \/ \A i \in DOMAIN inbox : ~Carries(inbox[i], s, f)
    BY <1>1, <1>2, ReadLast
  <2>2. partial => ~Carries(inbox[1], s, f)
    BY <1>1 DEF Carries
  <2> QED
    BY <2>1, <2>2 DEF Following
<1> QED
  BY <1>3, <1>4, <1>5

(* What funding creates is of a symbol that has a product, or was listed   *)
(* too late for the PARTIAL.                                               *)
LEMMA FundingKeeps ==
  ASSUME Inv, OnFunding
  PROVE  Inv'
<1> USE DEF Inv
<1> DEFINE symbol == Head(inbox).symbol
           created == Only(symbol, FromFunding)
<1>1. /\ inbox # <<>> /\ inbox' = Tail(inbox) /\ Head(inbox) = inbox[1] /\ 1 \in DOMAIN inbox
      /\ inbox[1].table = "funding" /\ ~IsPartial(inbox[1])
      /\ cache' = Over(created, cache)
  BY Reads DEF OnFunding, Receive, IsPartial
<1>2. UNCHANGED <<partial, told, stream, listed, market, missed, late, budget>>
  BY DEF OnFunding, exchange
<1>3. /\ symbol \in listed /\ symbol \in Symbols /\ partial
      /\ symbol \notin DOMAIN cache => symbol \in late /\ symbol \in missed
  BY <1>1 DEF InSession, TrueOf, Typed
<1> HIDE DEF symbol
<1>4. /\ DOMAIN cache' = DOMAIN cache \cup {symbol}
      /\ \A s \in DOMAIN cache : cache'[s] = cache[s]
      /\ symbol \notin DOMAIN cache => cache'[symbol] = FromFunding
  BY <1>1 DEF Over, Only
<1>5. Typed'
  <2>1. Cached'
    BY <1>3, <1>4, New DEF Typed, Cached
  <2> QED
    BY <1>1, <1>2, <2>1, Reads DEF Typed
<1>6. Bounded'
  BY <1>2 DEF Bounded
<1>7. InSession'
  <2>1. DOMAIN cache \subseteq DOMAIN cache' /\ DOMAIN cache' \subseteq listed
    BY <1>3, <1>4 DEF InSession
  <2> QED
    BY <1>1, <1>2, <2>1, ReadSession
<1>8. Introduced'
  BY <1>2, <1>3, <1>4 DEF Informed, Introduced
<1>9. Cleared'
  BY <1>4, New DEF Informed, Cleared
<1>10. Withheld'
  <2>1. \A s \in Discarded : DOMAIN told'[s] \subseteq {"tick", "currency"}
    BY <1>2 DEF Informed, Withheld
  <2>2. ASSUME NEW s \in DOMAIN cache' \cap Discarded
        PROVE  Len(cache'[s].statistics) <=
                 (Budget["disconnect"] - budget["disconnect"]) + (IF partial THEN 1 ELSE 0)
    <3>1. CASE s \in DOMAIN cache
      BY <1>4, <3>1 DEF Informed, Withheld
    <3>2. CASE s \notin DOMAIN cache
      <4>1. cache'[s].statistics = <<>>
        BY <1>4, <3>2, New
      <4>2. Len(<<>>) = 0
        OBVIOUS
      <4>3. Budget["disconnect"] \in Nat /\ budget["disconnect"] \in Nat
            /\ budget["disconnect"] <= Budget["disconnect"]
        BY BoundsAssumption DEF Typed, Bounded, Events
      <4> QED
        BY <1>3, <4>1, <4>2, <4>3
    <3> QED
      BY <3>1, <3>2
  <2> QED
    BY <1>2, <2>1, <2>2 DEF Withheld
<1>11. Faithful'
  <2> SUFFICES ASSUME NEW s \in DOMAIN cache' \ Discarded
               PROVE  /\ Agree(cache'[s].kept, told[s])
                      /\ DOMAIN cache'[s].kept \ DOMAIN told[s] # {} =>
                           s \in missed /\ (partial => s \in late)
    BY <1>2 DEF Faithful, Agree
  <2>1. CASE s \in DOMAIN cache
    BY <1>4, <2>1 DEF Informed, Faithful
  <2>2. CASE s \notin DOMAIN cache
    <3>1. DOMAIN cache'[s].kept = {} /\ DOMAIN told[s] = {}
      BY <1>3, <1>4, <2>2, New DEF Informed, Introduced
    <3> QED
      BY <3>1 DEF Agree
  <2> QED
    BY <2>1, <2>2
<1>12. Informed'
  <2>1. CurrencyTold'
    BY <1>2 DEF Informed, CurrencyTold
  <2> QED
    BY <1>8, <1>9, <1>10, <1>11, <2>1 DEF Informed
<1>13. Following'
  <2> SUFFICES ASSUME NEW s \in listed, NEW f \in Fields
               PROVE  /\ \A i \in DOMAIN inbox' : Last(i, s, f)' =>
                           inbox'[i].rows[s][f] = market[s][f]
                      /\ partial /\ s \notin Discarded \cup late
                         /\ (\A i \in DOMAIN inbox' : ~Carries(inbox'[i], s, f))
                         => Knows(s, f)
    BY <1>2 DEF Following, Knows, Carries
  <2>1. /\ \A i \in DOMAIN inbox' : Last(i, s, f)' => inbox'[i].rows[s][f] = market[s][f]
        /\ (\A i \in DOMAIN inbox' : ~Carries(inbox'[i], s, f)) =>
             \/ Carries(inbox[1], s, f) /\ inbox[1].rows[s][f] = market[s][f]
             \/ \A i \in DOMAIN inbox : ~Carries(inbox[i], s, f)
    BY <1>1, <1>2, ReadLast
  <2>2. ~Carries(inbox[1], s, f)
    BY <1>1 DEF Carries
  <2> QED
    BY <2>1, <2>2 DEF Following
<1> QED
  BY <1>5, <1>6, <1>7, <1>12, <1>13

-------------------------------------------------------------------------------
(* The exchange and the connection.                                        *)

(* A step that leaves the products alone, and spends nothing on losing the *)
(* connection.                                                             *)
LEMMA InformedStill ==
  ASSUME Typed, Informed, UNCHANGED products, missed \subseteq missed', late \subseteq late',
         budget'["disconnect"] = budget["disconnect"]
  PROVE  Cached' /\ told' \in [Symbols -> Some(Told)] /\ partial' \in BOOLEAN /\ Informed'
<1> USE DEF products
<1>1. Cached' /\ told' \in [Symbols -> Some(Told)] /\ partial' \in BOOLEAN
  BY DEF Typed, Cached
<1>2. Introduced' /\ Cleared' /\ Faithful' /\ CurrencyTold'
  BY DEF Informed, Introduced, Cleared, Faithful, CurrencyTold
<1>3. Withheld'
  BY DEF Informed, Withheld
<1> QED
  BY <1>1, <1>2, <1>3 DEF Informed

LEMMA TradeKeeps ==
  ASSUME Inv, OnTrade
  PROVE  Inv'
<1> USE DEF Inv
<1>1. /\ UNCHANGED <<products, stream, listed, market, missed, late, inbox>>
      /\ budget' = [budget EXCEPT !["trade"] = @ - 1] /\ budget["trade"] > 0
  BY DEF OnTrade, exchange
<1>2. budget' \in [Events -> Nat] /\ budget'["disconnect"] = budget["disconnect"]
      /\ budget'["change"] = budget["change"]
  BY <1>1 DEF Typed, Events
<1>3. Cached' /\ told' \in [Symbols -> Some(Told)] /\ partial' \in BOOLEAN /\ Informed'
  BY <1>1, <1>2, InformedStill
<1>4. Typed' /\ Bounded'
  BY <1>1, <1>2, <1>3 DEF Typed, Bounded
<1>5. InSession'
  BY <1>1 DEF InSession, TrueOf, IsPartial, products
<1>6. Following'
  BY <1>1 DEF Following, Last, Carries, Knows, products
<1> QED
  BY <1>3, <1>4, <1>5, <1>6

LEMMA ConnectKeeps ==
  ASSUME Inv, Connect
  PROVE  Inv'
<1> USE DEF Inv
<1>1. /\ UNCHANGED <<products, listed, market, missed, late, inbox, budget>>
      /\ stream = "off" /\ stream' = "pending"
  BY DEF Connect
<1>2. Cached' /\ told' \in [Symbols -> Some(Told)] /\ partial' \in BOOLEAN /\ Informed'
  BY <1>1, InformedStill
<1>3. Typed' /\ Bounded'
  BY <1>1, <1>2 DEF Typed, Bounded
<1>4. InSession'
  BY <1>1 DEF InSession, TrueOf, IsPartial, products
<1>5. Following'
  BY <1>1 DEF Following, Last, Carries, Knows, products
<1> QED
  BY <1>2, <1>3, <1>4, <1>5

(* Products survive the session.                                           *)
LEMMA DisconnectKeeps ==
  ASSUME Inv, Disconnect
  PROVE  Inv'
<1> USE DEF Inv
<1>1. /\ UNCHANGED <<cache, told, listed, market, missed, late>>
      /\ stream' = "off" /\ inbox' = <<>> /\ partial' = FALSE
      /\ budget' = [budget EXCEPT !["disconnect"] = @ - 1] /\ budget["disconnect"] > 0
  BY DEF Disconnect
<1>2. /\ budget' \in [Events -> Nat] /\ budget["disconnect"] \in Nat
      /\ budget'["disconnect"] = budget["disconnect"] - 1
      /\ budget'["change"] = budget["change"]
      /\ Budget["disconnect"] \in Nat /\ budget["disconnect"] <= Budget["disconnect"]
  BY <1>1, BoundsAssumption DEF Typed, Events, Bounded
<1>3. <<>> \in Seq(MessageSet) /\ DOMAIN <<>> = {}
  OBVIOUS
<1>4. Typed'
  BY <1>1, <1>2, <1>3 DEF Typed, Cached
<1>5. Bounded'
  BY <1>1, <1>2 DEF Bounded
<1>6. InSession'
  BY <1>1, <1>3 DEF InSession
<1>7. Introduced' /\ Cleared' /\ Faithful' /\ CurrencyTold'
  BY <1>1 DEF Informed, Introduced, Cleared, Faithful, CurrencyTold
<1>8. Withheld'
  <2>1. \A s \in Discarded : DOMAIN told'[s] \subseteq {"tick", "currency"}
    BY <1>1 DEF Informed, Withheld
  <2>2. ASSUME NEW s \in DOMAIN cache \cap Discarded
        PROVE  Len(cache[s].statistics) <= (Budget["disconnect"] - budget'["disconnect"]) + 0
    <3>1. Len(cache[s].statistics) \in Nat
      <4>1. cache[s].statistics \in Seq(Values)
        BY DEF Typed, Cached, ProductSet
      <4> QED
        BY <4>1
    <3>2. Len(cache[s].statistics) <=
            (Budget["disconnect"] - budget["disconnect"]) + (IF partial THEN 1 ELSE 0)
      BY DEF Informed, Withheld
    <3> QED
      BY <1>2, <3>1, <3>2
  <2> QED
    BY <1>1, <2>1, <2>2 DEF Withheld
<1>9. Informed'
  BY <1>7, <1>8 DEF Informed
<1>10. Following'
  BY <1>1, <1>3 DEF Following
<1> QED
  BY <1>4, <1>5, <1>6, <1>9, <1>10

LEMMA RowsAre ==
  ASSUME NEW D \in SUBSET Symbols, NEW rows, rows = [s \in D |-> rows[s]],
         \A s \in D : rows[s] \in Some(Fields), NEW action \in {"PARTIAL", "UPDATE", "INSERT"}
  PROVE  [table |-> "instrument", action |-> action, rows |-> rows] \in MessageSet
<1>1. rows \in RowsSet
  BY DEF RowsSet
<1> QED
  BY <1>1 DEF MessageSet

LEMMA MarketRow ==
  ASSUME Typed, NEW s \in Symbols
  PROVE  market[s] \in Some(Fields) /\ DOMAIN market[s] = Fields
<1>1. Fields \in SUBSET Fields /\ market[s] \in [Fields -> Values]
  BY DEF Typed
<1> QED
  BY <1>1, SomeIs

(* The PARTIAL is the market, and the session is told of it once.          *)
LEMMA SendPartialKeeps ==
  ASSUME Inv, SendPartial
  PROVE  Inv'
<1> USE DEF Inv
<1> DEFINE rows == [s \in listed |-> market[s]]
           m == [table |-> "instrument", action |-> "PARTIAL", rows |-> rows]
<1>1. /\ UNCHANGED <<products, listed, market, missed, budget>>
      /\ UNCHANGED <<partial, cache, told>>
      /\ stream = "pending" /\ stream' = "on" /\ late' = {} /\ inbox' = Append(inbox, m)
  BY DEF SendPartial, Send, Streams, products
<1>2. listed \subseteq Symbols /\ late' \subseteq listed /\ ~partial
      /\ \A s \in listed : rows[s] \in Some(Fields) /\ DOMAIN rows[s] = Fields
  BY <1>1, MarketRow DEF Typed, InSession
<1>3. m \in MessageSet
  BY <1>2, RowsAre
<1>4. DOMAIN m.rows = listed /\ IsPartial(m) /\ m.table = "instrument" /\ m.action = "PARTIAL"
      /\ \A s \in listed : m.rows[s] = market[s]
  BY DEF IsPartial
<1> HIDE DEF m, rows
<1>5. Cached' /\ told' \in [Symbols -> Some(Told)] /\ partial' \in BOOLEAN
  BY <1>1 DEF Typed, Cached
<1>6. Informed'
  <2>1. Introduced' /\ Cleared' /\ CurrencyTold' /\ Withheld'
    BY <1>1 DEF Informed, Introduced, Cleared, Withheld, CurrencyTold
  <2>2. Faithful'
    BY <1>1, <1>2 DEF Informed, Faithful
  <2> QED
    BY <2>1, <2>2 DEF Informed
<1>7. Typed' /\ Bounded'
  <2>1. inbox' \in Seq(MessageSet)
    BY <1>1, <1>3, Gets
  <2> QED
    BY <1>1, <1>5, <2>1 DEF Typed, Bounded
<1>8. InSession'
  <2>1. WillBeTrue(m)
    BY <1>1, <1>2, <1>4 DEF WillBeTrue, IsPartial, rows
  <2> QED
    BY <1>1, <1>2, <1>3, <1>4, <2>1, GetSession
<1>9. Following'
  <2> SUFFICES ASSUME NEW s \in listed, NEW f \in Fields
               PROVE  /\ \A i \in DOMAIN inbox' : Last(i, s, f)' =>
                           inbox'[i].rows[s][f] = market'[s][f]
                      /\ ~partial'
    BY <1>1 DEF Following, Knows, Carries
  <2>1. m.rows[s][f] = market'[s][f] /\ Carries(m, s, f)
    BY <1>1, <1>2, <1>4 DEF Carries, rows
  <2>2. s \in Symbols
    BY <1>2
  <2> QED
    BY <1>1, <1>2, <1>3, <2>1, <2>2, GetLast
<1> QED
  BY <1>6, <1>7, <1>8, <1>9

(* A change is on its way when a session is there, and the next PARTIAL    *)
(* has it when not.                                                        *)
LEMMA ChangeKeeps ==
  ASSUME Inv, NEW x \in Symbols, NEW g \in Fields, Change(x, g)
  PROVE  Inv'
<1> USE DEF Inv
<1> DEFINE v == market'[x][g]
           m == [table |-> "instrument", action |-> "UPDATE", rows |-> Only(x, Only(g, v))]
<1>1. /\ UNCHANGED <<products, stream, listed, missed, late>>
      /\ UNCHANGED <<partial, cache, told>>
      /\ x \in listed /\ market' = [market EXCEPT ![x][g] = @ + 1]
      /\ budget' = [budget EXCEPT !["change"] = @ - 1] /\ budget["change"] > 0
      /\ inbox' = IF stream # "off" THEN Append(inbox, m) ELSE inbox
  BY DEF Change, Send, Streams, products
<1>2. /\ budget' \in [Events -> Nat] /\ budget'["disconnect"] = budget["disconnect"]
      /\ budget["change"] \in Nat /\ budget'["change"] = budget["change"] - 1
      /\ Budget["change"] \in Nat
  BY <1>1, BoundsAssumption DEF Typed, Events
<1>3. /\ market[x] \in [Fields -> Values] /\ market[x][g] \in Values
      /\ market[x][g] + 1 \in Values
  <2>1. market[x] \in [Fields -> Values] /\ market[x][g] \in Values
    BY DEF Typed
  <2>2. market[x][g] + budget["change"] <= Budget["change"] + 1
    BY DEF Bounded
  <2> QED
    BY <1>1, <1>2, <2>1, <2>2 DEF Values
<1>4. /\ market' \in [Symbols -> [Fields -> Values]] /\ v = market[x][g] + 1 /\ v \in Values
      /\ \A s \in Symbols : \A f \in Fields :
           s # x \/ f # g => market'[s][f] = market[s][f]
  <2>1. market \in [Symbols -> [Fields -> Values]]
    BY DEF Typed
  <2>2. market' = [market EXCEPT ![x] = [market[x] EXCEPT ![g] = market[x][g] + 1]]
    BY <1>1
  <2>3. [market[x] EXCEPT ![g] = market[x][g] + 1] \in [Fields -> Values]
    BY <1>3
  <2> QED
    BY <1>3, <2>1, <2>2, <2>3
<1> HIDE DEF v
<1>5. Cached' /\ told' \in [Symbols -> Some(Told)] /\ partial' \in BOOLEAN /\ Informed'
  BY <1>1, <1>2, InformedStill
<1>6. m \in MessageSet
  <2>1. Only(g, v) \in Some(Fields)
    BY <1>4, OnlyOne
  <2>2. /\ {x} \in SUBSET Symbols /\ Only(x, Only(g, v)) = [s \in {x} |-> Only(x, Only(g, v))[s]]
        /\ \A s \in {x} : Only(x, Only(g, v))[s] \in Some(Fields)
    <3> DEFINE row == Only(g, v)
    <3> HIDE DEF row
    <3> QED
      BY <2>1 DEF Only, row
  <2> QED
    BY <2>2, RowsAre
<1>7. /\ m.table = "instrument" /\ m.action = "UPDATE" /\ ~IsPartial(m)
      /\ DOMAIN m.rows = {x} /\ DOMAIN m.rows[x] = {g} /\ m.rows[x][g] = v
  BY DEF IsPartial, Only
<1> HIDE DEF m
<1>8. Bounded'
  <2> SUFFICES ASSUME NEW s \in Symbols, NEW f \in Fields
               PROVE  market'[s][f] + budget'["change"] <= Budget["change"] + 1
    BY <1>2 DEF Bounded
  <2>1. /\ market[s][f] + budget["change"] <= Budget["change"] + 1
        /\ market[s][f] \in Nat
    BY ValueSet DEF Bounded, Typed
  <2>2. market'[s][f] = market[s][f] \/ market'[s][f] = market[s][f] + 1
    BY <1>4 DEF v
  <2>3. CASE s = x /\ f = g
    BY <1>2, <1>4, <2>1, <2>3 DEF v
  <2>4. CASE ~(s = x /\ f = g)
    BY <1>2, <1>4, <2>1, <2>4
  <2> QED
    BY <2>3, <2>4
<1>9. CASE stream # "off"
  <2>1. inbox' = Append(inbox, m) /\ inbox' \in Seq(MessageSet)
    BY <1>1, <1>6, <1>9, Gets
  <2>2. Typed'
    BY <1>1, <1>2, <1>4, <1>5, <2>1 DEF Typed
  <2>3. InSession'
    <3>1. WillBeTrue(m)
      BY <1>1, <1>7 DEF WillBeTrue, IsPartial
    <3> QED
      BY <1>1, <1>6, <1>7, <1>9, <2>1, <3>1, GetSession DEF InSession
  <2>4. Following'
    <3> SUFFICES ASSUME NEW s \in listed, NEW f \in Fields
                 PROVE  /\ \A i \in DOMAIN inbox' : Last(i, s, f)' =>
                             inbox'[i].rows[s][f] = market'[s][f]
                        /\ partial /\ s \notin Discarded \cup late
                           /\ (\A i \in DOMAIN inbox' : ~Carries(inbox'[i], s, f))
                           => f \in DOMAIN told[s] /\ told[s][f] = market'[s][f]
      BY <1>1 DEF Following, Knows, Carries
    <3>1. s \in Symbols
      BY DEF Typed
    <3>2. Carries(m, s, f) <=> s = x /\ f = g
      BY <1>7 DEF Carries
    <3>3. Carries(m, s, f) => m.rows[s][f] = market'[s][f]
      BY <1>7, <3>2 DEF v
    <3>4. ~Carries(m, s, f) =>
             /\ market'[s][f] = market[s][f]
             /\ \A i \in DOMAIN inbox : Last(i, s, f) => inbox[i].rows[s][f] = market[s][f]
      BY <1>4, <3>1, <3>2 DEF Following
    <3>5. /\ \A i \in DOMAIN inbox' : Last(i, s, f)' => inbox'[i].rows[s][f] = market'[s][f]
          /\ (\A i \in DOMAIN inbox' : ~Carries(inbox'[i], s, f)) =>
               ~Carries(m, s, f) /\ \A i \in DOMAIN inbox : ~Carries(inbox[i], s, f)
      BY <1>6, <2>1, <3>1, <3>3, <3>4, GetLast
    <3>6. ~Carries(m, s, f) /\ (\A i \in DOMAIN inbox : ~Carries(inbox[i], s, f))
          /\ partial /\ s \notin Discarded \cup late
          => f \in DOMAIN told[s] /\ told[s][f] = market'[s][f]
      BY <3>4 DEF Following, Knows
    <3> QED
      BY <3>5, <3>6
  <2> QED
    BY <1>5, <1>8, <2>2, <2>3, <2>4
<1>10. CASE stream = "off"
  <2>1. inbox = <<>> /\ inbox' = <<>> /\ ~partial /\ DOMAIN inbox = {}
    BY <1>1, <1>10 DEF InSession
  <2>2. Typed'
    BY <1>1, <1>2, <1>4, <1>5, <2>1 DEF Typed
  <2>3. InSession'
    BY <1>1, <1>10, <2>1 DEF InSession
  <2>4. Following'
    BY <1>1, <2>1 DEF Following
  <2> QED
    BY <1>5, <1>8, <2>2, <2>3, <2>4
<1> QED
  BY <1>9, <1>10

(* A symbol listed in the middle of a session is one that session is not   *)
(* told of.                                                                *)
LEMMA ListKeeps ==
  ASSUME Inv, NEW x \in Symbols, List(x)
  PROVE  Inv'
<1> USE DEF Inv
<1> DEFINE m == [table |-> "instrument", action |-> "INSERT", rows |-> Only(x, market[x])]
<1>1. /\ UNCHANGED <<products, stream, market>>
      /\ UNCHANGED <<partial, cache, told>>
      /\ x \notin listed /\ listed' = listed \cup {x}
      /\ missed' = (IF stream = "on" THEN missed \cup {x} ELSE missed)
      /\ late' = (IF stream = "on" THEN late \cup {x} ELSE late)
      /\ budget' = [budget EXCEPT !["list"] = @ - 1] /\ budget["list"] > 0
      /\ inbox' = IF stream # "off" THEN Append(inbox, m) ELSE inbox
  BY DEF List, Send, Streams, products
<1>2. /\ budget' \in [Events -> Nat] /\ budget'["disconnect"] = budget["disconnect"]
      /\ budget'["change"] = budget["change"]
  BY <1>1 DEF Typed, Events
<1>3. /\ missed \subseteq missed' /\ late \subseteq late' /\ late' \subseteq listed'
      /\ missed' \subseteq Symbols /\ late' \subseteq missed' /\ listed' \subseteq Symbols
      /\ stream = "on" => listed' \ late' = listed \ late /\ x \in late'
  BY <1>1 DEF Typed, InSession
<1>4. Cached' /\ told' \in [Symbols -> Some(Told)] /\ partial' \in BOOLEAN /\ Informed'
  BY <1>1, <1>2, <1>3, InformedStill
<1>5. m \in MessageSet
  <2>1. market[x] \in Some(Fields)
    BY MarketRow
  <2>2. /\ {x} \in SUBSET Symbols /\ Only(x, market[x]) = [s \in {x} |-> Only(x, market[x])[s]]
        /\ \A s \in {x} : Only(x, market[x])[s] \in Some(Fields)
    BY <2>1 DEF Only
  <2> QED
    BY <2>2, RowsAre
<1>6. /\ m.table = "instrument" /\ m.action = "INSERT" /\ ~IsPartial(m) /\ DOMAIN m.rows = {x}
  BY DEF IsPartial, Only
<1> HIDE DEF m
<1>7. inbox' \in Seq(MessageSet)
  BY <1>1, <1>5, Gets DEF Typed
<1>8. Typed' /\ Bounded'
  BY <1>1, <1>2, <1>3, <1>4, <1>7 DEF Typed, Bounded
<1>9. InSession'
  <2>1. CASE stream # "off"
    <3>1. WillBeTrue(m)
      BY <1>1, <1>6 DEF WillBeTrue, IsPartial
    <3> QED
      BY <1>1, <1>3, <1>5, <1>6, <2>1, <3>1, GetSession
  <2>2. CASE stream = "off"
    BY <1>1, <1>3, <2>2 DEF InSession
  <2> QED
    BY <2>1, <2>2
<1>10. Following'
  <2> SUFFICES ASSUME NEW s \in listed', NEW f \in Fields
               PROVE  /\ \A i \in DOMAIN inbox' : Last(i, s, f)' =>
                           inbox'[i].rows[s][f] = market[s][f]
                      /\ partial /\ s \notin Discarded \cup late'
                         /\ (\A i \in DOMAIN inbox' : ~Carries(inbox'[i], s, f))
                         => Knows(s, f)
    BY <1>1 DEF Following, Knows, Carries
  <2>1. /\ \A i \in DOMAIN inbox : Last(i, s, f) => inbox[i].rows[s][f] = market[s][f]
        /\ partial /\ s \notin Discarded \cup late'
           /\ (\A i \in DOMAIN inbox : ~Carries(inbox[i], s, f)) => Knows(s, f)
    <3>1. CASE s = x
      <4>1. \A i \in DOMAIN inbox : ~Carries(inbox[i], s, f)
        BY <1>1, <3>1 DEF InSession, TrueOf, Carries
      <4>2. partial => s \in late'
        BY <1>3, <3>1 DEF InSession
      <4> QED
        BY <4>1, <4>2 DEF Last
    <3>2. CASE s # x
      BY <1>1, <1>3, <3>2 DEF Following
    <3> QED
      BY <3>1, <3>2
  <2>2. CASE stream # "off"
    <3>1. ~Carries(m, s, f) /\ s \in Symbols
      BY <1>3, <1>6 DEF Carries
    <3>2. /\ \A i \in DOMAIN inbox' : Last(i, s, f)' => inbox'[i].rows[s][f] = market'[s][f]
          /\ (\A i \in DOMAIN inbox' : ~Carries(inbox'[i], s, f)) =>
               \A i \in DOMAIN inbox : ~Carries(inbox[i], s, f)
      BY <1>1, <1>5, <2>1, <2>2, <3>1, GetLast
    <3> QED
      BY <1>1, <2>1, <3>2
  <2>3. CASE stream = "off"
    <3>1. inbox' = inbox
      BY <1>1, <2>3
    <3> QED
      BY <2>1, <3>1 DEF Last, Carries
  <2> QED
    BY <2>2, <2>3
<1> QED
  BY <1>4, <1>8, <1>9, <1>10

LEMMA AskFundingKeeps ==
  ASSUME Inv, NEW x \in Symbols, Funding(x)
  PROVE  Inv'
<1> USE DEF Inv
<1> DEFINE m == [table |-> "funding", symbol |-> x]
<1>1. /\ UNCHANGED <<products, stream, listed, market, missed, late, budget>>
      /\ UNCHANGED <<partial, cache, told>>
      /\ partial /\ x \in listed /\ inbox' = Append(inbox, m)
  BY DEF Funding, AskedForOthers, products, exchange
<1>2. Cached' /\ told' \in [Symbols -> Some(Told)] /\ partial' \in BOOLEAN /\ Informed'
  BY <1>1, InformedStill
<1>3. m \in MessageSet
  BY DEF MessageSet
<1>4. m.table = "funding" /\ m.symbol = x /\ ~IsPartial(m)
  BY DEF IsPartial
<1> HIDE DEF m
<1>5. Typed' /\ Bounded'
  <2>1. inbox' \in Seq(MessageSet)
    BY <1>1, <1>3, Gets
  <2> QED
    BY <1>1, <1>2, <2>1 DEF Typed, Bounded
<1>6. InSession'
  <2>1. WillBeTrue(m)
    BY <1>1, <1>4 DEF WillBeTrue, IsPartial
  <2>2. stream # "off" /\ late' \subseteq listed'
    BY <1>1 DEF InSession
  <2> QED
    BY <1>1, <1>3, <1>4, <2>1, <2>2, GetSession
<1>7. Following'
  <2> SUFFICES ASSUME NEW s \in listed, NEW f \in Fields
               PROVE  /\ \A i \in DOMAIN inbox' : Last(i, s, f)' =>
                           inbox'[i].rows[s][f] = market[s][f]
                      /\ partial /\ s \notin Discarded \cup late
                         /\ (\A i \in DOMAIN inbox' : ~Carries(inbox'[i], s, f))
                         => Knows(s, f)
    BY <1>1 DEF Following, Knows, Carries
  <2>1. ~Carries(m, s, f) /\ s \in Symbols
    BY <1>4 DEF Carries, Typed
  <2>2. \A i \in DOMAIN inbox : Last(i, s, f) => inbox[i].rows[s][f] = market[s][f]
    BY DEF Following
  <2>3. /\ \A i \in DOMAIN inbox' : Last(i, s, f)' => inbox'[i].rows[s][f] = market'[s][f]
        /\ (\A i \in DOMAIN inbox' : ~Carries(inbox'[i], s, f)) =>
             \A i \in DOMAIN inbox : ~Carries(inbox[i], s, f)
    BY <1>1, <1>3, <2>1, <2>2, GetLast
  <2> QED
    BY <1>1, <2>3 DEF Following
<1> QED
  BY <1>2, <1>5, <1>6, <1>7

-------------------------------------------------------------------------------
LEMMA InvInit == Init => Inv
<1> SUFFICES ASSUME Init PROVE Inv
  OBVIOUS
<1>1. DOMAIN <<>> = {} /\ <<>> \in Seq(MessageSet)
  OBVIOUS
<1>2. /\ partial = FALSE /\ cache = <<>> /\ told = [s \in Symbols |-> <<>>]
      /\ stream = "off" /\ inbox = <<>> /\ listed = Listed /\ missed = {} /\ late = {}
      /\ market = [s \in Symbols |-> [f \in Fields |-> 1]] /\ budget = Budget
  BY DEF Init
<1>3. Typed
  <2>1. told \in [Symbols -> Some(Told)]
    BY <1>2, NoneIsSome
  <2>2. market \in [Symbols -> [Fields -> Values]]
    BY <1>2, ValueSet
  <2> QED
    BY <1>1, <1>2, <2>1, <2>2, SymbolsAssumption, BoundsAssumption DEF Typed, Cached
<1>4. Bounded
  <2>1. Budget["change"] \in Nat /\ Budget["disconnect"] \in Nat
    BY BoundsAssumption DEF Events
  <2> QED
    BY <1>2, <2>1 DEF Bounded
<1>5. InSession
  BY <1>1, <1>2 DEF InSession
<1>6. Informed
  <2>1. \A s \in Symbols : DOMAIN told[s] = {}
    BY <1>1, <1>2
  <2> QED
    BY <1>1, <1>2, <2>1, SymbolsAssumption
    DEF Informed, Introduced, Cleared, Withheld, Faithful, CurrencyTold
<1>7. Following
  BY <1>1, <1>2 DEF Following
<1> QED
  BY <1>3, <1>4, <1>5, <1>6, <1>7 DEF Inv

LEMMA InvNext == Inv /\ [Next]_vars => Inv'
<1> SUFFICES ASSUME Inv, [Next]_vars PROVE Inv'
  OBVIOUS
<1>1. CASE UNCHANGED vars
  <2>1. UNCHANGED <<partial, cache, told, stream, inbox, listed, market, missed, late, budget>>
    BY <1>1 DEF vars, products, exchange
  <2>2. Typed' /\ Bounded'
    BY <2>1 DEF Inv, Typed, Cached, Bounded
  <2>3. InSession'
    BY <2>1 DEF Inv, InSession, TrueOf, IsPartial
  <2>4. Informed'
    BY <2>1 DEF Inv, Informed, Introduced, Cleared, Withheld, Faithful, CurrencyTold
  <2>5. Following'
    BY <2>1 DEF Inv, Following, Last, Carries, Knows
  <2> QED
    BY <2>2, <2>3, <2>4, <2>5 DEF Inv
<1>2. CASE Next
  <2>1. CASE OnInstrumentPartial
    BY <2>1, PartialKeeps
  <2>2. CASE OnInstrumentUpdate
    BY <2>2, UpdateKeeps
  <2>3. CASE OnInstrumentIgnored
    BY <2>3, IgnoredKeeps
  <2>4. CASE OnFunding
    BY <2>4, FundingKeeps
  <2>5. CASE OnTrade
    BY <2>5, TradeKeeps
  <2>6. CASE Connect
    BY <2>6, ConnectKeeps
  <2>7. CASE SendPartial
    BY <2>7, SendPartialKeeps
  <2>8. CASE Disconnect
    BY <2>8, DisconnectKeeps
  <2>9. ASSUME NEW s \in Symbols, List(s) PROVE Inv'
    BY <2>9, ListKeeps
  <2>10. ASSUME NEW s \in Symbols, Funding(s) PROVE Inv'
    BY <2>10, AskFundingKeeps
  <2>11. ASSUME NEW s \in Symbols, NEW f \in Fields, Change(s, f) PROVE Inv'
    BY <2>11, ChangeKeeps
  <2> QED
    BY <1>2, <2>1, <2>2, <2>3, <2>4, <2>5, <2>6, <2>7, <2>8, <2>9, <2>10, <2>11 DEF Next
<1> QED
  BY <1>1, <1>2

LEMMA Always == Spec => []Inv
  BY InvInit, InvNext, PTL DEF Spec

(* A product keeps values of its fields, whatever rows it took (the        *)
(* constructors and update of product.cpp), and what waits in the inbox is *)
(* a message of the tables the handlers know.                              *)
THEOREM ProductsTyped == Spec => []TypeOK
<1>1. Inv /\ Summed => TypeOK
  <2> SUFFICES ASSUME Inv, Summed PROVE TypeOK
    OBVIOUS
  <2>1. Typed
    BY DEF Inv
  <2>2. \A s \in DOMAIN cache :
          /\ cache[s].kept \in Some(Fields) /\ cache[s].currency \in BOOLEAN
          /\ cache[s].dirty \subseteq {"tick", "state"}
          /\ cache[s].statistics \in Seq(Values)
    BY <2>1 DEF Typed, Cached, ProductSet, Marks
  <2>3. \A i \in DOMAIN inbox : IsMessage(inbox[i])
    <3> SUFFICES ASSUME NEW i \in DOMAIN inbox PROVE IsMessage(inbox[i])
      OBVIOUS
    <3>1. inbox[i].table \in {"instrument", "funding"}
      BY <2>1, MessageIs DEF MessageSet
    <3> QED
      BY <2>1, <3>1, MessageIs DEF IsMessage
  <2>4. trades \in Seq(Symbols \X Times)
    BY DEF Summed, Messages
  <2> QED
    BY <2>1, <2>2, <2>3, <2>4 DEF TypeOK, Typed, Cached, Told
<1> QED
  BY <1>1, Always, AlwaysSummed, PTL

(* After every handler, what the users were told of a symbol is what its   *)
(* product keeps, for instruments and funding in any order and across      *)
(* sessions (operator() of Instrument and Funding, create_or_update).      *)
THEOREM NothingKeptBack == Spec => []ToldWhatIsKept
<1>1. Inv => ToldWhatIsKept
  BY DEF Inv, Informed, Faithful, Agree, ToldWhatIsKept
<1> QED
  BY <1>1, Always, PTL

(* When a session has its PARTIAL and everything is read, the users have   *)
(* the exchange's values, the changes made while the connection was down   *)
(* included: products outlive the session, and still nothing old remains.  *)
THEOREM ValuesKnown == Spec => []ValuesCurrent
<1>1. Inv => ValuesCurrent
  <2> SUFFICES ASSUME Inv, stream = "on", partial, inbox = <<>>,
                      NEW s \in listed \ (Discarded \cup late), NEW f \in Fields
               PROVE  f \in DOMAIN told[s] /\ told[s][f] = market[s][f]
    BY DEF ValuesCurrent
  <2>1. DOMAIN inbox = {}
    OBVIOUS
  <2> QED
    BY <2>1 DEF Inv, Following, Knows
<1> QED
  BY <1>1, Always, PTL

(* Of a discarded symbol the users learn its reference data at most, and   *)
(* its product holds back no more statistics than there were sessions (the *)
(* branch of the first PARTIAL that tests the discard list).               *)
THEOREM DiscardedWithheld == Spec => []DiscardedKept
<1>1. Inv => DiscardedKept
  <2> SUFFICES ASSUME Inv PROVE DiscardedKept
    OBVIOUS
  <2>1. Typed /\ Bounded /\ Cleared /\ Withheld
    BY DEF Inv, Informed
  <2>2. ASSUME NEW s \in DOMAIN cache
        PROVE  Len(cache[s].statistics) <=
                 IF s \in Discarded THEN Budget["disconnect"] - budget["disconnect"] + 1 ELSE 0
    <3>1. Len(cache[s].statistics) \in Nat
      <4>1. cache[s].statistics \in Seq(Values)
        BY <2>1 DEF Typed, Cached, ProductSet
      <4> QED
        BY <4>1
    <3>2. Budget["disconnect"] \in Nat /\ budget["disconnect"] \in Nat
      BY <2>1, BoundsAssumption DEF Typed, Events
    <3>3. CASE s \in Discarded
      BY <2>1, <3>1, <3>2, <3>3 DEF Withheld
    <3>4. CASE s \notin Discarded
      <4>1. cache[s].statistics = <<>>
        BY <2>1, <3>4 DEF Cleared
      <4>2. Len(<<>>) = 0
        OBVIOUS
      <4> QED
        BY <3>4, <4>1, <4>2
    <3> QED
      BY <3>3, <3>4
  <2> QED
    BY <2>1, <2>2 DEF DiscardedKept, Withheld
<1> QED
  BY <1>1, Always, PTL

(* No user is told that a symbol of the PARTIAL has no currency, although  *)
(* funding creates products that have none: it is only asked for after     *)
(* the PARTIAL (the subscriptions of market_data.cpp).                     *)
THEOREM CurrencyKnown == Spec => []CurrencyTold
<1>1. Inv => CurrencyTold
  BY DEF Inv, Informed
<1> QED
  BY <1>1, Always, PTL

===============================================================================
