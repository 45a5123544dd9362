----------------------------- MODULE ShownProofs -----------------------------
(***************************************************************************)
(* What the users of OrderEntry are shown, for any number of orders,       *)
(* connections and requests: types, and that the two channels which tell   *)
(* of an order, in whatever order they do, leave its newest status.        *)
(***************************************************************************)
EXTENDS RequestProofs, FiniteSetTheorems

-------------------------------------------------------------------------------
(* Statuses.                                                               *)

ShownStatuses == {"UNDEFINED", "WORKING", "COMPLETED", "CANCELED", "REJECTED"}
ShownSet == [status : ShownStatuses, revision : Nat]
Expected(status) == IF status = "NONE" THEN "UNDEFINED" ELSE MapOrdStatus[status]

(* Both translations agree on what an order can be in this model.          *)
LEMMA Translated ==
  ASSUME NEW status \in RowStatuses \ {"UNKNOWN"}
  PROVE  /\ MapOrdStatus[status] = Expected(status)
         /\ ComputeOrderStatus(status, status = "NEW") = Expected(status)
         /\ Expected(status) \in ShownStatuses \ {"UNDEFINED"}
<1>1. MapOrdStatus["NEW"] = "WORKING" /\ MapOrdStatus["FILLED"] = "COMPLETED"
      /\ MapOrdStatus["CANCELED"] = "CANCELED" /\ MapOrdStatus["REJECTED"] = "REJECTED"
  BY DEF MapOrdStatus, OrdStatus
<1>2. /\ ComputeOrderStatus("NEW", TRUE) = "WORKING"
      /\ ComputeOrderStatus("FILLED", FALSE) = "COMPLETED"
      /\ ComputeOrderStatus("CANCELED", FALSE) = "CANCELED"
      /\ ComputeOrderStatus("REJECTED", FALSE) = "REJECTED"
  BY <1>1 DEF ComputeOrderStatus
<1>3. status \in {"NEW", "FILLED", "CANCELED", "REJECTED"}
  BY DEF RowStatuses
<1>4. MapOrdStatus[status] = Expected(status)
      /\ Expected(status) \in ShownStatuses \ {"UNDEFINED"}
  BY <1>1, <1>3 DEF Expected, ShownStatuses
<1>5. ComputeOrderStatus(status, status = "NEW") = Expected(status)
  <2>1. CASE status = "NEW"
    BY <1>1, <1>2, <2>1 DEF Expected, ComputeOrderStatus
  <2>2. CASE status = "FILLED"
    BY <1>1, <1>2, <2>2 DEF Expected, ComputeOrderStatus
  <2>3. CASE status = "CANCELED"
    BY <1>1, <1>2, <2>3 DEF Expected, ComputeOrderStatus
  <2>4. CASE status = "REJECTED"
    BY <1>1, <1>2, <2>4 DEF Expected, ComputeOrderStatus
  <2> QED
    BY <1>3, <2>1, <2>2, <2>3, <2>4
<1> QED
  BY <1>4, <1>5

LEMMA Untranslated == ComputeOrderStatus("UNKNOWN", "UNKNOWN" = "NEW") = "UNDEFINED"
  BY DEF ComputeOrderStatus

-------------------------------------------------------------------------------
(* The invariant.                                                          *)

StreamSet == [order : Orders, status : RowStatuses \ {"UNKNOWN"}, revision : Nat]

(* Every row on its way is true, or out of date.                           *)
StreamTrue == /\ stream \in Seq(StreamSet)
              /\ \A i \in DOMAIN stream : SaysOf(stream[i], orders[stream[i].order])
RowsTrue ==
  \A c \in Ring : \A i \in DOMAIN calls[c] : \A row \in calls[c][i].response.rows :
    SaysOf(row, orders[row.order])

(* What is shown of an order is true of it, or out of date.                *)
Fresh(old, order) ==
  /\ old.revision <= order.revision
  /\ old.revision = order.revision => old.status = Expected(order.status)
Coming(o) == \E i \in DOMAIN stream : stream[i].order = o
                                      /\ stream[i].revision = orders[o].revision
ShownTrue ==
  /\ shown \in [Orders -> ShownSet]
  /\ \A o \in Orders : Fresh(shown[o], orders[o])

Showing == StreamTrue /\ RowsTrue /\ ShownTrue

(* What is out of date is missing if the row that would change that is not *)
(* on its way.                                                             *)
Missing(o) == shown[o].revision < orders[o].revision /\ ~Coming(o)
NoneMissing == \A o \in Orders : ~Missing(o)

(* A step after which no more is missing.                                  *)
MissesNothing ==
  \A o \in Orders : Missing(o)' => Missing(o) /\ orders'[o] = orders[o]

(* A step after which nothing is shown that is older.                      *)
NoneOlder == \A o \in Orders : shown'[o].revision >= shown[o].revision

LEMMA ShowingMeansNewest ==
  ASSUME OrdersType, Showing, NoneMissing
  PROVE  NewestTold
<1> SUFFICES ASSUME stream = <<>>, NEW o \in Orders
             PROVE  shown[o].status = Expected(orders[o].status)
  BY DEF NewestTold, Expected
<1>1. shown[o].revision \in Nat /\ orders[o].revision \in Nat
  <2>1. shown[o] \in ShownSet /\ orders[o] \in OrderSet
    BY DEF Showing, ShownTrue, OrdersType
  <2> QED
    BY <2>1 DEF ShownSet, OrderSet
<1>2. ~Coming(o)
  BY DEF Coming
<1>3. Fresh(shown[o], orders[o]) /\ ~(shown[o].revision < orders[o].revision)
  BY <1>2 DEF Showing, ShownTrue, NoneMissing, Missing
<1> QED
  BY <1>1, <1>3 DEF Fresh

(* A true row, shown, leaves what is true.                                 *)
LEMMA ShowTrue ==
  ASSUME NEW order \in OrderSet, NEW old \in ShownSet, Fresh(old, order),
         NEW row, row.revision \in Nat, row.status \in RowStatuses, SaysOf(row, order),
         NEW status,
         row.status = "UNKNOWN" => status = "UNDEFINED",
         row.status # "UNKNOWN" => status = Expected(row.status)
  PROVE  /\ Show(old, row, status) \in ShownSet /\ Fresh(Show(old, row, status), order)
         /\ Show(old, row, status).revision >= old.revision
         /\ row.status # "UNKNOWN" => Show(old, row, status).revision >= row.revision
<1>1. old.revision \in Nat /\ order.revision \in Nat
  BY DEF ShownSet, OrderSet
<1>2. CASE status = "UNDEFINED" \/ ~Newer(old, row)
  <2>1. Show(old, row, status) = old
    BY <1>2 DEF Show
  <2>2. row.status # "UNKNOWN" => status # "UNDEFINED"
    BY Translated
  <2> QED
    BY <1>1, <1>2, <2>1, <2>2 DEF Newer
<1>3. CASE status # "UNDEFINED" /\ Newer(old, row)
  <2>1. row.status # "UNKNOWN" /\ status = Expected(row.status)
    BY <1>3
  <2>2. Show(old, row, status) = [status |-> status, revision |-> row.revision]
    BY <1>3 DEF Show
  <2>3. status \in ShownStatuses
    BY <2>1, Translated
  <2>4. row.revision >= old.revision
    BY <1>3 DEF Newer
  <2> QED
    BY <1>1, <2>1, <2>2, <2>3, <2>4 DEF ShownSet, Fresh, SaysOf
<1> QED
  BY <1>2, <1>3

(* An order that changes makes no row untrue.                              *)
LEMMA SaysOn ==
  ASSUME OrdersType, NEW new, Stepped(new), NEW row, row.order \in Orders,
         row.revision \in Nat, SaysOf(row, orders[row.order])
  PROVE  SaysOf(row, new[row.order])
<1> DEFINE o == row.order
<1>1. orders[o].revision \in Nat
  <2>1. orders[o] \in OrderSet
    BY DEF OrdersType
  <2> QED
    BY <2>1 DEF OrderSet
<1>2. CASE new[o] = orders[o]
  BY <1>2
<1>3. CASE new[o].revision = orders[o].revision + 1
  BY <1>1, <1>3 DEF SaysOf
<1> QED
  BY <1>2, <1>3 DEF Stepped

LEMMA SaysOnWire ==
  ASSUME OrdersType, WireType, RowsTrue, NEW new, Stepped(new),
         NEW c \in Ring, NEW i \in DOMAIN calls[c], NEW row \in calls[c][i].response.rows
  PROVE  SaysOf(row, new[row.order])
<1>1. calls[c][i].response \in Responses
  BY CallType
<1>2. row \in RowSet
  BY <1>1 DEF Responses
<1>3. row.order \in Orders /\ row.revision \in Nat
  BY <1>2 DEF RowSet
<1>4. SaysOf(row, orders[row.order])
  BY DEF RowsTrue
<1> QED
  BY <1>3, <1>4, SaysOn

-------------------------------------------------------------------------------
(* The exchange.                                                           *)

LEMMA Joined ==
  ASSUME NEW S, NEW s \in Seq(S), NEW t \in Seq(S)
  PROVE  /\ s \o t \in Seq(S)
         /\ \A i \in DOMAIN s : i \in DOMAIN (s \o t) /\ (s \o t)[i] = s[i]
         /\ \A i \in DOMAIN t : /\ Len(s) + i \in DOMAIN (s \o t)
                              /\ (s \o t)[Len(s) + i] = t[i]
         /\ \A i \in DOMAIN (s \o t) :
              i \in DOMAIN s \/ \E k \in DOMAIN t : i = Len(s) + k
<1>1. /\ s \o t \in Seq(S) /\ DOMAIN (s \o t) = 1..(Len(s) + Len(t))
      /\ DOMAIN s = 1..Len(s) /\ DOMAIN t = 1..Len(t)
      /\ Len(s) \in Nat /\ Len(t) \in Nat
  OBVIOUS
<1>2. \A i \in DOMAIN s : i \in DOMAIN (s \o t) /\ (s \o t)[i] = s[i]
  OBVIOUS
<1>3. \A i \in DOMAIN t : /\ Len(s) + i \in DOMAIN (s \o t)
                        /\ (s \o t)[Len(s) + i] = t[i]
  OBVIOUS
<1>4. ASSUME NEW i \in DOMAIN (s \o t), i \notin DOMAIN s
      PROVE  \E k \in DOMAIN t : i = Len(s) + k
  <2>1. i - Len(s) \in DOMAIN t /\ i = Len(s) + (i - Len(s))
    BY <1>1, <1>4
  <2> QED
    BY <2>1
<1> QED
  BY <1>1, <1>2, <1>3, <1>4

(* Orders change, and the stream is longer by what they have become.       *)
LEMMA Reported ==
  ASSUME OrdersType, stream \in Seq(StreamSet), NEW new, Stepped(new), Report(new)
  PROVE  /\ stream' \in Seq(StreamSet)
         /\ \A i \in DOMAIN stream : i \in DOMAIN stream' /\ stream'[i] = stream[i]
         /\ \A i \in DOMAIN stream' :
              \/ i \in DOMAIN stream
              \/ /\ stream'[i].order \in Orders
                 /\ stream'[i].status = new[stream'[i].order].status
                 /\ stream'[i].revision = new[stream'[i].order].revision
         /\ \A o \in Orders : new[o] # orders[o] =>
              \E i \in DOMAIN stream' : /\ stream'[i].order = o
                                        /\ stream'[i].revision = new[o].revision
<1> DEFINE changed == {o \in Orders : new[o] # orders[o]}
           n == Cardinality(changed)
<1>1. n \in Nat
  BY TargetsAssumption, FS_Subset, FS_CardinalityType
<1>2. PICK news \in [1..n -> changed] :
        /\ {news[i] : i \in DOMAIN news} = changed
        /\ stream' = stream \o [i \in DOMAIN news |-> Row(news[i], new[news[i]].status, new)]
  BY DEF Report
<1>3. \A o \in Orders : /\ orders[o] \in OrderSet /\ new[o] \in OrderSet
                        /\ orders[o].revision \in Nat /\ new[o].revision \in Nat
                        /\ new[o].status \in Statuses
  <2>1. \A o \in Orders : orders[o] \in OrderSet /\ new[o] \in OrderSet
    BY DEF OrdersType, Stepped
  <2> QED
    BY <2>1 DEF OrderSet
<1>4. \A o \in changed : /\ o \in Orders /\ new[o].status # "NONE"
                         /\ new[o].revision = orders[o].revision + 1
  BY DEF Stepped
<1> DEFINE tail == [i \in 1..n |-> Row(news[i], new[news[i]].status, new)]
<1>5. \A i \in 1..n : /\ news[i] \in changed /\ tail[i] \in StreamSet
                      /\ tail[i].order = news[i]
                      /\ tail[i].status = new[news[i]].status
                      /\ tail[i].revision = new[news[i]].revision
  <2> SUFFICES ASSUME NEW i \in 1..n
               PROVE  /\ news[i] \in changed /\ tail[i] \in StreamSet
                      /\ tail[i].order = news[i]
                      /\ tail[i].status = new[news[i]].status
                      /\ tail[i].revision = new[news[i]].revision
    OBVIOUS
  <2>1. news[i] \in changed
    BY <1>2
  <2> HIDE DEF changed
  <2>2. tail[i] = Row(news[i], new[news[i]].status, new)
    OBVIOUS
  <2>3. new[news[i]].status \in RowStatuses \ {"UNKNOWN"}
    BY <1>3, <1>4, <2>1 DEF Statuses, RowStatuses
  <2> HIDE DEF tail
  <2> QED
    BY <1>3, <1>4, <2>1, <2>2, <2>3 DEF Row, StreamSet
<1>6. stream' = stream \o tail
  BY <1>2
<1>7. \A o \in changed : \E i \in 1..n : news[i] = o
  BY <1>2
<1> HIDE DEF changed, n
<1>8. tail \in Seq(StreamSet) /\ DOMAIN tail = 1..n /\ Len(tail) = n
  BY <1>1, <1>5
<1> HIDE DEF tail
<1>9. /\ stream' \in Seq(StreamSet)
      /\ \A i \in DOMAIN stream : i \in DOMAIN stream' /\ stream'[i] = stream[i]
      /\ \A i \in 1..n : /\ Len(stream) + i \in DOMAIN stream'
                          /\ stream'[Len(stream) + i] = tail[i]
      /\ \A i \in DOMAIN stream' :
           i \in DOMAIN stream \/ \E k \in 1..n : i = Len(stream) + k
  BY <1>6, <1>8, Joined
<1>10. ASSUME NEW i \in DOMAIN stream', i \notin DOMAIN stream
       PROVE  /\ stream'[i].order \in Orders
              /\ stream'[i].status = new[stream'[i].order].status
              /\ stream'[i].revision = new[stream'[i].order].revision
  <2>1. PICK k \in 1..n : stream'[i] = tail[k]
    BY <1>9, <1>10
  <2> QED
    BY <1>4, <1>5, <2>1
<1>11. ASSUME NEW o \in Orders, new[o] # orders[o]
       PROVE  \E i \in DOMAIN stream' : /\ stream'[i].order = o
                                        /\ stream'[i].revision = new[o].revision
  <2>1. o \in changed
    BY <1>11 DEF changed
  <2>2. PICK k \in 1..n : news[k] = o
    BY <1>7, <2>1
  <2> QED
    BY <1>5, <1>9, <2>2
<1> QED
  BY <1>9, <1>10, <1>11

(* Orders change and are reported.                                         *)
LEMMA ReportShows ==
  ASSUME OrdersType, StreamTrue, ShownTrue, NEW new, Stepped(new), orders' = new,
         Report(new), shown' = shown
  PROVE  StreamTrue' /\ ShownTrue' /\ MissesNothing
<1>1. stream \in Seq(StreamSet)
  BY DEF StreamTrue
<1>2. \A o \in Orders : /\ orders[o] \in OrderSet /\ new[o] \in OrderSet
                        /\ orders[o].revision \in Nat /\ new[o].revision \in Nat
  <2>1. \A o \in Orders : orders[o] \in OrderSet /\ new[o] \in OrderSet
    BY DEF OrdersType, Stepped
  <2> QED
    BY <2>1 DEF OrderSet
<1>3. /\ stream' \in Seq(StreamSet)
      /\ \A i \in DOMAIN stream : i \in DOMAIN stream' /\ stream'[i] = stream[i]
      /\ \A i \in DOMAIN stream' :
           \/ i \in DOMAIN stream
           \/ /\ stream'[i].order \in Orders
              /\ stream'[i].status = new[stream'[i].order].status
              /\ stream'[i].revision = new[stream'[i].order].revision
      /\ \A o \in Orders : new[o] # orders[o] =>
           \E i \in DOMAIN stream' : /\ stream'[i].order = o
                                     /\ stream'[i].revision = new[o].revision
  BY <1>1, Reported
<1>4. ASSUME NEW i \in DOMAIN stream'
      PROVE  SaysOf(stream'[i], new[stream'[i].order])
  <2>1. CASE i \in DOMAIN stream
    <3>1. stream[i] \in StreamSet /\ SaysOf(stream[i], orders[stream[i].order])
      BY <2>1 DEF StreamTrue
    <3>2. stream[i].order \in Orders /\ stream[i].revision \in Nat
      BY <3>1 DEF StreamSet
    <3> QED
      BY <1>3, <2>1, <3>1, <3>2, SaysOn
  <2>2. CASE i \notin DOMAIN stream
    BY <1>2, <1>3, <2>2 DEF SaysOf
  <2> QED
    BY <2>1, <2>2
<1>5. StreamTrue'
  BY <1>3, <1>4 DEF StreamTrue, SaysOf
<1>6. ASSUME NEW o \in Orders
      PROVE  /\ Fresh(shown[o], new[o])
             /\ \/ \E i \in DOMAIN stream' : /\ stream'[i].order = o
                                            /\ stream'[i].revision = new[o].revision
                \/ new[o] = orders[o] /\ ~Coming(o)
  <2>1. Fresh(shown[o], orders[o]) /\ shown[o] \in ShownSet
    BY DEF ShownTrue
  <2>2. shown[o].revision \in Nat
    BY <2>1 DEF ShownSet
  <2>3. CASE new[o] # orders[o]
    <3>1. new[o].revision = orders[o].revision + 1
      BY <2>3 DEF Stepped
    <3>2. Fresh(shown[o], new[o])
      BY <1>2, <2>1, <2>2, <3>1 DEF Fresh
    <3> QED
      BY <1>3, <2>3, <3>2
  <2>4. CASE new[o] = orders[o]
    BY <1>3, <2>1, <2>4 DEF Coming
  <2> QED
    BY <2>3, <2>4
<1>7. ShownTrue'
  BY <1>6 DEF ShownTrue, Fresh
<1>8. MissesNothing
  BY <1>6 DEF MissesNothing, Missing, Coming
<1> QED
  BY <1>5, <1>7, <1>8

(* A request is served, its connection there or not.                       *)
LEMMA ReactShows ==
  ASSUME OrdersType, StreamTrue, ShownTrue, NEW id, NEW r, NEW type,
         Sound(r, type), React(id, r), shown' = shown
  PROVE  /\ StreamTrue' /\ ShownTrue' /\ MissesNothing
         /\ orders' = r.orders /\ Stepped(r.orders)
<1>1. orders' = r.orders /\ Report(r.orders) /\ Stepped(r.orders)
  BY DEF React, Sound
<1> QED
  BY <1>1, ReportShows

LEMMA ServeShows ==
  ASSUME Answering, Showing, NEW c \in Ring, Serve(c)
  PROVE  Showing' /\ MissesNothing
<1>1. JournalType /\ WireType /\ OrdersType /\ StreamTrue /\ RowsTrue /\ ShownTrue
  BY DEF Answering, Showing
<1>2. PICK i \in Sent(c) \cap Unserved(c) :
        \E r \in Reactions(calls[c][i].id) :
          /\ React(calls[c][i].id, r)
          /\ calls' = [calls EXCEPT ![c][i].response = r.response]
  BY DEF Serve
<1>3. PICK id : id = calls[c][i].id
  OBVIOUS
<1>4. PICK r \in Reactions(id) :
        React(id, r) /\ calls' = [calls EXCEPT ![c][i].response = r.response]
  BY <1>2, <1>3
<1>5. i \in DOMAIN calls[c] /\ shown' = shown
  BY DEF Serve, Unserved
<1>6. id \in Ids /\ calls[c] \in Seq(CallSet) /\ calls[c][i] \in CallSet
  BY <1>1, <1>3, <1>5, CallType DEF WireType
<1>7. Sound(r, Request(id).type)
  BY <1>1, <1>6, ReactionSound
<1>8. /\ StreamTrue' /\ ShownTrue' /\ MissesNothing
      /\ orders' = r.orders /\ Stepped(r.orders)
  BY <1>1, <1>4, <1>5, <1>7, ReactShows
<1>9. \A row \in r.response.rows : SaysOf(row, r.orders[row.order])
  BY <1>7 DEF Sound
<1> DEFINE call == [calls[c][i] EXCEPT !.response = r.response]
<1>10. call.response = r.response
  BY <1>6 DEF CallSet
<1>11. calls' = [calls EXCEPT ![c] = [@ EXCEPT ![i] = call]]
  BY <1>4
<1> HIDE DEF call
<1>12. \A d \in Ring : \A k \in DOMAIN calls'[d] :
         \/ calls'[d][k] = call
         \/ k \in DOMAIN calls[d] /\ calls'[d][k] = calls[d][k]
  <2>1. calls \in [Ring -> Seq(CallSet)]
    BY <1>1 DEF WireType
  <2>2. \A d \in Ring : calls'[d] = IF d = c THEN [calls[c] EXCEPT ![i] = call]
                                   ELSE calls[d]
    BY <1>11, <2>1
  <2>3. \A k \in DOMAIN [calls[c] EXCEPT ![i] = call] :
          /\ k \in DOMAIN calls[c]
          /\ [calls[c] EXCEPT ![i] = call][k] = IF k = i THEN call ELSE calls[c][k]
    BY <1>6
  <2> QED
    BY <2>2, <2>3
<1>13. ASSUME NEW d \in Ring, NEW k \in DOMAIN calls'[d],
              NEW row \in calls'[d][k].response.rows
       PROVE  SaysOf(row, r.orders[row.order])
  BY <1>1, <1>8, <1>9, <1>10, <1>12, SaysOnWire
<1>14. RowsTrue'
  BY <1>8, <1>13 DEF RowsTrue, SaysOf
<1> QED
  BY <1>8, <1>14 DEF Showing

(* Orders change, and no call does.                                        *)
LEMMA OthersShow ==
  ASSUME Answering, Showing, ServeOrphan \/ \E o \in Orders : Fill(o)
  PROVE  Showing' /\ MissesNothing
<1>1. JournalType /\ WireType /\ OrdersType /\ StreamTrue /\ RowsTrue /\ ShownTrue
  BY DEF Answering, Showing
<1>2. calls' = calls /\ shown' = shown
  BY DEF ServeOrphan, Fill, wire, users
<1>3. StreamTrue' /\ ShownTrue' /\ MissesNothing /\ Stepped(orders')
  <2>1. CASE ServeOrphan
    <3>1. PICK id \in orphans : \E r \in Fair(id) : React(id, r)
      BY <2>1 DEF ServeOrphan
    <3>2. PICK r \in Fair(id) : React(id, r)
      BY <3>1
    <3>3. id \in Ids
      BY <1>1 DEF WireType
    <3>4. Sound(r, Request(id).type)
      BY <1>1, <3>3, FairSound
    <3> QED
      BY <1>1, <1>2, <3>2, <3>4, ReactShows
  <2>2. ASSUME NEW o \in Orders, Fill(o)
        PROVE  StreamTrue' /\ ShownTrue' /\ MissesNothing /\ Stepped(orders')
    <3>1. PICK new : new = Turn(o, "FILLED", orders[o].version)
      OBVIOUS
    <3>2. orders[o] \in OrderSet
      BY <1>1 DEF OrdersType
    <3>3. orders[o].version \in 0..Versions
      BY <3>2 DEF OrderSet
    <3>4. Stepped(new)
      BY <1>1, <3>1, <3>3, TurnSteps DEF RowStatuses
    <3>5. orders' = new /\ Report(new)
      BY <2>2, <3>1 DEF Fill
    <3> QED
      BY <1>1, <1>2, <3>4, <3>5, ReportShows
  <2> QED
    BY <2>1, <2>2
<1>4. PICK new : new = orders'
  OBVIOUS
<1>5. ASSUME NEW c \in Ring, NEW i \in DOMAIN calls[c],
             NEW row \in calls[c][i].response.rows
      PROVE  SaysOf(row, new[row.order])
  BY <1>1, <1>3, <1>4, SaysOnWire
<1>6. RowsTrue'
  BY <1>2, <1>4, <1>5 DEF RowsTrue, SaysOf
<1> QED
  BY <1>3, <1>6 DEF Showing

-------------------------------------------------------------------------------
(* The users.                                                              *)

(* Calls are made, taken off or lost.                                      *)
LEMMA RowsCarried ==
  ASSUME RowsTrue, orders' = orders,
         \A d \in Ring : \A i \in DOMAIN calls'[d] :
           \/ calls'[d][i].response.rows = {}
           \/ \E k \in DOMAIN calls[d] : calls'[d][i] = calls[d][k]
  PROVE  RowsTrue'
<1>1. ASSUME NEW d \in Ring, NEW i \in DOMAIN calls'[d],
             NEW row \in calls'[d][i].response.rows
      PROVE  SaysOf(row, orders[row.order])
  <2>1. PICK k \in DOMAIN calls[d] : calls'[d][i] = calls[d][k]
    BY <1>1
  <2> QED
    BY <2>1 DEF RowsTrue
<1> QED
  BY <1>1 DEF RowsTrue, SaysOf

(* What is shown goes forward, and is true.                                *)
LEMMA ShownForward ==
  ASSUME OrdersType, ShownTrue, orders' = orders, stream' = stream,
         shown' \in [Orders -> ShownSet],
         \A o \in Orders : /\ Fresh(shown'[o], orders[o])
                          /\ shown'[o].revision >= shown[o].revision
  PROVE  ShownTrue' /\ MissesNothing
<1>1. \A o \in Orders : /\ shown[o].revision \in Nat /\ shown'[o].revision \in Nat
                        /\ orders[o].revision \in Nat
  <2>1. \A o \in Orders : /\ shown[o] \in ShownSet /\ shown'[o] \in ShownSet
                          /\ orders[o] \in OrderSet
    BY DEF ShownTrue, OrdersType
  <2> QED
    BY <2>1 DEF ShownSet, OrderSet
<1>2. ASSUME NEW o \in Orders, shown'[o].revision < orders[o].revision
      PROVE  shown[o].revision < orders[o].revision
  BY <1>1, <1>2
<1>3. ShownTrue'
  BY DEF ShownTrue, Fresh
<1>4. MissesNothing
  BY <1>2 DEF MissesNothing, Missing, Coming
<1> QED
  BY <1>3, <1>4

LEMMA HandleShows ==
  ASSUME Answering, Showing, NEW c \in Ring, HandleResponse(c)
  PROVE  /\ Showing' /\ MissesNothing /\ NoneOlder
         /\ \A it : /\ calls[c][1].response.rows = {it} /\ it.status # "UNKNOWN"
                    /\ Request(calls[c][1].id).type # "CANCEL_ALL_ORDERS"
              => shown'[it.order].revision >= it.revision
<1>1. WireType /\ WaitsOnce /\ OrdersType /\ StreamTrue /\ RowsTrue /\ ShownTrue
      /\ calls[c] # <<>>
  BY DEF Answering, Showing, HandleResponse
<1>2. /\ orders' = orders /\ stream' = stream
      /\ calls' = [calls EXCEPT ![c] = Tail(@)]
      /\ shown' = ShowRows(Request(Head(calls[c]).id).type, Head(calls[c]).response.rows)
  BY DEF HandleResponse, exchange
<1>3. /\ 1 \in DOMAIN calls[c] /\ Head(calls[c]) = calls[c][1]
      /\ \A d \in Ring : \A i \in DOMAIN calls'[d] :
           \E k \in DOMAIN calls[d] : calls'[d][i] = calls[d][k]
  BY <1>1, <1>2, CallTaken
<1>4. RowsTrue'
  BY <1>1, <1>2, <1>3, RowsCarried
<1>5. PICK rows, type : /\ rows = calls[c][1].response.rows
                        /\ type = Request(calls[c][1].id).type
                        /\ shown' = ShowRows(type, rows)
  BY <1>2, <1>3
<1>6. rows \subseteq RowSet /\ \A row \in rows : SaysOf(row, orders[row.order])
  <2>1. calls[c][1].response \in Responses
    BY <1>1, <1>3, CallType
  <2>2. calls[c][1].response.rows \subseteq RowSet
    BY <2>1 DEF Responses
  <2> QED
    BY <1>1, <1>3, <1>5, <2>2 DEF RowsTrue
<1>7. ASSUME NEW o \in Orders
      PROVE  /\ shown'[o] \in ShownSet /\ Fresh(shown'[o], orders[o])
             /\ shown'[o].revision >= shown[o].revision
             /\ \A it : /\ rows = {it} /\ it.order = o /\ it.status # "UNKNOWN"
                        /\ type # "CANCEL_ALL_ORDERS"
                  => shown'[o].revision >= it.revision
  <2> DEFINE mine == {row \in rows : row.order = o /\ type # "CANCEL_ALL_ORDERS"}
             row == CHOOSE row \in mine : TRUE
  <2>1. shown'[o] = IF mine = {} THEN shown[o]
                    ELSE Show(shown[o], row,
                              ComputeOrderStatus(row.status, row.status = "NEW"))
    BY <1>5 DEF ShowRows
  <2>2. /\ shown[o] \in ShownSet /\ Fresh(shown[o], orders[o])
        /\ orders[o] \in OrderSet
    BY <1>1 DEF ShownTrue, OrdersType
  <2>3. CASE mine = {}
    BY <2>1, <2>2, <2>3 DEF ShownSet
  <2>4. CASE mine # {}
    <3>1. row \in mine
      BY <2>4
    <3>2. /\ row \in RowSet /\ row.order = o /\ SaysOf(row, orders[o])
          /\ \A it : rows = {it} => it = row
      BY <1>6, <3>1
    <3> DEFINE status == ComputeOrderStatus(row.status, row.status = "NEW")
    <3>3. shown'[o] = Show(shown[o], row, status)
      BY <2>1, <2>4
    <3> HIDE DEF row, mine
    <3>4. row.revision \in Nat /\ row.status \in RowStatuses
      BY <3>2 DEF RowSet
    <3>5. CASE row.status = "UNKNOWN"
      <4>1. status = "UNDEFINED"
        BY <3>5, Untranslated
      <4> HIDE DEF status
      <4> QED
        BY <2>2, <3>2, <3>3, <3>4, <3>5, <4>1, ShowTrue
    <3>6. CASE row.status # "UNKNOWN"
      <4>1. status = Expected(row.status)
        BY <3>4, <3>6, Translated
      <4> HIDE DEF status
      <4> QED
        BY <2>2, <3>2, <3>3, <3>4, <3>6, <4>1, ShowTrue
    <3> QED
      BY <3>5, <3>6
  <2> QED
    BY <2>3, <2>4
<1>8. shown' \in [Orders -> ShownSet]
  BY <1>5, <1>7 DEF ShowRows
<1>9. ShownTrue' /\ MissesNothing
  BY <1>1, <1>2, <1>7, <1>8, ShownForward
<1>10. StreamTrue'
  BY <1>1, <1>2 DEF StreamTrue, SaysOf
<1>11. NoneOlder
  BY <1>7 DEF NoneOlder
<1>12. ASSUME NEW it, calls[c][1].response.rows = {it}, it.status # "UNKNOWN",
              Request(calls[c][1].id).type # "CANCEL_ALL_ORDERS"
       PROVE  shown'[it.order].revision >= it.revision
  <2>1. it \in RowSet /\ rows = {it} /\ type # "CANCEL_ALL_ORDERS"
    BY <1>5, <1>6, <1>12
  <2>2. it.order \in Orders
    BY <2>1 DEF RowSet
  <2> QED
    BY <1>7, <1>12, <2>1, <2>2
<1> QED
  BY <1>4, <1>9, <1>10, <1>11, <1>12 DEF Showing

LEMMA ExecutionShows ==
  ASSUME Answering, Showing, ExecutionArrives
  PROVE  Showing' /\ MissesNothing /\ NoneOlder
<1>1. OrdersType /\ StreamTrue /\ RowsTrue /\ ShownTrue /\ stream # <<>>
  BY DEF Answering, Showing, ExecutionArrives
<1>2. PICK row : row = Head(stream)
  OBVIOUS
<1>3. /\ orders' = orders /\ calls' = calls /\ stream' = Tail(stream)
      /\ shown' = [shown EXCEPT ![row.order] = Show(@, row, MapOrdStatus[row.status])]
  BY <1>2 DEF ExecutionArrives, wire
<1>4. stream \in Seq(StreamSet)
  BY <1>1 DEF StreamTrue
<1>5. /\ row = stream[1] /\ 1 \in DOMAIN stream /\ stream' \in Seq(StreamSet)
      /\ \A i \in DOMAIN stream' : i + 1 \in DOMAIN stream /\ stream'[i] = stream[i + 1]
      /\ \A k \in DOMAIN stream : k # 1 =>
           k - 1 \in DOMAIN stream' /\ stream'[k - 1] = stream[k]
  BY <1>1, <1>2, <1>3, <1>4
<1>6. row \in StreamSet /\ SaysOf(row, orders[row.order])
  BY <1>1, <1>4, <1>5 DEF StreamTrue
<1>7. row.order \in Orders /\ row.revision \in Nat
      /\ row.status \in RowStatuses /\ row.status # "UNKNOWN"
  BY <1>6 DEF StreamSet
<1> DEFINE old == shown[row.order]
           next == Show(old, row, MapOrdStatus[row.status])
<1>8. next \in ShownSet /\ Fresh(next, orders[row.order])
      /\ next.revision >= old.revision /\ next.revision >= row.revision
  <2>1. old \in ShownSet /\ Fresh(old, orders[row.order]) /\ orders[row.order] \in OrderSet
    BY <1>1, <1>7 DEF ShownTrue, OrdersType
  <2>2. MapOrdStatus[row.status] = Expected(row.status)
    BY <1>7, Translated
  <2> HIDE DEF old
  <2> QED
    BY <1>6, <1>7, <2>1, <2>2, ShowTrue
<1>9. shown \in [Orders -> ShownSet]
  BY <1>1 DEF ShownTrue
<1>10. shown' = [shown EXCEPT ![row.order] = next]
  BY <1>3
<1> HIDE DEF next
<1>11. shown' \in [Orders -> ShownSet] /\ shown'[row.order] = next
       /\ \A o \in Orders : o # row.order => shown'[o] = shown[o]
  BY <1>7, <1>8, <1>9, <1>10
<1>12. ASSUME NEW o \in Orders
       PROVE  /\ Fresh(shown'[o], orders[o])
              /\ shown'[o].revision >= shown[o].revision
              /\ \/ \E i \in DOMAIN stream' : /\ stream'[i].order = o
                                             /\ stream'[i].revision = orders[o].revision
                 \/ ~(shown'[o].revision < orders[o].revision)
                 \/ Missing(o)
  <2>1. /\ shown[o] \in ShownSet /\ shown'[o] \in ShownSet /\ orders[o] \in OrderSet
        /\ Fresh(shown[o], orders[o])
    BY <1>1, <1>11 DEF ShownTrue, OrdersType
  <2>2. shown[o].revision \in Nat /\ shown'[o].revision \in Nat
        /\ orders[o].revision \in Nat
    BY <2>1 DEF ShownSet, OrderSet
  <2>3. Fresh(shown'[o], orders[o]) /\ shown'[o].revision >= shown[o].revision
    BY <1>8, <1>11, <2>1, <2>2
  <2>4. ASSUME shown'[o].revision < orders[o].revision, ~Missing(o)
        PROVE  \E i \in DOMAIN stream' : /\ stream'[i].order = o
                                        /\ stream'[i].revision = orders[o].revision
    <3>1. Coming(o)
      BY <2>2, <2>3, <2>4 DEF Missing
    <3>2. PICK k \in DOMAIN stream : /\ stream[k].order = o
                                     /\ stream[k].revision = orders[o].revision
      BY <3>1 DEF Coming
    <3>3. k # 1
      BY <1>5, <1>7, <1>8, <1>11, <2>2, <2>4, <3>2
    <3> QED
      BY <1>5, <3>2, <3>3
  <2> QED
    BY <2>3, <2>4
<1>13. ShownTrue'
  BY <1>3, <1>11, <1>12 DEF ShownTrue, Fresh
<1>14. StreamTrue'
  BY <1>1, <1>3, <1>5 DEF StreamTrue, SaysOf
<1>15. RowsTrue'
  BY <1>1, <1>3, RowsCarried
<1>16. MissesNothing
  BY <1>3, <1>12 DEF MissesNothing, Missing, Coming
<1>17. NoneOlder
  BY <1>12 DEF NoneOlder
<1> QED
  BY <1>13, <1>14, <1>15, <1>16, <1>17 DEF Showing

(* Calls are made, taken off or lost: no row comes with it.                *)
LEMMA CallsCarried ==
  ASSUME WireType, WaitsOnce,
         \/ calls' = calls
         \/ \E c \in Ring : Timeout(c) \/ Disconnected(c)
         \/ \E t, entry : ~NoneReady /\ NextReady \in Ring /\ Forward(t, entry)
  PROVE  \A d \in Ring : \A i \in DOMAIN calls'[d] :
           \/ calls'[d][i].response.rows = {}
           \/ \E k \in DOMAIN calls[d] : calls'[d][i] = calls[d][k]
<1>1. CASE calls' = calls
  BY <1>1
<1>2. ASSUME NEW c \in Ring, Timeout(c)
      PROVE  \A d \in Ring : \A i \in DOMAIN calls'[d] :
               \E k \in DOMAIN calls[d] : calls'[d][i] = calls[d][k]
  <2>1. calls[c] # <<>> /\ calls' = [calls EXCEPT ![c] = Tail(@)]
    BY <1>2 DEF Timeout
  <2> QED
    BY <2>1, CallTaken
<1>3. ASSUME NEW c \in Ring, Disconnected(c)
      PROVE  \A d \in Ring : \A i \in DOMAIN calls'[d] :
               \E k \in DOMAIN calls[d] : calls'[d][i] = calls[d][k]
  <2>1. calls' = [calls EXCEPT ![c] = <<>>]
    BY <1>3 DEF Disconnected
  <2>2. \A d \in Ring : IF d = c THEN calls'[d] = <<>> ELSE calls'[d] = calls[d]
    BY <2>1 DEF WireType
  <2> QED
    BY <2>2
<1>4. ASSUME NEW t, NEW entry, ~NoneReady, NextReady \in Ring, Forward(t, entry)
      PROVE  \A d \in Ring : \A i \in DOMAIN calls'[d] :
               \/ calls'[d][i].response.rows = {}
               \/ \E k \in DOMAIN calls[d] : calls'[d][i] = calls[d][k]
  <2>1. PICK call :
          /\ calls' = [calls EXCEPT ![NextReady] = Append(@, call)]
          /\ call.response = NoResponse
    <3> DEFINE new == [id |-> <<t, Len(journal[t]) + 1>>, response |-> NoResponse]
    <3>1. calls' = [calls EXCEPT ![NextReady] = Append(@, new)]
      BY <1>4 DEF Forward
    <3>2. new.response = NoResponse
      OBVIOUS
    <3> HIDE DEF new
    <3> QED
      BY <1>4, <3>1, <3>2
  <2>2. calls[NextReady] \in Seq(CallSet)
    BY <1>4 DEF WireType
  <2>3. \A i \in DOMAIN Append(calls[NextReady], call) :
          \/ Append(calls[NextReady], call)[i] = call
          \/ i \in DOMAIN calls[NextReady] /\ Append(calls[NextReady], call)[i] = calls[NextReady][i]
    BY <2>2
  <2>4. \A d \in Ring :
          calls'[d] = IF d = NextReady THEN Append(calls[NextReady], call) ELSE calls[d]
    BY <2>1 DEF WireType
  <2>5. call.response.rows = {}
    BY <2>1 DEF NoResponse, Response
  <2> QED
    BY <2>3, <2>4, <2>5
<1> QED
  BY <1>1, <1>2, <1>3, <1>4

(* The exchange and the users are as they were.                            *)
LEMMA ElsewhereShows ==
  ASSUME Answering, Showing, UNCHANGED <<orders, stream, shown>>,
         \/ calls' = calls
         \/ \E c \in Ring : Timeout(c) \/ Disconnected(c)
         \/ \E t, entry : ~NoneReady /\ NextReady \in Ring /\ Forward(t, entry)
  PROVE  Showing' /\ MissesNothing
<1>1. WireType /\ WaitsOnce /\ StreamTrue /\ RowsTrue /\ ShownTrue
  BY DEF Answering, Showing
<1>2. \A d \in Ring : \A i \in DOMAIN calls'[d] :
        \/ calls'[d][i].response.rows = {}
        \/ \E k \in DOMAIN calls[d] : calls'[d][i] = calls[d][k]
  BY <1>1, CallsCarried
<1>3. RowsTrue'
  BY <1>1, <1>2, RowsCarried
<1>4. StreamTrue' /\ ShownTrue' /\ MissesNothing
  BY <1>1 DEF StreamTrue, ShownTrue, SaysOf, Fresh, MissesNothing, Missing, Coming
<1> QED
  BY <1>3, <1>4 DEF Showing

LEMMA ForwardShows ==
  ASSUME TurnType, Answering, Showing, NEW t, NEW entry, Forward(t, entry)
  PROVE  Showing' /\ MissesNothing
<1>1. UNCHANGED <<orders, stream, shown>>
  BY DEF Forward, exchange
<1>2. CASE NoneReady
  <2>1. calls' = calls
    BY <1>2 DEF Forward
  <2> QED
    BY <1>1, <2>1, ElsewhereShows
<1>3. CASE ~NoneReady
  <2>1. NextReady \in Ring
    BY <1>3, NextIsReady DEF TurnType
  <2> QED
    BY <1>1, <1>3, <2>1, ElsewhereShows
<1> QED
  BY <1>2, <1>3

LEMMA ShowingInitially ==
  ASSUME Init
  PROVE  Showing
<1>1. StreamTrue /\ RowsTrue
  BY DEF Init, StreamTrue, RowsTrue
<1>2. ShownTrue
  BY DEF Init, ShownTrue, ShownSet, ShownStatuses, Fresh, Expected
<1> QED
  BY <1>1, <1>2 DEF Showing

LEMMA ShowingKept ==
  ASSUME Turns, Answering, Showing, [Next]_vars
  PROVE  Showing' /\ MissesNothing /\ NoneOlder
<1>1. TurnType
  BY DEF Turns
<1>2. shown' = shown => NoneOlder
  <2>1. \A o \in Orders : shown[o].revision \in Nat
    BY DEF Showing, ShownTrue, ShownSet
  <2> QED
    BY <2>1 DEF NoneOlder
<1>3. ASSUME NEW o \in Orders, CreateOrder(o) \/ ModifyOrder(o) \/ CancelOrder(o)
      PROVE  Showing' /\ MissesNothing /\ NoneOlder
  <2>1. \E t, entry : Forward(t, entry)
    BY <1>3 DEF CreateOrder, ModifyOrder, CancelOrder
  <2>2. shown' = shown
    BY <2>1 DEF Forward
  <2> QED
    BY <1>1, <1>2, <2>1, <2>2, ForwardShows
<1>4. CASE CancelAllOrders
  <2>1. PICK entry : Forward(All, entry)
    BY <1>4 DEF CancelAllOrders
  <2>2. shown' = shown
    BY <2>1 DEF Forward
  <2> QED
    BY <1>1, <1>2, <2>1, <2>2, ForwardShows
<1>5. CASE \E c \in Ring : Serve(c)
  BY <1>5, <1>2, ServeShows DEF Serve
<1>6. CASE \E c \in Ring : HandleResponse(c)
  BY <1>6, HandleShows
<1>7. CASE \E c \in Ring : Timeout(c) \/ Disconnected(c)
  <2>1. UNCHANGED <<orders, stream, shown>>
    BY <1>7 DEF Timeout, Disconnected, exchange
  <2> QED
    BY <1>7, <1>2, <2>1, ElsewhereShows
<1>8. CASE ServeOrphan \/ \E o \in Orders : Fill(o)
  BY <1>8, <1>2, OthersShow DEF ServeOrphan, Fill, users
<1>9. CASE ExecutionArrives
  BY <1>9, ExecutionShows
<1>10. CASE (\E c \in Ring : Connected(c)) \/ UNCHANGED vars
  <2>1. UNCHANGED <<orders, stream, shown, calls>>
    BY <1>10 DEF Connected, vars, wire, exchange, users
  <2> QED
    BY <1>2, <2>1, ElsewhereShows
<1> QED
  BY <1>3, <1>4, <1>5, <1>6, <1>7, <1>8, <1>9, <1>10 DEF Next

LEMMA NoneMissingInitially ==
  ASSUME Init
  PROVE  NoneMissing
  BY DEF Init, NoneMissing, Missing

LEMMA NoneMissingKept ==
  ASSUME NoneMissing, MissesNothing
  PROVE  NoneMissing'
  BY DEF NoneMissing, MissesNothing

(* For any number of orders, connections and requests: when every          *)
(* execution has arrived, the users are shown the exchange's status of     *)
(* each order, however late or lost the answers to requests are            *)
(* (order_update.cpp, drop_copy.cpp and the update time they both pass     *)
(* on).                                                                    *)
THEOREM NewestShown == Spec => []NewestTold
<1>1. Init => Turns /\ Answering /\ Showing /\ NoneMissing
  BY TurnsInitially, AnsweringInitially, ShowingInitially, NoneMissingInitially
<1>2. Turns /\ Answering /\ Showing /\ NoneMissing /\ [Next]_vars
        => (Turns /\ Answering /\ Showing /\ NoneMissing)'
  BY TurnsKept, AnsweringKept, ShowingKept, NoneMissingKept
<1>3. Answering /\ Showing /\ NoneMissing => NewestTold
  BY ShowingMeansNewest DEF Answering
<1> QED
  BY <1>1, <1>2, <1>3, PTL DEF Spec

-------------------------------------------------------------------------------
(* Types.                                                                  *)

LEMMA BudgetKept ==
  ASSUME budget \in 0..Budget, [Next]_vars
  PROVE  budget' \in 0..Budget
<1>1. ASSUME NEW cost, Spend(cost)
      PROVE  budget' \in 0..Budget
  BY <1>1, BoundsAssumption DEF Spend
<1>2. CASE budget' = budget
  BY <1>2
<1>3. CASE \E c \in Ring : Disconnected(c)
  BY <1>1, <1>3 DEF Disconnected
<1>4. CASE (\E c \in Ring : Serve(c)) \/ ServeOrphan
  <2>1. \E id, r : React(id, r)
    BY <1>4 DEF Serve, ServeOrphan
  <2> QED
    BY <1>1, <2>1 DEF React
<1>5. ASSUME \/ \E o \in Orders : CreateOrder(o) \/ ModifyOrder(o) \/ CancelOrder(o)
             \/ \E o \in Orders : Fill(o)
             \/ CancelAllOrders \/ ExecutionArrives \/ UNCHANGED vars
             \/ \E c \in Ring : Connected(c) \/ HandleResponse(c) \/ Timeout(c)
      PROVE  budget' = budget
  BY <1>5 DEF CreateOrder, ModifyOrder, CancelOrder, CancelAllOrders, Forward, Fill,
              ExecutionArrives, vars, Connected, HandleResponse, Timeout
<1> QED
  BY <1>2, <1>3, <1>4, <1>5 DEF Next

LEMMA InvariantTyped ==
  ASSUME Turns, Answering, Showing, budget \in 0..Budget
  PROVE  TypeOK
<1>1. /\ index \in 0..(Connections - 1)
      /\ link \in [0..(Connections - 1) -> {"UNDEFINED", "READY", "DISCONNECTED"}]
      /\ served \in [DOMAIN link -> Nat]
  BY DEF Turns, TurnType, Ring
<1>2. /\ DOMAIN calls = DOMAIN link
      /\ \A c \in DOMAIN calls : \A i \in DOMAIN calls[c] : calls[c][i].id \in Ids
      /\ orphans \subseteq Ids /\ overtook \subseteq Ids
  BY DEF Answering, WireType, Turns, TurnType
<1>3. orders \in [Orders -> [status : {"NONE", "NEW", "FILLED", "CANCELED", "REJECTED"},
                             version : 0..Versions, revision : Nat]]
  BY DEF Answering, OrdersType, OrderSet, Statuses
<1>4. shown \in [Orders -> [status : {"UNDEFINED", "WORKING", "COMPLETED", "CANCELED",
                                      "REJECTED"}, revision : Nat]]
  BY DEF Showing, ShownTrue, ShownSet, ShownStatuses
<1>5. DOMAIN journal = Targets
  BY DEF Answering, JournalType
<1>6. ASSUME NEW id \in Ids
      PROVE  /\ Request(id).type \in RequestType
             /\ Request(id).orig \in 0..(id[2] - 1) /\ Request(id).named \in BOOLEAN
             /\ Request(id).fate \in {"open", "done", "refused", "limited"}
             /\ Request(id).answers \in Seq(Answer)
  <2>1. /\ id \in IdSet /\ id[1] \in Targets /\ id[2] \in DOMAIN journal[id[1]]
        /\ Request(id) \in EntrySet /\ Request(id) = journal[id[1]][id[2]]
    BY IdsType DEF Answering
  <2>2. Request(id).orig < id[2]
    BY <2>1 DEF Answering, JournalType
  <2>3. Request(id).orig \in Nat /\ id[2] \in Nat
    BY <2>1, BoundsAssumption DEF EntrySet, IdSet
  <2>4. Request(id).orig \in 0..(id[2] - 1)
    BY <2>2, <2>3
  <2> QED
    BY <2>1, <2>4 DEF EntrySet, Fates
<1> QED
  BY <1>1, <1>2, <1>3, <1>4, <1>5, <1>6 DEF TypeOK

(* Every variable keeps its type, whatever the constants.                  *)
THEOREM EntryTypeCorrect == Spec => []TypeOK
<1>1. Init => Turns /\ Answering /\ Showing /\ budget \in 0..Budget
  BY TurnsInitially, AnsweringInitially, ShowingInitially, BoundsAssumption DEF Init
<1>2. Turns /\ Answering /\ Showing /\ budget \in 0..Budget /\ [Next]_vars
        => (Turns /\ Answering /\ Showing /\ budget \in 0..Budget)'
  BY TurnsKept, AnsweringKept, ShowingKept, BudgetKept
<1>3. Turns /\ Answering /\ Showing /\ budget \in 0..Budget => TypeOK
  BY InvariantTyped
<1> QED
  BY <1>1, <1>2, <1>3, PTL DEF Spec

===============================================================================
