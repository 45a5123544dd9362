---------------------------- MODULE ManagementProofs ----------------------------
(***************************************************************************)
(* OrderManagement for any number of orders, connections, requests and     *)
(* losses of the drop copy: a drop copy that has told all it knows has     *)
(* told of every open order, and whatever it loses, the composition        *)
(* implements OrderLife.                                                   *)
(***************************************************************************)
EXTENDS OrderManagement, AnswerProofs

-------------------------------------------------------------------------------
(* The order entry goes on as it does without a drop copy.                 *)

Entered == Turns /\ Answering /\ Showing

LEMMA EnteredInitially ==
  ASSUME ManagedInit
  PROVE  Entered /\ NoneMissing
  BY TurnsInitially, AnsweringInitially, ShowingInitially, NoneMissingInitially
     DEF ManagedInit, Entered

LEMMA EnteredKept ==
  ASSUME Entered, [Next]_vars
  PROVE  Entered' /\ MissesNothing
  BY TurnsKept, AnsweringKept, ShowingKept DEF Entered

(* The drop copy leaves all of it but the stream.                          *)
LEMMA CopyOnly ==
  ASSUME Entered, StreamTrue',
         UNCHANGED <<gateway, wire, orders, users, history, budget>>
  PROVE  Entered'
<1>1. UNCHANGED <<index, link, served, calls, orphans, overtook, journal, orders, shown>>
  BY DEF gateway, wire, users, history
<1>2. Turns'
  BY <1>1 DEF Entered, Turns, TurnType, NearestHadFewest, Ready, Offset
<1>3. Answering'
  <2>1. Answering /\ OrdersType'
    BY <1>1 DEF Entered, Answering, OrdersType
  <2> QED
    BY <1>1, <2>1, ElsewhereAnswers
<1>4. RowsTrue' /\ ShownTrue'
  BY <1>1 DEF Entered, Showing, RowsTrue, ShownTrue, SaysOf, Fresh
<1> QED
  BY <1>2, <1>3, <1>4 DEF Entered, Showing

-------------------------------------------------------------------------------
(* Why something is missing.                                               *)

(* What is missing of an order that is open will be told by the snapshot,  *)
(* and what is missing of one that has ended was its end, told to nobody.  *)
Explained ==
  \A o \in Orders : Missing(o) =>
    IF orders[o].status = "NEW" THEN copy # "told" ELSE o \in unheard

Managed == Entered /\ Explained

(* What comes last of an order is what it is.                              *)
LEMMA ComingSays ==
  ASSUME Entered, NEW o \in Orders, Coming(o)
  PROVE  orders[o].status = "NEW" \/ o \in Endings(stream)
<1>1. PICK i \in DOMAIN stream : /\ stream[i].order = o
                                 /\ stream[i].revision = orders[o].revision
  BY DEF Coming
<1>2. stream[i] \in StreamSet /\ SaysOf(stream[i], orders[o])
  BY <1>1 DEF Entered, Showing, StreamTrue
<1>3. stream[i].status = orders[o].status
  BY <1>1, <1>2 DEF StreamSet, SaysOf
<1> QED
  BY <1>1, <1>3 DEF Endings

LEMMA LosingExplained ==
  ASSUME Managed, CopyLost \/ CopyListens
  PROVE  Managed'
<1>1. /\ UNCHANGED <<gateway, wire, orders, users, history, budget>>
      /\ stream' = <<>> /\ unheard' = unheard \cup Endings(stream) /\ copy' # "told"
  BY DEF CopyLost, CopyListens
<1>2. orders' = orders /\ shown' = shown
  BY <1>1 DEF users
<1>3. StreamTrue'
  BY <1>1 DEF StreamTrue
<1>4. Entered'
  BY <1>1, <1>3, CopyOnly DEF Managed
<1>5. ASSUME NEW o \in Orders, Missing(o)', orders[o].status # "NEW"
      PROVE  o \in unheard'
  <2>1. shown[o].revision < orders[o].revision
    BY <1>2, <1>5 DEF Missing
  <2>2. Coming(o) => o \in Endings(stream)
    BY <1>5, ComingSays DEF Managed
  <2>3. ~Coming(o) => o \in unheard
    BY <1>5, <2>1 DEF Managed, Explained, Missing
  <2> QED
    BY <1>1, <2>2, <2>3
<1> QED
  BY <1>1, <1>2, <1>4, <1>5 DEF Managed, Explained

LEMMA ListOf ==
  ASSUME NEW S, NEW n \in Nat, NEW f, f = [i \in 1..n |-> f[i]],
         \A i \in 1..n : f[i] \in S
  PROVE  f \in Seq(S) /\ DOMAIN f = 1..n /\ Len(f) = n
<1>1. f \in [1..n -> S]
  OBVIOUS
<1> QED
  BY <1>1

(* The snapshot says how the orders are that it names.                     *)
LEMMA SnapshotSays ==
  ASSUME Entered, NEW others \in SUBSET Closed,
         NEW told \in Arrangements(Resting \cup others),
         stream' = stream \o Snapshot(told)
  PROVE  /\ stream' \in Seq(StreamSet)
         /\ \A i \in DOMAIN stream : i \in DOMAIN stream' /\ stream'[i] = stream[i]
         /\ \A i \in DOMAIN stream' :
              \/ i \in DOMAIN stream
              \/ /\ stream'[i].order \in Orders
                 /\ stream'[i].status = orders[stream'[i].order].status
                 /\ stream'[i].revision = orders[stream'[i].order].revision
         /\ \A o \in Resting \cup others :
              \E i \in DOMAIN stream' : /\ stream'[i].order = o
                                        /\ stream'[i].revision = orders[o].revision
<1> DEFINE set == Resting \cup others
           n == Cardinality(set)
           rows == Snapshot(told)
<1>5. n \in Nat /\ set \subseteq Orders
  <2>1. set \subseteq Orders
    BY DEF Resting, Closed
  <2> QED
    BY <2>1, TargetsAssumption, FS_Subset, FS_CardinalityType
<1>6. told \in [1..n -> set] /\ \A o \in set : \E i \in 1..n : told[i] = o
  BY DEF Arrangements
<1> HIDE DEF n
<1>7. \A i \in 1..n : /\ rows[i] \in StreamSet
                      /\ rows[i].order = told[i]
                      /\ rows[i].status = orders[told[i]].status
                      /\ rows[i].revision = orders[told[i]].revision
  <2> SUFFICES ASSUME NEW i \in 1..n
               PROVE  /\ rows[i] \in StreamSet
                      /\ rows[i].order = told[i]
                      /\ rows[i].status = orders[told[i]].status
                      /\ rows[i].revision = orders[told[i]].revision
    OBVIOUS
  <2>1. told[i] \in Orders /\ orders[told[i]].status \in RowStatuses \ {"UNKNOWN"}
    BY <1>5, <1>6 DEF Resting, Closed, RowStatuses
  <2>2. rows[i] = Row(told[i], orders[told[i]].status, orders)
    BY <1>6 DEF Snapshot
  <2>3. orders[told[i]].revision \in Nat
    <3>1. orders[told[i]] \in OrderSet
      BY <2>1 DEF Entered, Answering, OrdersType
    <3> QED
      BY <3>1 DEF OrderSet
  <2> HIDE DEF rows
  <2> QED
    BY <2>1, <2>2, <2>3 DEF Row, StreamSet
<1>8. rows \in Seq(StreamSet) /\ DOMAIN rows = 1..n /\ Len(rows) = n
  <2>1. rows = [i \in 1..n |-> rows[i]]
    BY <1>6 DEF Snapshot
  <2>2. n \in Nat /\ \A i \in 1..n : rows[i] \in StreamSet
    BY <1>5, <1>7
  <2> HIDE DEF rows
  <2> QED
    BY <2>1, <2>2, ListOf
<1>9. stream \in Seq(StreamSet) /\ \A i \in DOMAIN stream :
        SaysOf(stream[i], orders[stream[i].order])
  BY DEF Entered, Showing, StreamTrue
<1> HIDE DEF rows, set
<1>10. /\ stream' \in Seq(StreamSet)
       /\ \A i \in DOMAIN stream : i \in DOMAIN stream' /\ stream'[i] = stream[i]
       /\ \A i \in 1..n : /\ Len(stream) + i \in DOMAIN stream'
                          /\ stream'[Len(stream) + i] = rows[i]
       /\ \A i \in DOMAIN stream' :
            i \in DOMAIN stream \/ \E k \in 1..n : i = Len(stream) + k
  <2>1. stream' = stream \o rows
    BY DEF rows
  <2> QED
    BY <1>8, <1>9, <2>1, Joined
<1>11. ASSUME NEW i \in DOMAIN stream', i \notin DOMAIN stream
       PROVE  /\ stream'[i].order \in Orders
              /\ stream'[i].status = orders[stream'[i].order].status
              /\ stream'[i].revision = orders[stream'[i].order].revision
  <2>1. PICK k \in 1..n : stream'[i] = rows[k]
    BY <1>10, <1>11
  <2> QED
    BY <1>5, <1>6, <1>7, <2>1
<1>12. ASSUME NEW o \in set
       PROVE  \E i \in DOMAIN stream' : /\ stream'[i].order = o
                                        /\ stream'[i].revision = orders[o].revision
  <2>1. PICK i \in 1..n : told[i] = o
    BY <1>6, <1>12
  <2>2. rows[i].order = o /\ rows[i].revision = orders[o].revision
    BY <1>7, <2>1
  <2>3. Len(stream) + i \in DOMAIN stream' /\ stream'[Len(stream) + i] = rows[i]
    BY <1>10
  <2> QED
    BY <2>2, <2>3
<1> QED
  BY <1>10, <1>11, <1>12 DEF set

LEMMA CopyStreams ==
  ASSUME Entered, CopyLost \/ CopyListens \/ CopyTold
  PROVE  StreamTrue'
<1>1. orders' = orders
  BY DEF CopyLost, CopyListens, CopyTold
<1>2. CASE CopyLost \/ CopyListens
  <2>1. StreamTrue
    BY DEF Entered, Showing
  <2>2. stream' = stream \/ stream' = <<>>
    BY <1>2 DEF CopyLost, CopyListens
  <2>3. CASE stream' = stream
    BY <1>1, <2>1, <2>3 DEF StreamTrue
  <2>4. CASE stream' = <<>>
    <3>1. DOMAIN stream' = {} /\ stream' \in Seq(StreamSet)
      BY <2>4
    <3> QED
      BY <3>1 DEF StreamTrue
  <2> QED
    BY <2>2, <2>3, <2>4
<1>3. CASE CopyTold
  <2>1. PICK others \in SUBSET Closed :
          \E told \in Arrangements(Resting \cup others) : stream' = stream \o Snapshot(told)
    BY <1>3 DEF CopyTold
  <2>2. PICK told \in Arrangements(Resting \cup others) : stream' = stream \o Snapshot(told)
    BY <2>1
  <2>3. /\ stream' \in Seq(StreamSet)
        /\ \A i \in DOMAIN stream : stream'[i] = stream[i]
        /\ \A i \in DOMAIN stream' :
             \/ i \in DOMAIN stream
             \/ /\ stream'[i].order \in Orders
                /\ stream'[i].status = orders[stream'[i].order].status
                /\ stream'[i].revision = orders[stream'[i].order].revision
    BY <2>2, SnapshotSays
  <2>4. ASSUME NEW i \in DOMAIN stream'
        PROVE  SaysOf(stream'[i], orders[stream'[i].order])
    <3>1. CASE i \in DOMAIN stream
      BY <2>3, <3>1 DEF Entered, Showing, StreamTrue
    <3>2. CASE i \notin DOMAIN stream
      <4>1. stream'[i] \in StreamSet
        BY <2>3
      <4>2. stream'[i].revision \in Nat
        BY <4>1 DEF StreamSet
      <4> QED
        BY <2>3, <3>2, <4>2 DEF SaysOf
    <3> QED
      BY <3>1, <3>2
  <2> QED
    BY <1>1, <2>3, <2>4 DEF StreamTrue, SaysOf
<1> QED
  BY <1>2, <1>3

LEMMA TellingExplained ==
  ASSUME Managed, CopyTold
  PROVE  Managed'
<1>1. PICK others \in SUBSET Closed :
        /\ \E told \in Arrangements(Resting \cup others) :
             stream' = stream \o Snapshot(told)
        /\ unheard' = unheard \ others
  BY DEF CopyTold
<1>2. PICK told \in Arrangements(Resting \cup others) : stream' = stream \o Snapshot(told)
  BY <1>1
<1>3. UNCHANGED <<gateway, wire, orders, users, history, budget>> /\ copy' = "told"
  BY DEF CopyTold
<1>4. orders' = orders /\ shown' = shown
  BY <1>3 DEF users
<1>5. /\ stream' \in Seq(StreamSet)
      /\ \A i \in DOMAIN stream : i \in DOMAIN stream' /\ stream'[i] = stream[i]
      /\ \A i \in DOMAIN stream' :
           \/ i \in DOMAIN stream
           \/ /\ stream'[i].order \in Orders
              /\ stream'[i].status = orders[stream'[i].order].status
              /\ stream'[i].revision = orders[stream'[i].order].revision
      /\ \A o \in Resting \cup others :
           \E i \in DOMAIN stream' : /\ stream'[i].order = o
                                     /\ stream'[i].revision = orders[o].revision
  BY <1>2, SnapshotSays DEF Managed
<1>6. Entered'
  BY <1>3, CopyStreams, CopyOnly DEF Managed
<1>7. ASSUME NEW o \in Orders, Missing(o)'
      PROVE  Missing(o) /\ o \notin Resting \cup others
  BY <1>4, <1>5, <1>7 DEF Missing, Coming
<1>8. Explained'
  <2> SUFFICES ASSUME NEW o \in Orders, Missing(o)'
               PROVE  orders[o].status # "NEW" /\ o \in unheard'
    BY <1>4 DEF Explained
  <2>1. Missing(o) /\ o \notin Resting /\ o \notin others
    BY <1>7
  <2>2. orders[o].status # "NEW"
    BY <2>1 DEF Resting
  <2> QED
    BY <1>1, <2>1, <2>2 DEF Managed, Explained
<1> QED
  BY <1>6, <1>8 DEF Managed

LEMMA ManagedKept ==
  ASSUME Managed, [ManagedNext]_managed
  PROVE  Managed'
<1>1. CASE CopyLost \/ CopyListens
  BY <1>1, LosingExplained
<1>2. CASE CopyTold
  BY <1>2, TellingExplained
<1>3. CASE OrderEntryNext \/ CopyHears \/ UNCHANGED managed
  <2>1. [Next]_vars /\ UNCHANGED <<copy, unheard>>
    BY <1>3 DEF OrderEntryNext, CopyHears, managed, Next
  <2>2. Entered' /\ MissesNothing
    BY <2>1, EnteredKept DEF Managed
  <2>3. Explained'
    BY <2>1, <2>2 DEF Managed, Explained, MissesNothing
  <2> QED
    BY <2>2, <2>3 DEF Managed
<1> QED
  BY <1>1, <1>2, <1>3 DEF ManagedNext

LEMMA ManagedShows ==
  ASSUME Managed
  PROVE  OpenShown /\ EndsShown
<1> SUFFICES ASSUME Informed
             PROVE  OpenShown /\ EndsShown
  BY DEF OpenShown, EndsShown
<1>1. copy = "told" /\ \A o \in Orders : ~Coming(o)
  BY DEF Informed, Coming
<1>2. ASSUME NEW o \in Orders, orders[o].status = "NEW" \/ o \notin unheard
      PROVE  /\ shown[o].status = Expected(orders[o].status)
             /\ shown[o] = [status |-> Expected(orders[o].status),
                            revision |-> orders[o].revision]
  <2>1. ~(shown[o].revision < orders[o].revision)
    BY <1>1, <1>2 DEF Managed, Explained, Missing
  <2>2. shown[o] \in ShownSet /\ orders[o] \in OrderSet /\ Fresh(shown[o], orders[o])
    BY DEF Managed, Entered, Answering, Showing, OrdersType, ShownTrue
  <2>3. shown[o].revision = orders[o].revision
    BY <2>1, <2>2 DEF ShownSet, OrderSet, Fresh
  <2> QED
    BY <2>2, <2>3 DEF ShownSet, Fresh
<1>3. OpenShown
  <2>1. Expected("NEW") = "WORKING"
    BY DEF Expected, MapOrdStatus, OrdStatus
  <2> QED
    BY <1>2, <2>1 DEF OpenShown, Resting
<1>4. EndsShown
  <2> SUFFICES ASSUME NEW o \in Closed \ unheard
               PROVE  shown[o].status = MapOrdStatus[orders[o].status]
    BY DEF EndsShown
  <2>1. o \in Orders /\ orders[o].status # "NONE"
    BY DEF Closed
  <2>2. o \in Orders /\ o \notin unheard
    BY <2>1
  <2>3. shown[o].status = Expected(orders[o].status)
    BY <1>2, <2>2
  <2> QED
    BY <2>1, <2>3 DEF Expected
<1> QED
  BY <1>3, <1>4

(* However often the drop copy is lost, and whatever the requests and      *)
(* their answers do meanwhile: once it has told all it knows, every open   *)
(* order is shown as it is (drop_copy.cpp: the order of the topics, and    *)
(* what is forgotten with a session).                                      *)
THEOREM OpenAreShown == ManagedSpec => []OpenShown
<1>1. ManagedInit => Managed
  BY EnteredInitially DEF Managed, Explained, NoneMissing
<1>2. Managed /\ [ManagedNext]_managed => Managed'
  BY ManagedKept
<1>3. Managed => OpenShown
  BY ManagedShows
<1> QED
  BY <1>1, <1>2, <1>3, PTL DEF ManagedSpec

(* And what has ended is shown as ended, but for ends nobody was told of.  *)
THEOREM EndsAreShown == ManagedSpec => []EndsShown
<1>1. ManagedInit => Managed
  BY EnteredInitially DEF Managed, Explained, NoneMissing
<1>2. Managed /\ [ManagedNext]_managed => Managed'
  BY ManagedKept
<1>3. Managed => EndsShown
  BY ManagedShows
<1> QED
  BY <1>1, <1>2, <1>3, PTL DEF ManagedSpec

-------------------------------------------------------------------------------
(* What each order has been.                                               *)

Recorded ==
  /\ past \in [Orders -> Seq(Statuses)]
  /\ \A o \in Orders : /\ Len(past[o]) = orders[o].revision
                       /\ Life!Latest(past[o]) = orders[o].status

(* A row says what was so.                                                 *)
Was(row) == /\ row.order \in Orders
            /\ row.revision \in 1..Len(past[row.order])
            /\ past[row.order][row.revision] = row.status
Current(row) == /\ row.order \in Orders /\ row.status # "NONE"
                /\ row.revision = orders[row.order].revision
                /\ row.status = orders[row.order].status
Seen(o) == shown[o].revision # 0 =>
             /\ shown[o].revision \in 1..Len(past[o])
             /\ shown[o].status = MapOrdStatus[past[o][shown[o].revision]]

Remembered ==
  /\ \A i \in DOMAIN stream : Was(stream[i])
  /\ \A c \in Ring : \A i \in DOMAIN calls[c] : \A row \in calls[c][i].response.rows :
       row.status # "UNKNOWN" => Was(row)
  /\ \A o \in Orders : Seen(o)

LEMMA RecordedInitially ==
  ASSUME ManagedInit
  PROVE  Recorded /\ Remembered
<1>1. /\ past = [o \in Orders |-> <<>>] /\ stream = <<>> /\ calls = [c \in Ring |-> <<>>]
      /\ orders = [o \in Orders |-> [status |-> "NONE", version |-> 0, revision |-> 0]]
      /\ shown = [o \in Orders |-> [status |-> "UNDEFINED", revision |-> 0]]
  BY DEF ManagedInit, Init
<1>2. Recorded
  <2>1. Life!Latest(<<>>) = "NONE"
    BY DEF Life!Latest
  <2> QED
    BY <1>1, <2>1 DEF Recorded
<1>3. Remembered
  BY <1>1 DEF Remembered, Seen
<1> QED
  BY <1>2, <1>3

LEMMA LatestIs ==
  ASSUME NEW p \in Seq(Statuses)
  PROVE  /\ Len(p) \in Nat
         /\ Life!Latest(p) # "NONE" => Len(p) \in 1..Len(p) /\ p[Len(p)] = Life!Latest(p)
         /\ \A status \in Statuses :
              /\ Append(p, status) \in Seq(Statuses)
              /\ Len(Append(p, status)) = Len(p) + 1
              /\ Life!Latest(Append(p, status)) = status
              /\ \A n \in 1..Len(p) : n \in 1..Len(p) + 1 /\ Append(p, status)[n] = p[n]
<1>1. Len(p) \in Nat /\ DOMAIN p = 1..Len(p)
  OBVIOUS
<1>2. Life!Latest(p) # "NONE" => Len(p) \in 1..Len(p) /\ p[Len(p)] = Life!Latest(p)
  <2>1. p # <<>> => Len(p) \in 1..Len(p)
    OBVIOUS
  <2> QED
    BY <2>1 DEF Life!Latest
<1>3. ASSUME NEW status \in Statuses
      PROVE  /\ Append(p, status) \in Seq(Statuses)
             /\ Len(Append(p, status)) = Len(p) + 1
             /\ Life!Latest(Append(p, status)) = status
             /\ \A n \in 1..Len(p) : n \in 1..Len(p) + 1 /\ Append(p, status)[n] = p[n]
  <2>1. /\ Append(p, status) \in Seq(Statuses)
        /\ Len(Append(p, status)) = Len(p) + 1
        /\ Append(p, status) # <<>> /\ Append(p, status)[Len(p) + 1] = status
    OBVIOUS
  <2>2. \A n \in 1..Len(p) : n \in 1..Len(p) + 1 /\ Append(p, status)[n] = p[n]
    OBVIOUS
  <2>3. Life!Latest(Append(p, status)) = status
    BY <2>1 DEF Life!Latest
  <2> QED
    BY <2>1, <2>2, <2>3
<1> QED
  BY <1>1, <1>2, <1>3

(* What was so stays so, and what is so was.                               *)
LEMMA RecordedKept ==
  ASSUME OrdersType, Recorded, Remember, Stepped(orders')
  PROVE  /\ Recorded'
         /\ \A row : Was(row) \/ Current(row)' => Was(row)'
<1>1. /\ past \in [Orders -> Seq(Statuses)]
      /\ past' = [o \in Orders |-> IF orders'[o] = orders[o] THEN past[o]
                                   ELSE Append(past[o], orders'[o].status)]
  BY DEF Recorded, Remember
<1>2. ASSUME NEW o \in Orders
      PROVE  /\ past'[o] \in Seq(Statuses) /\ Len(past'[o]) = orders'[o].revision
             /\ Life!Latest(past'[o]) = orders'[o].status
             /\ \A n \in 1..Len(past[o]) : n \in 1..Len(past'[o]) /\ past'[o][n] = past[o][n]
  <2>1. /\ past[o] \in Seq(Statuses) /\ Len(past[o]) = orders[o].revision
        /\ Life!Latest(past[o]) = orders[o].status
    BY DEF Recorded
  <2>2. CASE orders'[o] = orders[o]
    BY <1>1, <2>1, <2>2
  <2>3. CASE orders'[o] # orders[o]
    <3>1. orders'[o].revision = orders[o].revision + 1 /\ orders'[o] \in OrderSet
      BY <2>3 DEF Stepped
    <3>2. orders'[o].status \in Statuses
      BY <3>1 DEF OrderSet
    <3>3. past'[o] = Append(past[o], orders'[o].status)
      BY <1>1, <2>3
    <3> QED
      BY <2>1, <3>1, <3>2, <3>3, LatestIs
  <2> QED
    BY <2>2, <2>3
<1>3. Recorded'
  BY <1>1, <1>2 DEF Recorded
<1>4. ASSUME NEW row, Was(row)
      PROVE  Was(row)'
  BY <1>2, <1>4 DEF Was
<1>5. ASSUME NEW row, Current(row)'
      PROVE  Was(row)'
  <2>1. /\ row.order \in Orders /\ row.status # "NONE"
        /\ row.revision = orders'[row.order].revision
        /\ row.status = orders'[row.order].status
    BY <1>5 DEF Current
  <2>2. /\ past'[row.order] \in Seq(Statuses)
        /\ Len(past'[row.order]) = row.revision
        /\ Life!Latest(past'[row.order]) = row.status
    BY <1>2, <2>1
  <2>3. row.revision \in 1..Len(past'[row.order])
        /\ past'[row.order][row.revision] = row.status
    BY <2>1, <2>2, LatestIs
  <2> QED
    BY <2>1, <2>3 DEF Was
<1> QED
  BY <1>3, <1>4, <1>5

(* A step shows what was so, and says what was so or is.                   *)
Learns(o) == \E row : /\ Was(row) /\ row.order = o /\ row.revision >= shown[o].revision
                     /\ shown'[o] = [status |-> MapOrdStatus[row.status],
                                     revision |-> row.revision]
Sourced ==
  /\ \A i \in DOMAIN stream' : \E row : stream'[i] = row /\ (Was(row) \/ Current(row)')
  /\ \A c \in Ring : \A i \in DOMAIN calls'[c] : \A row \in calls'[c][i].response.rows :
       row.status # "UNKNOWN" => Was(row) \/ Current(row)'
  /\ \A o \in Orders : shown'[o] = shown[o] \/ Learns(o)

LEMMA RememberedKept ==
  ASSUME OrdersType, Recorded, Remembered, Remember, Stepped(orders'), Sourced
  PROVE  Recorded' /\ Remembered'
<1>1. Recorded' /\ \A row : Was(row) \/ Current(row)' => Was(row)'
  BY RecordedKept
<1>2. ASSUME NEW i \in DOMAIN stream'
      PROVE  Was(stream[i])'
  <2>1. PICK row : stream'[i] = row /\ (Was(row) \/ Current(row)')
    BY DEF Sourced
  <2>2. Was(row)'
    BY <1>1, <2>1
  <2> QED
    BY <2>1, <2>2 DEF Was
<1>3. ASSUME NEW o \in Orders
      PROVE  Seen(o)'
  <2>1. past[o] \in Seq(Statuses) /\ past'[o] \in Seq(Statuses)
    BY <1>1 DEF Recorded
  <2>2. CASE shown'[o] = shown[o]
    <3> SUFFICES ASSUME shown[o].revision # 0
                 PROVE  /\ shown[o].revision \in 1..Len(past'[o])
                        /\ shown[o].status = MapOrdStatus[past'[o][shown[o].revision]]
      BY <2>2 DEF Seen
    <3>1. /\ shown[o].revision \in 1..Len(past[o])
          /\ shown[o].status = MapOrdStatus[past[o][shown[o].revision]]
      BY DEF Remembered, Seen
    <3>2. PICK row : /\ row.order = o /\ row.revision = shown[o].revision
                     /\ row.status = past[o][shown[o].revision]
      <4> DEFINE it == [order |-> o, revision |-> shown[o].revision,
                        status |-> past[o][shown[o].revision]]
      <4>1. /\ it.order = o /\ it.revision = shown[o].revision
            /\ it.status = past[o][shown[o].revision]
        OBVIOUS
      <4> HIDE DEF it
      <4> QED
        BY <4>1
    <3>3. Was(row)
      BY <3>1, <3>2 DEF Was
    <3>4. Was(row)'
      BY <1>1, <3>3
    <3> QED
      BY <3>1, <3>2, <3>4 DEF Was
  <2>3. CASE Learns(o)
    <3>1. PICK row : /\ Was(row) /\ row.order = o
                     /\ shown'[o] = [status |-> MapOrdStatus[row.status],
                                     revision |-> row.revision]
      BY <2>3 DEF Learns
    <3>2. Was(row)'
      BY <1>1, <3>1
    <3> QED
      BY <3>1, <3>2 DEF Was, Seen
  <2> QED
    BY <2>2, <2>3 DEF Sourced
<1>4. ASSUME NEW c \in Ring, NEW i \in DOMAIN calls'[c],
             NEW row \in calls'[c][i].response.rows, row.status # "UNKNOWN"
      PROVE  Was(row)'
  BY <1>1, <1>4 DEF Sourced
<1>5. Remembered'
  BY <1>2, <1>3, <1>4 DEF Remembered
<1> QED
  BY <1>1, <1>5

-------------------------------------------------------------------------------
(* Every step either changes orders, as it may, or what the users see of   *)
(* them.                                                                   *)

Lawful ==
  \/ orders' = orders
  \/ /\ shown' = shown
     /\ \A o \in Orders : \/ orders'[o] = orders[o]
                          \/ orders'[o].status \in After[orders[o].status]
Moves == Sourced /\ Stepped(orders') /\ Lawful

LEMMA QuietMoves ==
  ASSUME OrdersType, Remembered, orders' = orders,
         \A i \in DOMAIN stream' : \E k \in DOMAIN stream : stream'[i] = stream[k],
         \A d \in Ring : \A i \in DOMAIN calls'[d] :
           \/ calls'[d][i].response.rows = {}
           \/ \E k \in DOMAIN calls[d] : calls'[d][i] = calls[d][k],
         \A o \in Orders : shown'[o] = shown[o] \/ Learns(o)
  PROVE  Moves
<1>1. Stepped(orders')
  BY Unstepped
<1>2. \A i \in DOMAIN stream' : \E row : stream'[i] = row /\ Was(row)
  BY DEF Remembered
<1>3. ASSUME NEW d \in Ring, NEW i \in DOMAIN calls'[d],
             NEW row \in calls'[d][i].response.rows, row.status # "UNKNOWN"
      PROVE  Was(row)
  <2>1. PICK k \in DOMAIN calls[d] : calls'[d][i] = calls[d][k]
    BY <1>3
  <2> QED
    BY <1>3, <2>1 DEF Remembered
<1>4. Sourced
  BY <1>2, <1>3 DEF Sourced
<1> QED
  BY <1>1, <1>4 DEF Moves, Lawful

(* Orders change and are reported.                                         *)
LEMMA ReportMoves ==
  ASSUME OrdersType, StreamTrue, Remembered, NEW new, Stepped(new), orders' = new,
         Report(new)
  PROVE  \A i \in DOMAIN stream' : \E row : stream'[i] = row /\ (Was(row) \/ Current(row)')
<1>1. /\ stream' \in Seq(StreamSet)
      /\ \A i \in DOMAIN stream : stream'[i] = stream[i]
      /\ \A i \in DOMAIN stream' :
           \/ i \in DOMAIN stream
           \/ /\ stream'[i].order \in Orders
              /\ stream'[i].status = new[stream'[i].order].status
              /\ stream'[i].revision = new[stream'[i].order].revision
  BY Reported DEF StreamTrue
<1> SUFFICES ASSUME NEW i \in DOMAIN stream'
             PROVE  \E row : stream'[i] = row /\ (Was(row) \/ Current(row)')
  OBVIOUS
<1>2. PICK row : row = stream'[i]
  OBVIOUS
<1>3. CASE i \in DOMAIN stream
  BY <1>1, <1>2, <1>3 DEF Remembered
<1>4. CASE i \notin DOMAIN stream
  <2>1. row \in StreamSet
    BY <1>1, <1>2
  <2>2. row.status # "NONE"
    BY <2>1 DEF StreamSet, RowStatuses
  <2>3. /\ row.order \in Orders /\ row.status = orders'[row.order].status
        /\ row.revision = orders'[row.order].revision
    BY <1>1, <1>2, <1>4
  <2> QED
    BY <1>2, <2>2, <2>3 DEF Current
<1> QED
  BY <1>3, <1>4

LEMMA ReactMoves ==
  ASSUME OrdersType, StreamTrue, Remembered, NEW id, NEW r, NEW type,
         Sound(r, type), Legal(id, r), React(id, r), shown' = shown
  PROVE  /\ Stepped(orders') /\ Lawful
         /\ \A i \in DOMAIN stream' :
              \E row : stream'[i] = row /\ (Was(row) \/ Current(row)')
         /\ \A row \in r.response.rows : row.status # "UNKNOWN" => Current(row)'
<1>1. /\ orders' = r.orders /\ Report(r.orders) /\ Stepped(r.orders)
      /\ r.response \in Responses
  BY DEF React, Sound
<1>2. Lawful
  BY <1>1 DEF Lawful, Legal
<1>3. ASSUME NEW row \in r.response.rows, row.status # "UNKNOWN"
      PROVE  Current(row)'
  <2>1. row \in RowSet
    BY <1>1 DEF Responses
  <2>2. row.order \in Orders /\ row.status \in RowStatuses
    BY <2>1 DEF RowSet
  <2>3. row.status # "NONE"
    BY <2>2 DEF RowStatuses
  <2>4. row.revision = r.orders[row.order].revision
    BY <1>3 DEF Legal
  <2>5. row.status = r.orders[row.order].status
    BY <1>3, <2>4 DEF Sound, SaysOf
  <2> QED
    BY <1>1, <2>2, <2>3, <2>4, <2>5 DEF Current
<1> QED
  BY <1>1, <1>2, <1>3, ReportMoves

LEMMA ServeMoves ==
  ASSUME Answering, Showing, Remembered, Once, NEW c \in Ring, Serve(c)
  PROVE  Moves
<1>1. OrdersType /\ StreamTrue /\ shown' = shown
  BY DEF Answering, Showing, Serve
<1>2. PICK id : \E r \in Reactions(id) : Reacted(id, r) /\ Responded(id, r)
  BY ServeReacts
<1>3. PICK r : Reacted(id, r) /\ Responded(id, r)
  BY <1>2
<1>4. /\ Stepped(orders') /\ Lawful
      /\ \A k \in DOMAIN stream' : \E row : stream'[k] = row /\ (Was(row) \/ Current(row)')
      /\ \A row \in r.response.rows : row.status # "UNKNOWN" => Current(row)'
  BY <1>1, <1>3, ReactMoves DEF Reacted
<1>5. ASSUME NEW d \in Ring, NEW k \in DOMAIN calls'[d],
             NEW row \in calls'[d][k].response.rows, row.status # "UNKNOWN"
      PROVE  Was(row) \/ Current(row)'
  <2>1. CASE calls[d][k].id = id
    BY <1>3, <1>4, <1>5, <2>1 DEF Responded
  <2>2. CASE calls[d][k].id # id
    BY <1>3, <1>5, <2>2 DEF Responded, Remembered
  <2> QED
    BY <2>1, <2>2
<1> QED
  BY <1>1, <1>4, <1>5 DEF Moves, Sourced

LEMMA OrphanMoves ==
  ASSUME Answering, Showing, Remembered, Once, ServeOrphan
  PROVE  Moves
<1>1. OrdersType /\ StreamTrue /\ calls' = calls /\ shown' = shown
  BY DEF Answering, Showing, ServeOrphan
<1>2. PICK id : \E r \in Fair(id) : Reacted(id, r)
  BY OrphanReacts
<1>3. PICK r : Reacted(id, r)
  BY <1>2
<1>4. /\ Stepped(orders') /\ Lawful
      /\ \A k \in DOMAIN stream' : \E row : stream'[k] = row /\ (Was(row) \/ Current(row)')
  BY <1>1, <1>3, ReactMoves DEF Reacted
<1> QED
  BY <1>1, <1>4 DEF Moves, Sourced, Remembered

LEMMA FillMoves ==
  ASSUME Answering, Showing, Remembered, Once, NEW o \in Orders, Fill(o)
  PROVE  Moves
<1>1. OrdersType /\ StreamTrue
  BY DEF Answering, Showing
<1>2. PICK new : new = Turn(o, "FILLED", orders[o].version)
  OBVIOUS
<1>3. /\ orders' = new /\ Report(new) /\ orders[o].status = "NEW"
      /\ UNCHANGED <<calls, orphans, journal, shown>>
  BY <1>2 DEF Fill, wire, users, Resting
<1>4. orders[o].version \in 0..Versions
  <2>1. orders[o] \in OrderSet
    BY <1>1 DEF OrdersType
  <2> QED
    BY <2>1 DEF OrderSet
<1>5. Stepped(new) /\ new[o].status = "FILLED"
  BY <1>1, <1>2, <1>4, TurnSteps DEF RowStatuses
<1>6. \A p \in Orders : p # o => new[p] = orders[p]
  BY <1>1, <1>2 DEF Turn, OrdersType
<1>7. Lawful
  BY <1>3, <1>5, <1>6, AfterIs DEF Lawful
<1>8. \A k \in DOMAIN stream' : \E row : stream'[k] = row /\ (Was(row) \/ Current(row)')
  BY <1>1, <1>3, <1>5, ReportMoves
<1> QED
  BY <1>3, <1>5, <1>7, <1>8 DEF Moves, Sourced, Remembered

(* What is shown was so, and is newer than what was shown before.          *)
LEMMA ShownLearns ==
  ASSUME NEW o \in Orders, NEW row, row.status \in RowStatuses, row.order = o,
         row.status # "UNKNOWN" => Was(row), NEW status,
         row.status = "UNKNOWN" => status = "UNDEFINED",
         row.status # "UNKNOWN" => status = MapOrdStatus[row.status],
         shown'[o] = Show(shown[o], row, status)
  PROVE  shown'[o] = shown[o] \/ Learns(o)
<1>1. CASE status = "UNDEFINED" \/ ~Newer(shown[o], row)
  BY <1>1 DEF Show
<1>2. CASE status # "UNDEFINED" /\ Newer(shown[o], row)
  BY <1>2 DEF Show, Newer, Learns
<1> QED
  BY <1>1, <1>2

LEMMA HandleMoves ==
  ASSUME Answering, Remembered, NEW c \in Ring, HandleResponse(c)
  PROVE  Moves
<1>1. WireType /\ WaitsOnce /\ OrdersType /\ calls[c] # <<>>
  BY DEF Answering, HandleResponse
<1>2. /\ orders' = orders /\ stream' = stream
      /\ calls' = [calls EXCEPT ![c] = Tail(@)]
      /\ shown' = ShowRows(Request(Head(calls[c]).id).type, Head(calls[c]).response.rows)
  BY DEF HandleResponse, exchange
<1>3. /\ 1 \in DOMAIN calls[c] /\ Head(calls[c]) = calls[c][1]
      /\ \A d \in Ring : \A i \in DOMAIN calls'[d] :
           \E k \in DOMAIN calls[d] : calls'[d][i] = calls[d][k]
  BY <1>1, <1>2, CallTaken
<1>4. PICK rows, type : /\ rows = calls[c][1].response.rows
                        /\ shown' = ShowRows(type, rows)
  BY <1>2, <1>3
<1>5. rows \subseteq RowSet /\ \A row \in rows : row.status # "UNKNOWN" => Was(row)
  <2>1. calls[c][1].response \in Responses
    BY <1>1, <1>3, CallType
  <2>2. calls[c][1].response.rows \subseteq RowSet
    BY <2>1 DEF Responses
  <2> QED
    BY <1>3, <1>4, <2>2 DEF Remembered
<1>6. ASSUME NEW o \in Orders
      PROVE  shown'[o] = shown[o] \/ Learns(o)
  <2> DEFINE mine == {row \in rows : row.order = o /\ type # "CANCEL_ALL_ORDERS"}
             row == CHOOSE row \in mine : TRUE
  <2>1. shown'[o] = IF mine = {} THEN shown[o]
                    ELSE Show(shown[o], row,
                              ComputeOrderStatus(row.status, row.status = "NEW"))
    BY <1>4 DEF ShowRows
  <2>2. CASE mine = {}
    BY <2>1, <2>2
  <2>3. CASE mine # {}
    <3>1. PICK it \in mine :
            shown'[o] = Show(shown[o], it, ComputeOrderStatus(it.status, it.status = "NEW"))
      <4>1. row \in mine
        BY <2>3
      <4> HIDE DEF row
      <4> QED
        BY <2>1, <2>3, <4>1
    <3>2. it \in RowSet /\ it.order = o /\ (it.status # "UNKNOWN" => Was(it))
      BY <1>5
    <3>3. it.status \in RowStatuses
      BY <3>2 DEF RowSet
    <3>4. PICK status : status = ComputeOrderStatus(it.status, it.status = "NEW")
      OBVIOUS
    <3>5. it.status = "UNKNOWN" => status = "UNDEFINED"
      BY <3>4, Untranslated
    <3>6. it.status # "UNKNOWN" => status = MapOrdStatus[it.status]
      BY <3>3, <3>4, Translated
    <3> QED
      BY <3>1, <3>2, <3>3, <3>4, <3>5, <3>6, ShownLearns
  <2> QED
    BY <2>2, <2>3
<1> QED
  BY <1>1, <1>2, <1>3, <1>6, QuietMoves

LEMMA HearMoves ==
  ASSUME Answering, Showing, Remembered, ExecutionArrives
  PROVE  Moves
<1>1. OrdersType /\ stream \in Seq(StreamSet) /\ stream # <<>>
  BY DEF Answering, Showing, StreamTrue, ExecutionArrives
<1>2. PICK row : row = Head(stream)
  OBVIOUS
<1>3. /\ orders' = orders /\ calls' = calls /\ stream' = Tail(stream)
      /\ shown' = [shown EXCEPT ![row.order] = Show(@, row, MapOrdStatus[row.status])]
  BY <1>2 DEF ExecutionArrives, wire
<1>4. /\ row = stream[1] /\ 1 \in DOMAIN stream
      /\ \A i \in DOMAIN stream' : i + 1 \in DOMAIN stream /\ stream'[i] = stream[i + 1]
  BY <1>1, <1>2, <1>3
<1>5. row \in StreamSet /\ Was(row)
  BY <1>1, <1>4 DEF Remembered
<1>6. row.order \in Orders /\ row.status \in RowStatuses /\ row.status # "UNKNOWN"
  BY <1>5 DEF StreamSet
<1>7. shown \in [Orders -> ShownSet]
  BY DEF Showing, ShownTrue
<1>8. ASSUME NEW o \in Orders
      PROVE  shown'[o] = shown[o] \/ Learns(o)
  <2>1. CASE o = row.order
    <3>1. shown'[o] = Show(shown[o], row, MapOrdStatus[row.status])
      BY <1>3, <1>7, <2>1
    <3> QED
      BY <1>5, <1>6, <2>1, <3>1, ShownLearns
  <2>2. CASE o # row.order
    BY <1>3, <1>7, <2>2
  <2> QED
    BY <2>1, <2>2
<1> QED
  BY <1>1, <1>3, <1>4, <1>8, QuietMoves

LEMMA EntryMoves ==
  ASSUME Entered, Remembered, Once, [Next]_vars
  PROVE  Once' /\ Moves
<1>1. TurnType /\ Answering /\ Showing /\ OrdersType /\ WireType /\ WaitsOnce
  BY DEF Entered, Turns, Answering
<1>2. Once'
  BY OnceAlways DEF Entered
<1> SUFFICES Moves
  BY <1>2
<1>3. ASSUME NEW t, NEW entry, Forward(t, entry)
      PROVE  Moves
  <2>1. UNCHANGED <<orders, stream, shown>>
    BY <1>3 DEF Forward, exchange
  <2>2. \A d \in Ring : \A i \in DOMAIN calls'[d] :
          \/ calls'[d][i].response.rows = {}
          \/ \E k \in DOMAIN calls[d] : calls'[d][i] = calls[d][k]
    <3>1. CASE NoneReady
      <4>1. calls' = calls
        BY <1>3, <3>1 DEF Forward
      <4> QED
        BY <1>1, <4>1, CallsCarried
    <3>2. CASE ~NoneReady
      <4>1. NextReady \in Ring
        BY <1>1, <3>2, NextIsReady DEF TurnType
      <4> QED
        BY <1>1, <1>3, <3>2, <4>1, CallsCarried
    <3> QED
      BY <3>1, <3>2
  <2> QED
    BY <1>1, <2>1, <2>2, QuietMoves
<1>4. CASE \/ CancelAllOrders
           \/ \E o \in Orders : CreateOrder(o) \/ ModifyOrder(o) \/ CancelOrder(o)
  <2>1. \E t, entry : Forward(t, entry)
    BY <1>4 DEF CancelAllOrders, CreateOrder, ModifyOrder, CancelOrder
  <2> QED
    BY <1>3, <2>1
<1>5. CASE \E c \in Ring : Serve(c)
  BY <1>1, <1>5, ServeMoves
<1>6. CASE ServeOrphan
  BY <1>1, <1>6, OrphanMoves
<1>7. CASE \E o \in Orders : Fill(o)
  BY <1>1, <1>7, FillMoves
<1>8. CASE \E c \in Ring : HandleResponse(c)
  BY <1>1, <1>8, HandleMoves
<1>9. CASE \E c \in Ring : Timeout(c) \/ Disconnected(c)
  <2>1. UNCHANGED <<orders, stream, shown>>
    BY <1>9 DEF Timeout, Disconnected, exchange
  <2>2. \A d \in Ring : \A i \in DOMAIN calls'[d] :
          \/ calls'[d][i].response.rows = {}
          \/ \E k \in DOMAIN calls[d] : calls'[d][i] = calls[d][k]
    BY <1>1, <1>9, CallsCarried
  <2> QED
    BY <1>1, <2>1, <2>2, QuietMoves
<1>10. CASE ExecutionArrives
  BY <1>1, <1>10, HearMoves
<1>11. CASE (\E c \in Ring : Connected(c)) \/ UNCHANGED vars
  <2>1. UNCHANGED <<calls, orders, stream, shown>>
    BY <1>11 DEF Connected, vars, wire, exchange, users
  <2> QED
    BY <1>1, <2>1, QuietMoves
<1> QED
  BY <1>4, <1>5, <1>6, <1>7, <1>8, <1>9, <1>10, <1>11 DEF Next

(* The drop copy comes, tells or goes: no order changes, nor what is seen. *)
LEMMA CopyMoves ==
  ASSUME Entered, Recorded, Remembered, Once, CopyLost \/ CopyListens \/ CopyTold
  PROVE  Once' /\ Moves /\ Remember
<1>1. /\ UNCHANGED <<calls, orphans, journal, orders, shown, past>>
      /\ OrdersType
  BY DEF Entered, Answering, CopyLost, CopyListens, CopyTold, wire, users
<1>2. Once'
  BY <1>1, ElsewhereOnce
<1>3. Remember
  BY <1>1 DEF Recorded, Remember
<1>4. Stepped(orders') /\ Lawful
  BY <1>1, Unstepped DEF Lawful
<1>5. \A i \in DOMAIN stream' : \E row : stream'[i] = row /\ (Was(row) \/ Current(row)')
  <2>1. CASE CopyLost \/ CopyListens
    BY <2>1 DEF CopyLost, CopyListens
  <2>2. CASE CopyTold
    <3>1. PICK others \in SUBSET Closed :
            \E told \in Arrangements(Resting \cup others) : stream' = stream \o Snapshot(told)
      BY <2>2 DEF CopyTold
    <3>2. PICK told \in Arrangements(Resting \cup others) : stream' = stream \o Snapshot(told)
      BY <3>1
    <3>3. /\ stream' \in Seq(StreamSet)
          /\ \A i \in DOMAIN stream : stream'[i] = stream[i]
          /\ \A i \in DOMAIN stream' :
               \/ i \in DOMAIN stream
               \/ /\ stream'[i].order \in Orders
                  /\ stream'[i].status = orders[stream'[i].order].status
                  /\ stream'[i].revision = orders[stream'[i].order].revision
      BY <3>2, SnapshotSays
    <3>4. ASSUME NEW i \in DOMAIN stream', NEW row, row = stream'[i]
          PROVE  Was(row) \/ Current(row)'
      <4>1. CASE i \in DOMAIN stream
        BY <3>3, <3>4, <4>1 DEF Remembered
      <4>2. CASE i \notin DOMAIN stream
        <5>1. row \in StreamSet
          BY <3>3, <3>4
        <5>2. row.status # "NONE"
          BY <5>1 DEF StreamSet, RowStatuses
        <5> QED
          BY <1>1, <3>3, <3>4, <4>2, <5>2 DEF Current
      <4> QED
        BY <4>1, <4>2
    <3> QED
      BY <3>4
  <2> QED
    BY <2>1, <2>2
<1>6. Sourced
  BY <1>1, <1>5 DEF Sourced, Remembered
<1> QED
  BY <1>2, <1>3, <1>4, <1>6 DEF Moves

-------------------------------------------------------------------------------
(* OrderLife is implemented.                                               *)

View == [o \in Orders |-> [known |-> shown[o].revision, status |-> shown[o].status]]

LEMMA LifeInitially ==
  ASSUME ManagedInit
  PROVE  Life!Init
  BY DEF ManagedInit, Init, Life!Init

LEMMA AfterSame == Life!After = After /\ DOMAIN After = Statuses
  BY DEF Life!After, After, Statuses

LEMMA ChangeStep ==
  ASSUME OrdersType, Recorded, Remember, Stepped(orders'), shown' = shown,
         \A o \in Orders : \/ orders'[o] = orders[o]
                           \/ orders'[o].status \in After[orders[o].status]
  PROVE  Life!Change
<1> DEFINE changed == {o \in Orders : orders'[o] # orders[o]}
           new == [o \in Orders |-> orders'[o].status]
<1>1. DOMAIN Life!After = Statuses
  BY AfterSame
<1>2. ASSUME NEW o \in Orders
      PROVE  orders'[o].status \in Statuses
  <2>1. orders'[o] \in OrderSet
    BY DEF Stepped
  <2> QED
    BY <2>1 DEF OrderSet
<1>3. new \in [Orders -> DOMAIN Life!After] /\ changed \in SUBSET Orders
  BY <1>1, <1>2
<1>4. \A o \in changed : new[o] \in Life!After[Life!Latest(past[o])]
  BY AfterSame DEF Recorded
<1>5. past' = [o \in Orders |-> IF o \in changed THEN Append(past[o], new[o]) ELSE past[o]]
  BY DEF Remember
<1> HIDE DEF changed, new
<1> QED
  BY <1>3, <1>4, <1>5 DEF Life!Change

(* What is shown of an order is one of the things that it has been.        *)
LEMMA ShownLater ==
  ASSUME Recorded, Remembered, shown \in [Orders -> ShownSet], NEW o \in Orders,
         shown'[o] \in ShownSet, shown'[o] = shown[o] \/ Learns(o)
  PROVE  \/ shown'[o] = shown[o]
         \/ \E n \in shown[o].revision + 1 .. Len(past[o]) :
              /\ shown'[o].revision = n
              /\ shown'[o].status = MapOrdStatus[past[o][n]]
<1> SUFFICES ASSUME Learns(o)
             PROVE  \/ shown'[o] = shown[o]
                    \/ \E n \in shown[o].revision + 1 .. Len(past[o]) :
                         /\ shown'[o].revision = n
                         /\ shown'[o].status = MapOrdStatus[past[o][n]]
  OBVIOUS
<1>1. PICK row : /\ Was(row) /\ row.order = o /\ row.revision >= shown[o].revision
                 /\ shown'[o] = [status |-> MapOrdStatus[row.status],
                                 revision |-> row.revision]
  BY DEF Learns
<1>2. /\ row.revision \in 1..Len(past[o]) /\ past[o][row.revision] = row.status
      /\ Len(past[o]) \in Nat
  BY <1>1, LatestIs DEF Was, Recorded
<1>3. shown[o] \in ShownSet
  OBVIOUS
<1>4. shown[o].revision \in Nat
      /\ shown[o] = [status |-> shown[o].status, revision |-> shown[o].revision]
  BY <1>3 DEF ShownSet
<1>5. CASE row.revision = shown[o].revision
  <2>1. shown[o].status = MapOrdStatus[past[o][shown[o].revision]]
    BY <1>2, <1>5 DEF Remembered, Seen
  <2>2. shown[o].status = MapOrdStatus[row.status]
    BY <1>2, <1>5, <2>1
  <2> QED
    BY <1>1, <1>4, <1>5, <2>2
<1>6. CASE row.revision # shown[o].revision
  <2>1. row.revision \in shown[o].revision + 1 .. Len(past[o])
    BY <1>1, <1>2, <1>4, <1>6
  <2>2. shown'[o].revision = row.revision /\ shown'[o].status = MapOrdStatus[past[o][row.revision]]
    BY <1>1, <1>2
  <2> QED
    BY <2>1, <2>2
<1> QED
  BY <1>5, <1>6

LEMMA LearnStep ==
  ASSUME Recorded, Remembered, Remember, orders' = orders,
         shown \in [Orders -> ShownSet], shown' \in [Orders -> ShownSet],
         \A o \in Orders : shown'[o] = shown[o] \/ Learns(o)
  PROVE  Life!Learn
<1>1. past' = past
  BY DEF Recorded, Remember
<1>2. View' = [o \in Orders |-> [known |-> shown'[o].revision, status |-> shown'[o].status]]
  BY DEF View
<1>3. ASSUME NEW o \in Orders
      PROVE  View'[o] \in {View[o]} \cup Life!Later(o)
  <2>1. /\ View'[o] = [known |-> shown'[o].revision, status |-> shown'[o].status]
        /\ View[o] = [known |-> shown[o].revision, status |-> shown[o].status]
    BY <1>2 DEF View
  <2>2. CASE shown'[o] = shown[o]
    BY <2>1, <2>2
  <2>3. ASSUME NEW n \in shown[o].revision + 1 .. Len(past[o]),
               shown'[o].revision = n, shown'[o].status = MapOrdStatus[past[o][n]]
        PROVE  View'[o] \in Life!Later(o)
    <3>1. View'[o] = [known |-> n, status |-> MapOrdStatus[past[o][n]]]
      BY <2>1, <2>3
    <3>2. n \in View[o].known + 1 .. Len(past[o])
      BY <2>1, <2>3
    <3>3. [known |-> n, status |-> Life!MapOrdStatus[past[o][n]]] \in Life!Later(o)
      BY <3>2 DEF Life!Later, View
    <3>4. Life!MapOrdStatus = MapOrdStatus
      BY DEF Life!MapOrdStatus, MapOrdStatus, Life!OrdStatus, OrdStatus
    <3> QED
      BY <3>1, <3>3, <3>4
  <2> QED
    BY <2>2, <2>3, ShownLater
<1>4. View' \in [Orders -> UNION {{View[o]} \cup Life!Later(o) : o \in Orders}]
  BY <1>2, <1>3
<1> QED
  BY <1>1, <1>3, <1>4 DEF Life!Learn, View

Lived == Entered /\ Recorded /\ Remembered /\ Once

LEMMA LivedKept ==
  ASSUME Lived, [ManagedNext]_managed
  PROVE  Lived' /\ [Life!Next]_(<<past, View>>)
<1>1. /\ OrdersType /\ shown \in [Orders -> ShownSet]
      /\ Entered /\ Recorded /\ Remembered /\ Once
  BY DEF Lived, Entered, Answering, Showing, ShownTrue
<1>2. Entered' /\ Once' /\ Moves /\ Remember
  <2>1. CASE CopyLost \/ CopyListens \/ CopyTold
    <3>1. Once' /\ Moves /\ Remember
      BY <1>1, <2>1, CopyMoves
    <3>2. UNCHANGED <<gateway, wire, orders, users, history, budget>>
      BY <2>1 DEF CopyLost, CopyListens, CopyTold
    <3>3. StreamTrue'
      BY <1>1, <2>1, CopyStreams
    <3> QED
      BY <1>1, <3>1, <3>2, <3>3, CopyOnly
  <2>2. CASE OrderEntryNext \/ CopyHears \/ UNCHANGED managed
    <3>1. [Next]_vars
      BY <2>2 DEF OrderEntryNext, CopyHears, managed, Next
    <3>2. Remember
      <4>1. CASE OrderEntryNext
        BY <4>1 DEF OrderEntryNext
      <4>2. CASE CopyHears \/ UNCHANGED managed
        <5>1. past' = past /\ orders' = orders
          BY <4>2 DEF CopyHears, ExecutionArrives, managed, vars, exchange
        <5> QED
          BY <1>1, <5>1 DEF Recorded, Remember
      <4> QED
        BY <2>2, <4>1, <4>2
    <3> QED
      BY <1>1, <3>1, <3>2, EnteredKept, EntryMoves
  <2> QED
    BY <2>1, <2>2 DEF ManagedNext
<1>3. Lived'
  BY <1>1, <1>2, RememberedKept DEF Lived, Moves
<1>4. CASE orders' = orders
  <2>1. shown' \in [Orders -> ShownSet]
    BY <1>2 DEF Entered, Showing, ShownTrue
  <2>2. Life!Learn
    BY <1>1, <1>2, <1>4, <2>1, LearnStep DEF Moves, Sourced
  <2> QED
    BY <1>3, <2>2 DEF Life!Next
<1>5. CASE orders' # orders
  <2>1. Life!Change
    BY <1>1, <1>2, <1>5, ChangeStep DEF Moves, Lawful
  <2> QED
    BY <1>3, <2>1 DEF Life!Next
<1> QED
  BY <1>4, <1>5

(* For any number of orders, connections and requests, and however often   *)
(* the drop copy is lost: of each order the users see statuses it has had, *)
(* in the order it had them, whichever channel they come by                *)
(* (order_update.cpp, drop_copy.cpp and the update time they pass on).     *)
THEOREM LifeFollowed == ManagedSpec => FollowsLife
<1>1. ManagedInit => Lived /\ Life!Init
  BY EnteredInitially, RecordedInitially, OnceInitially, LifeInitially
     DEF Lived, ManagedInit
<1>2. Lived /\ [ManagedNext]_managed => Lived' /\ [Life!Next]_(<<past, View>>)
  BY LivedKept
<1> QED
  BY <1>1, <1>2, PTL DEF ManagedSpec, FollowsLife, Life!Spec, Life!life, View

===============================================================================
